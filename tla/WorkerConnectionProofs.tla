----------------------- MODULE WorkerConnectionProofs -----------------------
(***************************************************************************)
(* Theorems about WorkerConnection, for any number of attempts, retries    *)
(* and events.                                                             *)
(***************************************************************************)
EXTENDS WorkerConnection, TLAPS

\* While awake there is a failure left before dormancy; without this the
\* count could not be bounded.
BudgetLeft == ~sleeping => consecutiveFailures < MaxRetries

IInv == TypeOK /\ BudgetLeft /\ NoGhostConnection /\ AwakeIsResponsive

\* There is at least one failure to spend.
LEMMA Budget == MaxRetries \in Nat /\ 0 < MaxRetries
  BY MaxRetriesAssumption

\* An awake worker that has not failed yet is within its budget.
LEMMA FreshBudget ==
    ASSUME sleeping = FALSE, consecutiveFailures = 0
    PROVE  /\ sleeping \in BOOLEAN
           /\ consecutiveFailures \in 0 .. MaxRetries
           /\ BudgetLeft
  <1>1. consecutiveFailures \in 0 .. MaxRetries /\ consecutiveFailures < MaxRetries
    BY Budget
  <1>2. QED
    BY <1>1 DEF BudgetLeft

\* The same, after a step that wakes the worker up.
LEMMA FreshBudgetNext ==
    ASSUME sleeping' = FALSE, consecutiveFailures' = 0
    PROVE  /\ sleeping' \in BOOLEAN
           /\ consecutiveFailures' \in 0 .. MaxRetries
           /\ BudgetLeft'
  <1>1. consecutiveFailures' \in 0 .. MaxRetries /\ consecutiveFailures' < MaxRetries
    BY Budget
  <1>2. QED
    BY <1>1 DEF BudgetLeft

\* The streams that are left after an abort keep their types.
LEMMA AbortedType ==
    ASSUME NEW s \in [Attempts -> StreamStates]
    PROVE  Aborted(s) \in [Attempts -> StreamStates]
  BY DEF Aborted, StreamStates

\* What a fresh evaluation starts from has the right types.
LEMMA FreshTypes ==
    /\ Idle \in [Attempts -> Stages]
    /\ NoStreams \in [Attempts -> StreamStates]
    /\ NotWaking \in [WakeStages -> Nat]
  BY DEF Idle, NoStreams, NotWaking, Stages, StreamStates

\* The first state of a worker satisfies the invariant.
LEMMA InitIInv == Init => IInv
  <1> SUFFICES ASSUME Init PROVE IInv
    OBVIOUS
  <1>1. /\ sleeping \in BOOLEAN
        /\ consecutiveFailures \in 0 .. MaxRetries
        /\ BudgetLeft
    BY FreshBudget DEF Init
  <1>2. alive \in BOOLEAN
    BY DEF Init
  <1>3. AwakeIsResponsive
    BY DEF Init, AwakeIsResponsive
  <1>4. QED
    BY <1>1, <1>2, <1>3, FreshTypes, MaxEventsAssumption
       DEF Init, IInv, TypeOK, NoGhostConnection

\* An attempt that fails, at any point, with whatever streams it leaves.
LEMMA FailIInv ==
    ASSUME IInv, NEW a \in Attempts, NEW genuine \in BOOLEAN,
           NEW s \in [Attempts -> StreamStates],
           stage[a] # "restoring", Fail(a, genuine, s)
    PROVE  IInv'
  <1> USE NoAttemptAssumption, Budget, MaxEventsAssumption
  <1>1. TypeOK' /\ BudgetLeft'
    <2>1. stream' \in [Attempts -> StreamStates]
      BY AbortedType DEF Fail, Disconnect
    <2>2. stage' \in [Attempts -> Stages]
      BY DEF IInv, TypeOK, Fail, Settle, Stages
    <2>3. /\ consecutiveFailures' \in 0 .. MaxRetries
          /\ sleeping' \in BOOLEAN
          /\ period' \in {"responsive", "dormant"}
          /\ BudgetLeft'
      <3>1. CASE ~Counts(genuine)
        BY <3>1 DEF IInv, TypeOK, BudgetLeft, Fail, dormancyVars
      <3>2. CASE Counts(genuine) /\ OverBudget(consecutiveFailures + 1)
        <4>1. consecutiveFailures < MaxRetries
          BY <3>2 DEF IInv, BudgetLeft, Counts
        <4>2. consecutiveFailures' \in 0 .. MaxRetries
          BY <3>2, <4>1 DEF IInv, TypeOK, Fail
        <4>3. sleeping' = TRUE /\ period' = "dormant"
          BY <3>2 DEF Fail
        <4>4. QED
          BY <4>2, <4>3 DEF BudgetLeft
      <3>3. CASE Counts(genuine) /\ ~OverBudget(consecutiveFailures + 1)
        <4>1. /\ consecutiveFailures' \in 0 .. MaxRetries
              /\ consecutiveFailures' < MaxRetries
          BY <3>3 DEF IInv, TypeOK, Fail, OverBudget
        <4>2. sleeping' = sleeping /\ period' = period
          BY <3>3 DEF Fail
        <4>3. QED
          BY <4>1, <4>2 DEF IInv, TypeOK, BudgetLeft
      <3>4. QED
        BY <3>1, <3>2, <3>3
    <2>4. QED
      BY <2>1, <2>2, <2>3 DEF IInv, TypeOK, Fail, Disconnect, envVars
  <1>2. NoGhostConnection'
    BY DEF Fail, Disconnect, NoGhostConnection
  <1>3. AwakeIsResponsive'
    <2>1. RestoreDue => RestoreDue'
      BY DEF IInv, TypeOK, RestoreDue, Fail, Settle
    <2>2. QED
      BY <2>1 DEF IInv, TypeOK, AwakeIsResponsive, Fail, dormancyVars
  <1>4. QED
    BY <1>1, <1>2, <1>3 DEF IInv

\* A new attempt, whoever starts it.
LEMMA ConnectIInv ==
    ASSUME IInv, NEW a \in Attempts, NEW force \in BOOLEAN, Connect(a, force)
    PROVE  /\ connectionAttempt' \in Attempts \cup {NoAttempt}
           /\ activeController' \in Attempts \cup {NoAttempt}
           /\ stage' \in [Attempts -> Stages]
           /\ stream' \in [Attempts -> StreamStates]
           /\ NoGhostConnection'
           /\ \A b \in Attempts : stage[b] = "restoring" => stage'[b] = "restoring"
  BY DEF IInv, TypeOK, Connect, MayConnect, Settle, Stages, NoGhostConnection

\* Every step of an attempt.
LEMMA StepIInv ==
    ASSUME IInv, NEW a \in Attempts, Step(a)
    PROVE  IInv'
  <1> USE NoAttemptAssumption, Budget, MaxEventsAssumption
  <1> USE DEF IInv, TypeOK, dormancyVars, envVars
  <1>1. CASE Authenticated(a)
    BY <1>1 DEF Authenticated, Settle, Stages, BudgetLeft, NoGhostConnection,
                AwakeIsResponsive, RestoreDue
  <1>2. CASE NotAuthenticated(a)
    <2>1. stage[a] # "restoring" /\ (server = "faulty") \in BOOLEAN
      BY <1>2 DEF NotAuthenticated
    <2>2. QED
      BY <1>2, <2>1, FailIInv DEF NotAuthenticated
  <1>3. CASE ServerAttaches(a)
    <2>1. stream' \in [Attempts -> StreamStates] /\ NoGhostConnection'
      BY <1>3 DEF ServerAttaches, StreamStates, NoGhostConnection
    <2>2. QED
      BY <1>3, <2>1 DEF ServerAttaches, BudgetLeft, AwakeIsResponsive, RestoreDue
  <1>4. CASE OpenFails(a)
    <2>1. /\ stage[a] # "restoring"
          /\ [stream EXCEPT ![a] = "none"] \in [Attempts -> StreamStates]
      BY <1>4 DEF OpenFails, StreamStates
    <2>2. QED
      BY <1>4, <2>1, FailIInv DEF OpenFails
  <1>5. CASE OpenRefused(a)
    BY <1>5 DEF OpenRefused, Settle, Stages, BudgetLeft, NoGhostConnection,
                AwakeIsResponsive, RestoreDue
  <1>6. CASE Opened(a)
    <2>0. /\ sleeping' \in BOOLEAN
          /\ consecutiveFailures' \in 0 .. MaxRetries
          /\ BudgetLeft'
      BY <1>6, FreshBudgetNext DEF Opened
    <2>1. TypeOK' /\ BudgetLeft' /\ NoGhostConnection'
      BY <1>6, <2>0 DEF Opened, Settle, Stages, NoGhostConnection
    <2>2. CASE sleeping
      BY <1>6, <2>1, <2>2 DEF Opened, Settle, AwakeIsResponsive, RestoreDue
    <2>3. CASE ~sleeping
      BY <1>6, <2>1, <2>3 DEF Opened, Settle, AwakeIsResponsive, RestoreDue
    <2>4. QED
      BY <2>2, <2>3
  <1>7. CASE Restored(a)
    BY <1>7 DEF Restored, Settle, Stages, BudgetLeft, NoGhostConnection,
                AwakeIsResponsive
  <1>8. CASE Finished(a)
    BY <1>8 DEF Finished, Settle, Stages, BudgetLeft, NoGhostConnection,
                AwakeIsResponsive, RestoreDue
  <1>9. CASE ReportFails(a)
    <2>1. stage[a] # "restoring"
      BY <1>9 DEF ReportFails
    <2>2. QED
      BY <1>9, <2>1, FailIInv DEF ReportFails
  <1>10. QED
    BY <1>1, <1>2, <1>3, <1>4, <1>5, <1>6, <1>7, <1>8, <1>9 DEF Step

\* Every step of the system, and a step that changes nothing.
LEMMA NextIInv == IInv /\ [Next]_vars => IInv'
  <1> SUFFICES ASSUME IInv, [Next]_vars PROVE IInv'
    OBVIOUS
  <1> USE NoAttemptAssumption, Budget, MaxEventsAssumption
  <1> USE DEF IInv, TypeOK, dormancyVars, envVars
  <1>1. ASSUME NEW a \in Attempts, Step(a) PROVE IInv'
    BY <1>1, StepIInv
  <1>2. ASSUME NEW a \in Attempts, StreamEnds(a) PROVE IInv'
    BY <1>2 DEF StreamEnds, StreamStates, BudgetLeft, NoGhostConnection,
                AwakeIsResponsive, RestoreDue
  <1>3. ASSUME NEW a \in Attempts, StreamBreaks(a) PROVE IInv'
    BY <1>3 DEF StreamBreaks, StreamStates, BudgetLeft, NoGhostConnection,
                AwakeIsResponsive, RestoreDue
  <1>4. CASE Alarm
    <2>1. PICK a \in Attempts : Connect(a, sleeping)
      BY <1>4 DEF Alarm
    <2>2. QED
      BY <1>4, <2>1, ConnectIInv DEF Alarm, BudgetLeft, AwakeIsResponsive, RestoreDue
  <1>5. CASE WakeUp
    <2>1. stream' \in [Attempts -> StreamStates]
      BY <1>5, AbortedType DEF WakeUp, Disconnect
    <2>2. waking' \in [WakeStages -> Nat] /\ waking'["clearing"] > 0
      BY <1>5 DEF WakeUp, WakeStages
    <2>3. /\ sleeping' \in BOOLEAN
          /\ consecutiveFailures' \in 0 .. MaxRetries
          /\ BudgetLeft'
      BY <1>5, FreshBudgetNext DEF WakeUp
    <2>4. AwakeIsResponsive'
      BY <2>2 DEF AwakeIsResponsive, RestoreDue
    <2>5. QED
      BY <1>5, <2>1, <2>2, <2>3, <2>4 DEF WakeUp, Disconnect, NoGhostConnection
  <1>6. CASE WakeRestores
    <2>1. waking' \in [WakeStages -> Nat]
      BY <1>6 DEF WakeRestores, WakeStages
    <2>2. QED
      BY <1>6, <2>1 DEF WakeRestores, attemptVars, BudgetLeft, NoGhostConnection,
                        AwakeIsResponsive
  <1>7. CASE WakeConnects
    <2>1. waking' \in [WakeStages -> Nat] /\ waking'["clearing"] = waking["clearing"]
      BY <1>7 DEF WakeConnects, WakeStages
    <2>2. CASE UNCHANGED attemptVars
      BY <1>7, <2>1, <2>2 DEF WakeConnects, attemptVars, BudgetLeft,
                              NoGhostConnection, AwakeIsResponsive, RestoreDue
    <2>3. ASSUME NEW a \in Attempts, Connect(a, FALSE) PROVE IInv'
      BY <1>7, <2>1, <2>3, ConnectIInv
         DEF WakeConnects, BudgetLeft, AwakeIsResponsive, RestoreDue
    <2>4. QED
      BY <1>7, <2>2, <2>3 DEF WakeConnects
  <1>8. CASE Revive
    <2>1. PICK a \in Attempts : Connect(a, FALSE)
      BY <1>8 DEF Revive
    <2>2. QED
      BY <1>8, <2>1, ConnectIInv DEF Revive, BudgetLeft, AwakeIsResponsive
  <1>9. CASE Stop
    <2>1. /\ sleeping' \in BOOLEAN
          /\ consecutiveFailures' \in 0 .. MaxRetries
          /\ BudgetLeft'
      BY <1>9, FreshBudgetNext DEF Stop
    <2>2. alive' \in BOOLEAN /\ AwakeIsResponsive'
      BY <1>9 DEF Stop, AwakeIsResponsive
    <2>3. QED
      BY <1>9, <2>1, <2>2, FreshTypes DEF Stop, NoGhostConnection
  <1>10. CASE ServerChanges
    <2>1. stream' \in [Attempts -> StreamStates] /\ NoGhostConnection'
      BY <1>10 DEF ServerChanges, StreamStates, NoGhostConnection
    <2>2. QED
      BY <1>10, <2>1 DEF ServerChanges, BudgetLeft, AwakeIsResponsive, RestoreDue
  <1>11. CASE UNCHANGED vars
    BY <1>11 DEF vars, attemptVars, BudgetLeft, NoGhostConnection,
                 AwakeIsResponsive, RestoreDue
  <1>12. QED
    BY <1>1, <1>2, <1>3, <1>4, <1>5, <1>6, <1>7, <1>8, <1>9, <1>10, <1>11 DEF Next

\* The invariant, in every state the worker can be in.
THEOREM IInvHolds == Spec => []IInv
  BY InitIInv, NextIInv, PTL DEF Spec

\* The types, and with them the bound on the failure count (dormancy.ts:60).
THEOREM TypeCorrect == Spec => []TypeOK
  <1>1. IInv => TypeOK
    BY DEF IInv
  <1>2. QED
    BY <1>1, IInvHolds, PTL

\* The connection of record always has a stream, or the end of one still to
\* be reported (sse.ts:6).
THEOREM NoGhost == Spec => []NoGhostConnection
  <1>1. IInv => NoGhostConnection
    BY DEF IInv
  <1>2. QED
    BY <1>1, IInvHolds, PTL

\* An awake worker is never left on the slow alarm (client.ts:125).
THEOREM AwakeMeansResponsive == Spec => []AwakeIsResponsive
  <1>1. IInv => AwakeIsResponsive
    BY DEF IInv
  <1>2. QED
    BY <1>1, IInvHolds, PTL

\* Only a failure that is genuine can use up the budget.
LEMMA OnlyFaultsDoze ==
    ASSUME server # "faulty", ~sleeping, [Next]_vars
    PROVE  ~sleeping'
  <1>1. ASSUME NEW a \in Attempts, NEW s, Fail(a, FALSE, s)
        PROVE  sleeping' = sleeping
    BY <1>1 DEF Fail, Counts, dormancyVars
  <1>2. CASE \E a \in Attempts : NotAuthenticated(a) \/ OpenFails(a) \/ ReportFails(a)
    BY <1>1, <1>2 DEF NotAuthenticated, OpenFails, ReportFails
  <1>3. CASE \E a \in Attempts : Authenticated(a) \/ ServerAttaches(a) \/ OpenRefused(a)
                                 \/ Opened(a) \/ Restored(a) \/ Finished(a)
    BY <1>3 DEF Authenticated, ServerAttaches, OpenRefused, Opened, Restored, Finished, dormancyVars
  <1>4. CASE \E a \in Attempts : StreamEnds(a) \/ StreamBreaks(a)
    BY <1>4 DEF StreamEnds, StreamBreaks, dormancyVars
  <1>5. CASE Alarm \/ WakeUp \/ WakeRestores \/ WakeConnects
    BY <1>5 DEF Alarm, WakeUp, WakeRestores, WakeConnects, dormancyVars
  <1>6. CASE Revive \/ Stop \/ ServerChanges
    BY <1>6 DEF Revive, Stop, ServerChanges, dormancyVars
  <1>7. CASE UNCHANGED vars
    BY <1>7 DEF vars, dormancyVars
  <1>8. QED
    BY <1>2, <1>3, <1>4, <1>5, <1>6, <1>7 DEF Next, Step

\* With nothing genuinely wrong in the whole life of the worker it never goes
\* dormant, whatever the attempts, clicks, stops and closed ports
\* (dormancy.ts:4).
THEOREM IdleServerKeepsAwake == Spec => IdleServerNeverDozes
  <1>1. Init => ~sleeping
    BY DEF Init
  <1>2. server # "faulty" /\ ~sleeping /\ [Next]_vars => ~sleeping'
    BY OnlyFaultsDoze
  <1>3. QED
    BY <1>1, <1>2, PTL DEF Spec, IdleServerNeverDozes

\* What makes Alone inductive: an attempt that has no stream of its own yet
\* runs only while there is no connection.
AloneInv ==
    /\ Alone
    /\ \A a \in Attempts :
         stage[a] \in {"authenticating", "opening"} => activeController = NoAttempt

\* Not disturbed: nothing is faulty and no click is being handled.
Undisturbed == server # "faulty" /\ waking = NotWaking

\* With nothing faulty, an attempt that fails leaves everything idle.
LEMMA FailsAlone ==
    ASSUME TypeOK, AloneInv, NEW a \in Attempts,
           NEW s \in [Attempts -> StreamStates],
           stage[a] \in {"authenticating", "opening"},
           \A b \in Attempts : s[b] = "open" => stream[b] = "open" /\ b # a,
           Fail(a, FALSE, s)
    PROVE  AloneInv'
  <1>1. activeController = NoAttempt /\ connectionAttempt = a
    BY DEF AloneInv, Alone
  <1>2. \A b \in Attempts : stage'[b] = "idle"
    BY <1>1 DEF AloneInv, Alone, Fail, Counts, Settle, TypeOK
  <1>3. \A b \in Attempts : stream[b] = "open" => b = a
    BY <1>1, NoAttemptAssumption DEF AloneInv, Alone
  <1>4. \A b \in Attempts : stream'[b] # "open"
    BY <1>3 DEF Fail, Disconnect, Aborted
  <1>5. QED
    BY <1>2, <1>4 DEF AloneInv, Alone

\* An attempt that starts finds no other, and no open stream.
LEMMA ConnectsAlone ==
    ASSUME TypeOK, AloneInv, NEW a \in Attempts, NEW force, Connect(a, force)
    PROVE  AloneInv'
  <1>1. \A b \in Attempts : stage[b] = "idle" /\ stream[b] # "open"
    BY NoAttemptAssumption DEF AloneInv, Alone, Connect, MayConnect
  <1>2. \A b \in Attempts : stage'[b] # "idle" => b = a
    BY <1>1 DEF Connect, Settle, TypeOK
  <1>3. QED
    BY <1>1, <1>2 DEF AloneInv, Alone, Connect, MayConnect

\* A step of the system while it is not disturbed.
LEMMA UndisturbedStep ==
    ASSUME TypeOK, AloneInv, Undisturbed, Undisturbed', [Next]_vars
    PROVE  AloneInv'
  <1> USE NoAttemptAssumption
  <1>1. ASSUME NEW a \in Attempts, Authenticated(a) PROVE AloneInv'
    BY <1>1 DEF TypeOK, AloneInv, Alone, Authenticated, Settle
  <1>2. ASSUME NEW a \in Attempts, NotAuthenticated(a) PROVE AloneInv'
    <2>1. stream[a] # "open"
      BY <1>2 DEF AloneInv, Alone, NotAuthenticated
    <2>2. Fail(a, FALSE, stream)
      BY <1>2 DEF NotAuthenticated, Undisturbed
    <2>3. stage[a] \in {"authenticating", "opening"}
      BY <1>2 DEF NotAuthenticated
    <2>4. \A b \in Attempts : stream[b] = "open" => stream[b] = "open" /\ b # a
      BY <2>1
    <2>5. QED
      BY <2>2, <2>3, <2>4, FailsAlone DEF TypeOK
  <1>3. ASSUME NEW a \in Attempts, ServerAttaches(a) PROVE AloneInv'
    BY <1>3 DEF TypeOK, AloneInv, Alone, ServerAttaches
  <1>4. ASSUME NEW a \in Attempts, OpenFails(a) PROVE AloneInv'
    <2>1. [stream EXCEPT ![a] = "none"] \in [Attempts -> StreamStates]
      BY DEF TypeOK, StreamStates
    <2>2. \A b \in Attempts :
             [stream EXCEPT ![a] = "none"][b] = "open" => stream[b] = "open" /\ b # a
      BY DEF TypeOK
    <2>3. stage[a] \in {"authenticating", "opening"}
      BY <1>4 DEF OpenFails
    <2>4. Fail(a, FALSE, [stream EXCEPT ![a] = "none"])
      BY <1>4 DEF OpenFails
    <2>5. QED
      BY <2>1, <2>2, <2>3, <2>4, FailsAlone
  <1>5. ASSUME NEW a \in Attempts, Opened(a) PROVE AloneInv'
    <2>1. connectionAttempt = a /\ activeController = NoAttempt
      BY <1>5 DEF AloneInv, Alone, Opened
    <2>2. \A b \in Attempts : stage'[b] # "idle" => b = a
      BY <1>5, <2>1 DEF TypeOK, AloneInv, Alone, Opened, Settle
    <2>3. stage'[a] \in {"restoring", "reporting"}
      BY <1>5 DEF TypeOK, Opened, Settle
    <2>4. \A b \in Attempts : stream[b] = "open" => b = a
      BY <2>1 DEF AloneInv, Alone
    <2>5. QED
      BY <1>5, <2>1, <2>2, <2>3, <2>4 DEF AloneInv, Alone, Opened
  <1>6. ASSUME NEW a \in Attempts, Restored(a) \/ Finished(a) PROVE AloneInv'
    <2>1. connectionAttempt = a
      BY <1>6 DEF AloneInv, Alone, Restored, Finished
    <2>2. QED
      BY <1>6, <2>1 DEF TypeOK, AloneInv, Alone, Restored, Finished, Settle
  <1>7. ASSUME NEW a \in Attempts, OpenRefused(a) \/ ReportFails(a) PROVE AloneInv'
    BY <1>7 DEF OpenRefused, ReportFails, Undisturbed
  <1>8. ASSUME NEW a \in Attempts, StreamEnds(a) PROVE AloneInv'
    BY <1>8 DEF TypeOK, AloneInv, Alone, StreamEnds
  <1>9. ASSUME NEW a \in Attempts, StreamBreaks(a) PROVE AloneInv'
    BY <1>9 DEF TypeOK, AloneInv, Alone, StreamBreaks
  <1>10. CASE Alarm \/ Revive
    BY <1>10, ConnectsAlone DEF Alarm, Revive
  <1>11. CASE WakeUp \/ WakeRestores \/ WakeConnects
    <2>1. waking["clearing"] = 0 /\ waking["restoring"] = 0 /\ waking'["clearing"] = 0
      BY DEF Undisturbed, NotWaking, WakeStages
    <2>2. QED
      BY <1>11, <2>1 DEF TypeOK, WakeUp, WakeRestores, WakeConnects, WakeStages
  <1>12. CASE Stop
    BY <1>12 DEF AloneInv, Alone, Stop, Idle, NoStreams
  <1>13. CASE ServerChanges
    BY <1>13 DEF TypeOK, AloneInv, Alone, ServerChanges
  <1>14. CASE UNCHANGED vars
    BY <1>14 DEF vars, attemptVars, AloneInv, Alone
  <1>15. QED
    BY <1>1, <1>2, <1>3, <1>4, <1>5, <1>6, <1>7, <1>8, <1>9, <1>10, <1>11, <1>12,
       <1>13, <1>14 DEF Next, Step

\* With no click and nothing faulty in the whole life of the worker, no two
\* attempts overlap and no open stream is left over, however many alarms,
\* stops and broken streams there are: what loses a stream, or connects an
\* attempt that was dropped, is a click or a fault (client.ts:136).
THEOREM UndisturbedIsAlone == Spec => UndisturbedAttemptsAreAlone
  <1>1. Init => AloneInv
    BY DEF Init, AloneInv, Alone, Idle, NoStreams
  <1>2. TypeOK /\ AloneInv /\ Undisturbed /\ Undisturbed' /\ [Next]_vars => AloneInv'
    BY UndisturbedStep
  <1>3. AloneInv => Alone
    BY DEF AloneInv
  <1>4. server # "faulty" /\ waking = NotWaking <=> Undisturbed
    BY DEF Undisturbed
  <1>5. QED
    BY <1>1, <1>2, <1>3, <1>4, TypeCorrect, PTL DEF Spec, UndisturbedAttemptsAreAlone
=============================================================================
