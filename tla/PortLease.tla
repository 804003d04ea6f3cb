------------------------------ MODULE PortLease ------------------------------
(***************************************************************************)
(* What the lazy bridges promise about ports and the calls that need one,  *)
(* with nothing of binds, retries, timers and shutdowns: a server process  *)
(* has a port or none, no two have the same, and a call is served only by  *)
(* a process that has one.  A call made without a port waits for the       *)
(* outcome of a try to get it, which all that wait learn together; a port  *)
(* is given back with every call on it ended (bridge/lazy-bridge.ts,       *)
(* ensure and release).                                                    *)
(***************************************************************************)
CONSTANTS Procs, Calls, Client, Ports, NoPort

VARIABLES lease,        \* the port each process has, or NoPort
          status        \* where each tool call stands

vars == <<lease, status>>

Status == {"none", "waiting", "served"}

TypeOK ==
    /\ lease \in [Procs -> Ports \cup {NoPort}]
    /\ status \in [Calls -> Status]

Init ==
    /\ lease = [p \in Procs |-> NoPort]
    /\ status = [c \in Calls |-> "none"]

CallsOf(p) == {c \in Calls : Client[c] = p}
At(p, s) == {c \in CallsOf(p) : status[c] = s}

Become(C, s) == status' = [c \in Calls |-> IF c \in C THEN s ELSE status[c]]

Unleased(q) == \A p \in Procs : lease[p] # q

\* A tool is called.
Ask(p, c) ==
    /\ c \in At(p, "none")
    /\ Become({c}, IF lease[p] = NoPort THEN "waiting" ELSE "served")
    /\ UNCHANGED lease

\* The process gets a port that nobody has: whoever waited for it is served.
Take(p, q) ==
    /\ lease[p] = NoPort /\ Unleased(q)
    /\ lease' = [lease EXCEPT ![p] = q]
    /\ Become(At(p, "waiting"), "served")

\* It does not get one: whoever waited is told so.
Deny(p) ==
    /\ lease[p] = NoPort
    /\ Become(At(p, "waiting"), "none")
    /\ UNCHANGED lease

\* It changes its port for another that nobody has; its calls go on.
Move(p, q) ==
    /\ lease[p] # NoPort /\ Unleased(q)
    /\ lease' = [lease EXCEPT ![p] = q]
    /\ UNCHANGED status

\* It gives its port back, and no call is served any more.
GiveBack(p) ==
    /\ lease[p] # NoPort
    /\ lease' = [lease EXCEPT ![p] = NoPort]
    /\ Become(At(p, "served"), "none")

\* Calls that are served come to an end.
End(p, C) ==
    /\ C \subseteq At(p, "served")
    /\ Become(C, "none")
    /\ UNCHANGED lease

\* The process goes away with all it has.
Leave(p) ==
    /\ lease' = [lease EXCEPT ![p] = NoPort]
    /\ Become(CallsOf(p), "none")

Next ==
    \E p \in Procs :
        \/ \E c \in Calls : Ask(p, c)
        \/ \E q \in Ports : Take(p, q) \/ Move(p, q)
        \/ \E C \in SUBSET Calls : End(p, C)
        \/ Deny(p) \/ GiveBack(p) \/ Leave(p)

Spec == Init /\ [][Next]_vars

-----------------------------------------------------------------------------
(* What follows: no two processes have the same port, and a call is served   *)
(* exactly when its process has one when it is under way.                    *)
Promise ==
    /\ \A p, r \in Procs : lease[p] = lease[r] => p = r \/ lease[p] = NoPort
    /\ \A c \in Calls : /\ status[c] = "served" => lease[Client[c]] # NoPort
                        /\ status[c] = "waiting" => lease[Client[c]] = NoPort
=============================================================================
