------------------------------ MODULE ToolCalls ------------------------------
(***************************************************************************)
(* What the bridge promises the agent, with nothing of how it does it: a   *)
(* tool call is asked once, the browser carries it out at most once, and   *)
(* the call ends exactly once, as answered or as failed.  An answer means  *)
(* the browser did carry out that very call.  A failure promises nothing   *)
(* about the browser: the work may have been done, may be under way, or    *)
(* may still happen later (server/src/bridge/bridge.ts, request).          *)
(***************************************************************************)
CONSTANT Calls          \* identifiers of tool calls, one per invocation

VARIABLES status,       \* what the agent knows of each call
          performed     \* the calls the browser has carried out

vars == <<status, performed>>

Status == {"unasked", "open", "answered", "failed"}

TypeOK ==
    /\ status \in [Calls -> Status]
    /\ performed \subseteq Calls

Init ==
    /\ status = [c \in Calls |-> "unasked"]
    /\ performed = {}

\* The agent calls a tool.
Ask(c) ==
    /\ status[c] = "unasked"
    /\ status' = [status EXCEPT ![c] = "open"]
    /\ UNCHANGED performed

\* The bridge already knows it cannot serve the call.
Refuse(c) ==
    /\ status[c] = "unasked"
    /\ status' = [status EXCEPT ![c] = "failed"]
    /\ UNCHANGED performed

\* The browser carries out a call it was sent, even one since given up on.
Perform(c) ==
    /\ status[c] # "unasked"
    /\ c \notin performed
    /\ performed' = performed \cup {c}
    /\ UNCHANGED status

\* The browser's result reaches the agent.
Answer(c) ==
    /\ status[c] = "open"
    /\ c \in performed
    /\ status' = [status EXCEPT ![c] = "answered"]
    /\ UNCHANGED performed

\* The bridge gives up on one call or on several at once.
Fail(C) ==
    /\ C # {}
    /\ \A c \in C : status[c] = "open"
    /\ status' = [c \in Calls |-> IF c \in C THEN "failed" ELSE status[c]]
    /\ UNCHANGED performed

Next ==
    \/ \E c \in Calls : Ask(c) \/ Refuse(c) \/ Perform(c) \/ Answer(c)
    \/ \E C \in SUBSET Calls : Fail(C)

Spec == Init /\ [][Next]_vars
=============================================================================
