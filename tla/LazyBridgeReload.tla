-------------------------- MODULE LazyBridgeReload --------------------------
(***************************************************************************)
(* LazyBridge with a history variable: what browser_status with reload =   *)
(* true has told the agent while no port was held.  lazy-bridge.ts then    *)
(* changes nothing and answers that the next tool call picks up the        *)
(* current config.                                                         *)
(***************************************************************************)
EXTENDS LazyBridge

VARIABLE promised     \* processes that gave that answer for the config on disk

reloadVars == <<vars, promised>>

ReloadInit == Init /\ promised = {}

\* reloadConfig() with `current` null.
ReloadIdle(p) ==
    /\ proc[p] # "exited"
    /\ current[p] = NoPort
    /\ stage[p] = "none"
    /\ promised' = promised \cup {p}
    /\ UNCHANGED vars

\* The answer lapses when setup writes another config or the process goes.
ReloadNext ==
    \/ \E p \in Procs : ReloadIdle(p)
    \/ /\ Next
       /\ promised' = IF diskPort' # diskPort THEN {}
                      ELSE {p \in promised : proc'[p] # "exited"}

ReloadSpec == ReloadInit /\ [][ReloadNext]_reloadVars

(* lazy-bridge.ts:98: "browsight is idle; the next tool call picks up the    *)
(* current config".  A bind made under that answer is on the disk's port.    *)
NextCallUsesCurrentConfig ==
    [][\A p \in promised :
        current[p] = NoPort /\ current'[p] # NoPort => current'[p] = diskPort]_reloadVars
=============================================================================
