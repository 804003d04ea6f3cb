------------------------- MODULE MCWorkerConnection -------------------------
(***************************************************************************)
(* Two attempts: one under way, or connected, while another one runs.      *)
(***************************************************************************)
EXTENDS WorkerConnection

CONSTANTS a1, a2

MCAttempts == {a1, a2}
=============================================================================
