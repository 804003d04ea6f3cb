------------------------- MODULE MCLazyBridgeReload -------------------------
(***************************************************************************)
(* An instance of LazyBridgeReload for TLC: one server, one call.          *)
(***************************************************************************)
EXTENDS LazyBridgeReload

CONSTANTS p1, c1, portA, portB

MCProcs == {p1}
MCClient == [c \in {c1} |-> p1]
=============================================================================
