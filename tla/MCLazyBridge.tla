---------------------------- MODULE MCLazyBridge ----------------------------
(***************************************************************************)
(* Instances of LazyBridge for TLC.                                        *)
(***************************************************************************)
EXTENDS LazyBridge, TLC

CONSTANTS p1, p2, c1, c2, c3, portA, portB

\* One client with two calls open at once, and a rival with one.
MCProcs == {p1, p2}
MCClient == c1 :> p1 @@ c2 :> p1 @@ c3 :> p2

\* A single server, alone with its port.
MCClientAlone == c1 :> p1 @@ c2 :> p1
=============================================================================
