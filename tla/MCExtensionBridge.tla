-------------------------- MODULE MCExtensionBridge --------------------------
(***************************************************************************)
(* Instances of ExtensionBridge for TLC.                                   *)
(***************************************************************************)
EXTENDS ExtensionBridge, TLC

CONSTANTS c1, c2, s1, s2, s3

MCCalls == {c1, c2}
MCStreams == {s1, s2, s3}
MCStreamsLive == {s1, s2}

\* Calls and streams are interchangeable: no action tells one from another.
MCSymmetry == Permutations(MCCalls) \cup Permutations(MCStreams)
=============================================================================
