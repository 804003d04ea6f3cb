---------------------------- MODULE MCSiteGrants ----------------------------
(* Constants of the run `grants`. *)
EXTENDS SiteGrants

MCChoices == {[tier |-> "full", timed |-> FALSE], [tier |-> "read", timed |-> TRUE]}
MCInherited == {{}, Origins}
=============================================================================
