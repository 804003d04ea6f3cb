--------------------------- MODULE MCTabRequests ---------------------------
(* Constants of the run `requests`: two URLs of a site, one of another, and one of a required site. *)
EXTENDS TabRequests, TLC

CONSTANTS t1, t2

MCUrls == {"a", "a2", "b", "local"}
MCOrigin == [u \in MCUrls |-> IF u = "a2" THEN "a" ELSE u]
MCHome == t1 :> "a" @@ t2 :> "b"
MCAllowed == {[o \in Origins |-> IF o = "a" THEN "full" ELSE "none"]}
MCTargets == {"b"}
MCPicks == {t2}
MCRoams == {"a2", "b", "local"}
MCVaries == {"a", "b"}
Either == Permutations(Requests)
=============================================================================
