------------------------------ MODULE Errands ------------------------------
(***************************************************************************)
(* What the agent may count on when it sends requests to the browser: of   *)
(* each, the page, or Chrome, is asked for its effect at most once, and    *)
(* only before the answer; the effect happens at most once, perhaps after  *)
(* an answer that could not wait for it; and there is one answer, if any.  *)
(* The handlers of TabRequests implement it.  Requests go on side by side. *)
(***************************************************************************)
CONSTANT Requests

VARIABLES
    answer,     \* what each was told; "lost" when nobody will tell it
    effect      \* what each asked for: nothing yet, to happen, done, or come to nothing

vars == <<answer, effect>>

Answers == {"none", "page", "result", "navigated", "unreachable", "refused", "ambiguous", "lost"}
Effects == {"none", "asked", "done", "void"}

Init ==
    /\ answer = [r \in Requests |-> "none"]
    /\ effect = [r \in Requests |-> "none"]

Unanswered(r) == answer[r] = "none"
Tells(r, as) == Unanswered(r) /\ answer'[r] \in as
TellsNothing(r) == answer'[r] = answer[r]
Becomes(r, e, f) == effect[r] = e /\ effect'[r] = f

Ask(r) == Unanswered(r) /\ Becomes(r, "none", "asked") /\ TellsNothing(r)

Happen(r) == Becomes(r, "asked", "done") /\ TellsNothing(r)

\* It turns out that it cannot happen, and is not asked for again; if the agent still waits it
\* may be told.
Void(r) ==
    /\ Becomes(r, "asked", "void")
    /\ TellsNothing(r) \/ Tells(r, {"unreachable"})

\* A result is of something done, and a page or a question of something only
\* looked at.  The other answers leave open what becomes of the effect.
Tell(r) ==
    \/ Becomes(r, "done", "done") /\ Tells(r, {"result"})
    \/ Becomes(r, "none", "none") /\ Tells(r, {"page", "ambiguous"})
    \/ effect'[r] = effect[r] /\ Tells(r, {"navigated", "unreachable", "refused", "lost"})

Rest(r) == effect'[r] = effect[r] /\ TellsNothing(r)

Next ==
    /\ answer' \in [Requests -> Answers] /\ effect' \in [Requests -> Effects]
    /\ \A r \in Requests : Rest(r) \/ Ask(r) \/ Happen(r) \/ Void(r) \/ Tell(r)

Spec == Init /\ [][Next]_vars
=============================================================================
