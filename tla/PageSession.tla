---------------------------- MODULE PageSession ----------------------------
(***************************************************************************)
(* The content script of one page: reads number the page's controls, acts  *)
(* find the control a number stands for again, while the page changes      *)
(* under them (content.ts, acting/act.ts, acting/resolve.ts,               *)
(* perception/identity.ts).  A control of the page is shown by a node;     *)
(* a re-render gives it a new one, a recycled node shows another control.  *)
(* A step is what runs between two awaits of the script.                   *)
(***************************************************************************)
EXTENDS Snapshot

CONSTANTS Acts,         \* acts that may be under way at the same time
          Fillable,     \* the controls that can be filled
          Reads,        \* the reads that are made: mode, offset, name searched for
          Starts,       \* the pages a session may start with
          MaxChanges    \* bound on the changes of the page

ASSUME PageAssumption == Fillable \subseteq Elements /\ Starts \subseteq SUBSET Elements
                         /\ Reads \subseteq [mode : {"full", "main"}, offset : Nat, query : STRING]
                         /\ MaxChanges \in Nat

VARIABLES
    on,         \* the elements on the page
    num,        \* the number of each element's node, 0 for none
    next,       \* the next number
    basis,      \* the last complete snapshot
    act,        \* the acts under way
    meant,      \* what each number was last shown as (history)
    steady,     \* the page has only been rendered again since the basis (history)
    changes     \* how often the page changed

vars == <<on, num, next, basis, act, meant, steady, changes>>

Numbers == 1..((MaxChanges + 1) * Len(Order))
Modes == {"full", "main"}

\* The fingerprint of a control: makeRecipe.
RecipeOf(ref) == [name |-> Look[ref[1]].name, detail |-> Look[ref[1]].detail, ordinal |-> ref[2]]
Recipes == [name : {Look[e].name : e \in Elements}, detail : {Look[e].detail : e \in Elements},
            ordinal : 0..Len(Order)]

Bases == [taken : BOOLEAN, mode : Modes, refs : SUBSET (Numbers \X Recipes)]
NoBasis == [taken |-> FALSE, mode |-> "full", refs |-> {}]
Idle == [at |-> "idle", todo |-> <<>>, id |-> 0, hit |-> None, before |-> NoBasis]

TypeOK ==
    /\ on \subseteq Elements
    /\ num \in [Elements -> Numbers \union {0}]
    /\ next \in 1..((changes + 1) * Len(Order) + 1)
    /\ basis \in Bases
    /\ act \in [Acts -> [at : {"idle", "filling", "settling"}, todo : Seq(Numbers),
                         id : Numbers \union {0}, hit : Elements \union {None}, before : Bases]]
    /\ meant \in [Numbers -> Elements \union {None}]
    /\ steady \in BOOLEAN
    /\ changes \in 0..MaxChanges

\* A batch fill is one turn of the script: only the page's own handlers run in between.
Free == \A a \in Acts : act[a].at # "filling"

-----------------------------------------------------------------------------
(* Snapshots: numbering, and what is remembered *)

\* The place of e among the elements es.
Place(es, e) == Cardinality({d \in es : Before(d, e)})

NumberedByPlace(es) == [e \in Elements |-> IF e \in es THEN 1 + Place(es, e) ELSE num[e]]

\* idFor: a node keeps the number it has.
AllNew(es) == es
New(es) == {e \in es : num[e] = 0}
Numbered(es) == [e \in Elements |-> IF e \in New(es) THEN next + Place(New(es), e) ELSE num[e]]

\* A snapshot numbers what it walks and shows the references it keeps.
Take(w) ==
    /\ num' = Numbered(w.walked)
    /\ next' = next + Cardinality(New(w.walked))

Shows(w) ==
    LET shown == {ref[1] : ref \in w.refs}
    IN  meant' = [n \in Numbers |-> IF \E e \in shown : num'[e] = n
                                    THEN CHOOSE e \in shown : num'[e] = n ELSE meant[n]]

\* What is remembered of a snapshot.
BasisOf(w, mode) == [taken |-> TRUE, mode |-> mode,
                     refs |-> {<<num'[ref[1]], RecipeOf(ref)>> : ref \in w.refs}]

\* rememberSnapshot
Remember(w, mode) == basis' = BasisOf(w, mode) /\ steady' = TRUE

\* A snapshot that is remembered and answered.
Refresh(mode) ==
    LET w == Window(on, mode, 0, "")
    IN  Take(w) /\ Shows(w) /\ Remember(w, mode)

\* handleContentMessage: only a read of the whole page from its start becomes the basis.
Read(mode, offset, query) ==
    LET w == Window(on, mode, offset, query)
    IN  /\ Free
        /\ Take(w) /\ Shows(w)
        /\ IF offset = 0 /\ query = "" THEN Remember(w, mode) ELSE UNCHANGED <<basis, steady>>
        /\ UNCHANGED <<on, act, changes>>

-----------------------------------------------------------------------------
(* resolveRef *)

HasRecipe(n) == \E ref \in basis.refs : ref[1] = n
Recipe(n) == (CHOOSE ref \in basis.refs : ref[1] = n)[2]

\* elementForId, and isConnected.
Stored(n) == {e \in on : num[e] = n}

AnyStoredMatches(e, recipe) == TRUE

\* The details a recipe has are compared, and only those.
Agrees(e, recipe) == recipe.detail \in {"", Look[e].detail}

\* storedElementMatches: the name is compared only when an attribute gives it.
StoredMatches(e, recipe) ==
    Agrees(e, recipe) /\ (Look[e].direct => Look[e].name = recipe.name)

\* The controls of the recipe's name, wherever they are on the page.
Candidates(recipe) == {e \in on : IsControl(e) /\ Look[e].name = recipe.name}

\* allInteractive has those of shadow roots and frames behind the others.
Ahead(d, e) == IF Look[d].inner = Look[e].inner THEN Before(d, e) ELSE Look[e].inner

\* narrow
Narrow(candidates, recipe) ==
    LET alike == {e \in candidates : Agrees(e, recipe)}
        pool == IF alike # {} THEN alike ELSE candidates
        atOrdinal == {e \in pool : Cardinality({d \in pool : Ahead(d, e)}) = recipe.ordinal}
    IN  IF Cardinality(alike) = 1 THEN alike
        ELSE IF atOrdinal # {} THEN atOrdinal ELSE pool

Resolve(n) ==
    LET stored == {e \in Stored(n) : HasRecipe(n) => StoredMatches(e, Recipe(n))}
        found == Candidates(Recipe(n))
        left == IF Cardinality(found) > 1 THEN Narrow(found, Recipe(n)) ELSE found
    IN  IF stored # {} THEN CHOOSE e \in stored : TRUE
        ELSE IF ~HasRecipe(n) \/ Cardinality(left) # 1 THEN None
        ELSE CHOOSE e \in left : TRUE

-----------------------------------------------------------------------------
(* Acting *)

\* basisSnapshot: without one the page is read, and numbered, but not remembered.
Begin(a, entry) ==
    LET w == Window(on, "full", 0, "")
    IN  IF basis.taken
        THEN /\ UNCHANGED <<num, next>>
             /\ act' = [act EXCEPT ![a] = [entry EXCEPT !.before = basis]]
        ELSE /\ Take(w)
             /\ act' = [act EXCEPT ![a] = [entry EXCEPT !.before = BasisOf(w, "full")]]

\* performAct on a reference that is found: the act waits for the page to settle.
Act(a, n) ==
    /\ Free /\ act[a].at = "idle" /\ meant[n] # None
    /\ Resolve(n) # None
    /\ Begin(a, [Idle EXCEPT !.at = "settling", !.id = n, !.hit = Resolve(n)])
    /\ UNCHANGED <<on, basis, meant, steady, changes>>

\* One that is not found: the page is read again, whole, whatever the mode was.
ActFails(a, n) ==
    /\ Free /\ act[a].at = "idle" /\ meant[n] # None
    /\ Resolve(n) = None
    /\ Refresh("full")
    /\ UNCHANGED <<on, act, changes>>

\* A control that cannot be filled: the basis is answered as it is, or taken now.
FillFails(a, n) ==
    /\ Free /\ act[a].at = "idle" /\ meant[n] # None
    /\ Resolve(n) \notin Fillable \union {None}
    /\ ~basis.taken
    /\ Refresh("full")
    /\ UNCHANGED <<on, act, changes>>

\* A viewport scroll, or loadMore paging down: no control is looked for.
Scroll(a) ==
    /\ Free /\ act[a].at = "idle"
    /\ Begin(a, [Idle EXCEPT !.at = "settling"])
    /\ UNCHANGED <<on, basis, meant, steady, changes>>

\* performBatchFill
StartBatch(a, m, n) ==
    /\ Free /\ act[a].at = "idle" /\ meant[m] # None /\ meant[n] # None
    /\ Begin(a, [Idle EXCEPT !.at = "filling", !.todo = <<m, n>>])
    /\ UNCHANGED <<on, basis, meant, steady, changes>>

\* A field that is not found or cannot be filled does not keep the rest from being filled.
FillNext(a) ==
    LET n == Head(act[a].todo)
        e == Resolve(n)
    IN  /\ act[a].at = "filling" /\ act[a].todo # <<>>
        /\ act' = [act EXCEPT ![a].todo = Tail(@), ![a].id = n,
                              ![a].hit = IF e \in Fillable THEN e ELSE None]
        /\ basis' = IF e \in Fillable \union {None} THEN basis ELSE act[a].before
        /\ steady' = (steady /\ basis' = basis)
        /\ UNCHANGED <<on, num, next, meant, changes>>

FillEnds(a) ==
    /\ act[a].at = "filling" /\ act[a].todo = <<>>
    /\ act' = [act EXCEPT ![a].at = "settling"]
    /\ UNCHANGED <<on, num, next, basis, meant, steady, changes>>

\* settleAndReport: the page is read in the mode of the basis the act began with.
Settle(a) ==
    /\ Free /\ act[a].at = "settling"
    /\ Refresh(act[a].before.mode)
    /\ act' = [act EXCEPT ![a] = Idle]
    /\ UNCHANGED <<on, changes>>

-----------------------------------------------------------------------------
(* The page *)

Changes(same) ==
    /\ changes < MaxChanges /\ changes' = changes + 1
    /\ steady' = (steady /\ same)

\* Every element gets a new node.
Rerender ==
    /\ Changes(TRUE)
    /\ num' = [e \in Elements |-> IF e \in on THEN 0 ELSE num[e]]
    /\ UNCHANGED <<on, next, basis, act, meant>>

\* The node of d shows e from now on: a virtualised list.
Recycle(d, e) ==
    /\ Changes(FALSE)
    /\ d \in on /\ e \notin on /\ IsControl(d) /\ IsControl(e) /\ num[d] # 0
    /\ on' = (on \ {d}) \union {e}
    /\ num' = [num EXCEPT ![e] = num[d], ![d] = 0]
    /\ UNCHANGED <<next, basis, act, meant>>

Detach(e) ==
    /\ Changes(FALSE)
    /\ e \in on /\ on' = on \ {e}
    /\ UNCHANGED <<num, next, basis, act, meant>>

Attach(e) ==
    /\ Changes(FALSE)
    /\ e \notin on /\ on' = on \union {e}
    /\ UNCHANGED <<num, next, basis, act, meant>>

\* Another document: its script starts from nothing, and nobody answers the acts.
Reload ==
    /\ Changes(FALSE)
    /\ num' = [e \in Elements |-> 0] /\ next' = 1
    /\ basis' = NoBasis
    /\ act' = [a \in Acts |-> Idle]
    /\ meant' = [n \in Numbers |-> None]
    /\ UNCHANGED on

-----------------------------------------------------------------------------
Init ==
    /\ on \in Starts
    /\ num = [e \in Elements |-> 0] /\ next = 1
    /\ basis = NoBasis
    /\ act = [a \in Acts |-> Idle]
    /\ meant = [n \in Numbers |-> None]
    /\ steady = FALSE /\ changes = 0

Shown == {n \in Numbers : meant[n] # None}

Script(a) ==
    \/ \E n \in Shown : Act(a, n) \/ ActFails(a, n) \/ FillFails(a, n)
    \/ \E m \in Shown : \E n \in Shown \ {m} : StartBatch(a, m, n)
    \/ Scroll(a) \/ FillNext(a) \/ FillEnds(a) \/ Settle(a)

Next ==
    \/ \E r \in Reads : Read(r.mode, r.offset, r.query)
    \/ \E a \in Acts : Script(a)
    \/ Rerender \/ Reload
    \/ \E e \in Elements : Attach(e) \/ Detach(e)
    \/ \E d, e \in Elements : Recycle(d, e)

Spec == Init /\ [][Next]_vars

-----------------------------------------------------------------------------
(* Properties *)

\* An act has just found the control its reference stands for.
Found(a) ==
    /\ act'[a].hit # None
    /\ act[a].at = "idle" \/ (act[a].at = "filling" /\ act'[a].todo # act[a].todo)

\* A control acted on has the role and name its number was last shown with.  The exceptions are
\* the code's own: a recycled node whose number is not in the basis (resolve.ts:175), one whose
\* name no attribute gives (resolve.ts:130), and a number that only a partial read has shown as
\* another control (content.ts:38).
ActsOnTheNamedControl ==
    [][\A a \in Acts : Found(a) =>
         LET n == act'[a].id
             e == act'[a].hit
         IN  \/ Look[e].name = Look[meant[n]].name
             \/ e \in Stored(n) /\ (~HasRecipe(n) \/ ~Look[e].direct)
             \/ HasRecipe(n) /\ Recipe(n).name # Look[meant[n]].name]_vars

\* The controls that a number's recipe is matched with, those the basis did not count, as it did
\* not walk them or left them out with their heading, whether the recipe's details leave some of
\* them and more than one, and whether they stand in the order of the walk.
Group(n) == Candidates(Recipe(n))
Counted == Walked(on, basis.mode) \ Window(on, basis.mode, 0, "").dropped
Uncounted(n) == Group(n) \ Counted
Mixed(n) == LET alike == {e \in Group(n) : Agrees(e, Recipe(n))}
            IN  alike # Group(n) /\ Cardinality(alike) > 1
InOrder(n) == \A d, e \in Group(n) : Ahead(d, e) <=> Before(d, e)

\* Re-rendering alone never makes a reference stand for another control, as long as the recipe's
\* ordinal counts the controls that resolving counts, in the same order (snapshot.ts:214,
\* resolve.ts:91, resolve.ts:141).
RerenderKeepsTheControl ==
    [][\A a \in Acts :
         LET n == act'[a].id
         IN  Found(a) /\ steady /\ HasRecipe(n)
             /\ Uncounted(n) = {} /\ ~Mixed(n) /\ InOrder(n)
               => act'[a].hit = meant[n]]_vars

\* The same where the details tell some of the controls apart, but not all (resolve.ts:4-6: a
\* drifted target is found again or reported, not guessed).
RerenderKeepsEveryControl ==
    [][\A a \in Acts :
         LET n == act'[a].id
         IN  Found(a) /\ steady /\ HasRecipe(n) /\ Uncounted(n) = {} /\ InOrder(n)
               => act'[a].hit = meant[n]]_vars

\* Within one page load a number comes to mean another control only when its node does
\* (identity.ts:9, "keeps it, whatever a later read asks for").
NumbersKeepTheirNode ==
    [][\A n \in Numbers :
         meant[n] # None /\ meant'[n] \notin {None, meant[n]} => num[meant'[n]] = n]_vars

\* Of every page: reading on from the offset each window names ends, unless a line is as long as
\* a window (snapshot.ts:184).
OfEveryPage(P(_, _)) == changes = 0 /\ next = 1 => \A page \in SUBSET Elements, mode \in Modes : P(page, mode)

PagingEnds == OfEveryPage(LAMBDA page, mode :
    Fits(page, mode) => ~Windows(page, mode)[Last].window.truncated)

\* It shows every line, so that a read goes on where the last one stopped (snapshot.ts:167-169);
\* but for a text squeezed out together with the line behind it (snapshot.ts:186), and what lies
\* behind a heading that its window left out (snapshot.ts:265).
PagingShowsEveryLine == OfEveryPage(LAMBDA page, mode :
    LET ws == Windows(page, mode)
        spans == Spans(page, mode)
    IN  ~ws[Last].window.truncated =>
            {s.line : s \in spans} \subseteq LinesOf(ws) \union Squeezed(ws, spans) \union Astray(ws, spans))

\* It shows no line again in a later window, but for one kept ahead of the text before it
\* (snapshot.ts:208), or behind a heading that the earlier window left out (snapshot.ts:265).
PagingRepeatsNoLine == OfEveryPage(LAMBDA page, mode :
    LET ws == Windows(page, mode)
    IN  \A i, j \in DOMAIN ws : i < j /\ ws[i].offset # ws[j].offset =>
            ws[i].window.lines \intersect ws[j].window.lines
              \subseteq Jumped(ws, Spans(page, mode)) \union OutOfStep(ws[i].window))
=============================================================================
