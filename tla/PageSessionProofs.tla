------------------------- MODULE PageSessionProofs -------------------------
(***************************************************************************)
(* Theorems about PageSession, for any page, window, reads, acts and       *)
(* number of changes: the types, that numbers keep their node, that acts   *)
(* find the control that was named, also after a re-render, and what       *)
(* paging shows.                                                           *)
(***************************************************************************)
EXTENDS PageSession, SnapshotProofs

Unnumbered(m) == {e \in Elements : m[e] = 0}

\* The numbers m have been given out below nx and to one node each; those given out and those
\* still to be given out are within the bound of c changes.
Numbering(m, nx, c) ==
    /\ \A e \in Elements : m[e] < nx
    /\ \A d, e \in Elements : m[d] = m[e] => d = e \/ m[d] = 0
    /\ nx + Cardinality(Unnumbered(m)) <= (c + 1) * Len(Order) + 1

\* A number was shown only after it had been given out.
Issued(mt, nx) == \A n \in Numbers : mt[n] # None => n < nx

\* The basis is what a snapshot of this page has: its references were shown as what they are,
\* and no other control has their number.
RefStands(ref, mode, page, m, nx, mt) ==
    /\ ref[1] < nx
    /\ \E r \in Window(page, mode, 0, "").refs : r[1] = mt[ref[1]] /\ ref[2] = RecipeOf(r)
    /\ \A e \in Elements : m[e] = ref[1] => e = mt[ref[1]]

BasisStands(b, page, m, nx, mt) == \A ref \in b.refs : RefStands(ref, b.mode, page, m, nx, mt)

\* Nothing has been found by an act that is not under way.
IdleFoundNothing(ac) == \A a \in Acts : ac[a].at = "idle" => ac[a].hit = None

IInv ==
    /\ TypeOK
    /\ Numbering(num, next, changes)
    /\ Issued(meant, next)
    /\ steady => BasisStands(basis, on, num, next, meant)
    /\ IdleFoundNothing(act)

-----------------------------------------------------------------------------
(* Numbers *)

Bound == (MaxChanges + 1) * Len(Order)

LEMMA Products ==
    ASSUME NEW c \in 0..MaxChanges
    PROVE  /\ Bound \in Nat /\ (c + 1) * Len(Order) \in Nat
           /\ (c + 1) * Len(Order) <= Bound
           /\ (c + 1 + 1) * Len(Order) = (c + 1) * Len(Order) + Len(Order)
<1>1. Len(Order) \in Nat /\ MaxChanges \in Nat
  BY OrderFacts, PageAssumption
<1>2. PICK k \in Nat : k = MaxChanges - c
  BY <1>1
<1>3. Bound = (c + 1) * Len(Order) + k * Len(Order)
  BY <1>1, <1>2 DEF Bound
<1>4. k * Len(Order) \in Nat /\ (c + 1) * Len(Order) \in Nat
  BY <1>1, <1>2
<1> QED
  BY <1>1, <1>3, <1>4

NumberFacts == /\ Numbers = 1..Bound
               /\ Bound \in Nat
               /\ num \in [Elements -> Nat] /\ next \in Nat /\ next >= 1
               /\ changes \in 0..MaxChanges /\ changes \in Nat

LEMMA NumbersArePositive == 0 \notin Numbers /\ Numbers \subseteq Nat
<1>1. (MaxChanges + 1) * Len(Order) \in Nat
  BY Products, PageAssumption DEF Bound
<1> QED
  BY <1>1 DEF Numbers

LEMMA Typed == ASSUME TypeOK PROVE NumberFacts
<1>1. Numbers = 1..Bound
  BY DEF Numbers, Bound
<1>2. Bound \in Nat /\ changes \in Nat
  BY Products, PageAssumption DEF TypeOK
<1>3. next \in Nat /\ next >= 1
  <2>1. (changes + 1) * Len(Order) \in Nat
    BY Products DEF TypeOK
  <2> QED
    BY <2>1 DEF TypeOK
<1>4. num \in [Elements -> (1..Bound) \union {0}]
  BY <1>1 DEF TypeOK
<1> QED
  BY <1>1, <1>2, <1>3, <1>4 DEF TypeOK, NumberFacts

\* Numbers given out within the bound of the changes made so far fit the type.
LEMMA NumbersFit ==
    ASSUME NEW m \in [Elements -> Nat], NEW nx \in Nat, nx >= 1, NEW c \in 0..MaxChanges,
           Numbering(m, nx, c)
    PROVE  /\ nx \in 1..((c + 1) * Len(Order) + 1)
           /\ m \in [Elements -> Numbers \union {0}]
<1>1. Cardinality(Unnumbered(m)) \in Nat
  BY Counting DEF Unnumbered
<1>2. PICK most : most = (c + 1) * Len(Order)
  OBVIOUS
<1>3. most \in Nat /\ Bound \in Nat /\ most <= Bound
  BY <1>2, Products
<1>4. nx <= most + 1
  BY <1>1, <1>2, <1>3 DEF Numbering
<1>5. nx \in 1..(most + 1)
  BY <1>3, <1>4
<1>6. \A e \in Elements : m[e] \in (1..Bound) \union {0}
  BY <1>3, <1>4 DEF Numbering
<1> QED
  BY <1>2, <1>5, <1>6 DEF Numbers, Bound

\* idFor, over a walk: numbered nodes keep their number, the others that it walked get new ones.
Renumbered(es) ==
    /\ num' \in [Elements -> Nat] /\ next' \in Nat /\ next' >= next
    /\ \A e \in Elements : num[e] # 0 => num'[e] = num[e]
    /\ \A e \in Elements : num[e] = 0 /\ e \notin es => num'[e] = 0
    /\ \A e \in es : num[e] = 0 => num'[e] >= next
    /\ \A e \in es : num'[e] # 0

LEMMA TakeNumbers ==
    ASSUME TypeOK, Numbering(num, next, changes), NEW w, w.walked \subseteq Elements, Take(w)
    PROVE  Renumbered(w.walked) /\ Numbering(num', next', changes)
<1> DEFINE es == w.walked
<1> DEFINE fresh == New(es)
<1>1. NumberFacts
  BY Typed
<1>2. fresh \subseteq Elements /\ \A e \in Elements : e \in fresh <=> e \in es /\ num[e] = 0
  BY DEF New
<1>3. \A e \in fresh : Place(fresh, e) \in Nat /\ Place(fresh, e) < Cardinality(fresh)
  <2>1. ASSUME NEW e \in fresh
        PROVE  Place(fresh, e) \in Nat /\ Place(fresh, e) < Cardinality(fresh)
    <3>1. {d \in fresh : Before(d, e)} \in SUBSET fresh /\ {d \in fresh : Before(d, e)} # fresh
      BY <1>2, BeforeIsAnOrder
    <3> HIDE DEF fresh
    <3> QED
      BY <1>2, <3>1, Counting DEF Place
  <2> QED
    BY <2>1
<1>4. \A d, e \in fresh : Place(fresh, d) = Place(fresh, e) => d = e
  <2> HIDE DEF fresh
  <2> QED
    BY <1>2, PlacesDiffer DEF Place
<1>5. /\ num' = [e \in Elements |-> IF e \in fresh THEN next + Place(fresh, e) ELSE num[e]]
      /\ next' = next + Cardinality(fresh)
  BY DEF Take, Numbered
<1>6. Cardinality(fresh) \in Nat
  BY <1>2, Counting
<1> HIDE DEF fresh
<1>7. \A e \in Elements : num'[e] = IF e \in fresh THEN next + Place(fresh, e) ELSE num[e]
  BY <1>5
<1>8. num' \in [Elements -> Nat] /\ next' \in Nat /\ next' >= next
  BY <1>1, <1>3, <1>5, <1>6 DEF NumberFacts
<1>9. Renumbered(es)
  BY <1>1, <1>2, <1>3, <1>7, <1>8 DEF Renumbered, NumberFacts
<1>10. \A e \in Elements : num'[e] < next'
  BY <1>1, <1>3, <1>5, <1>6, <1>7 DEF Numbering, NumberFacts
<1>11. ASSUME NEW d \in Elements, NEW e \in Elements, num'[d] = num'[e], d # e
       PROVE  num'[d] = 0
  <2>1. CASE d \in fresh /\ e \in fresh
    BY <1>1, <1>3, <1>4, <1>7, <1>11, <2>1 DEF NumberFacts
  <2>2. CASE d \in fresh /\ e \notin fresh
    BY <1>1, <1>3, <1>7, <1>11, <2>2 DEF NumberFacts, Numbering
  <2>3. CASE d \notin fresh /\ e \in fresh
    BY <1>1, <1>3, <1>7, <1>11, <2>3 DEF NumberFacts, Numbering
  <2>4. CASE d \notin fresh /\ e \notin fresh
    BY <1>7, <1>11, <2>4 DEF Numbering
  <2> QED
    BY <2>1, <2>2, <2>3, <2>4
<1>12. next' + Cardinality(Unnumbered(num')) = next + Cardinality(Unnumbered(num))
  <2>1. Unnumbered(num') = Unnumbered(num) \ fresh /\ fresh = Unnumbered(num) \intersect fresh
    BY <1>1, <1>2, <1>3, <1>7 DEF Unnumbered, NumberFacts
  <2>2. IsFiniteSet(Unnumbered(num)) /\ Cardinality(Unnumbered(num)) \in Nat
    BY Counting DEF Unnumbered
  <2>3. IsFiniteSet(fresh)
    BY <1>2, Counting
  <2>4. Cardinality(Unnumbered(num) \ fresh) = Cardinality(Unnumbered(num)) - Cardinality(fresh)
    BY <2>1, <2>2, <2>3, FS_Difference
  <2>5. Cardinality(Unnumbered(num')) = Cardinality(Unnumbered(num)) - Cardinality(fresh)
    BY <2>1, <2>4
  <2>6. next' = next + Cardinality(fresh) /\ next \in Nat
    BY <1>1, <1>5 DEF NumberFacts
  <2> QED
    BY <1>6, <2>2, <2>5, <2>6
<1> QED
  BY <1>9, <1>10, <1>11, <1>12 DEF Numbering

\* A change of the page adds at most one node to each element.
LEMMA ChangedNumbers ==
    ASSUME NEW m \in [Elements -> Nat], NEW nx \in Nat, NEW c \in 0..MaxChanges, Numbering(m, nx, c),
           NEW k \in [Elements -> Nat], \A e \in Elements : k[e] < nx,
           \A d, e \in Elements : k[d] = k[e] => d = e \/ k[d] = 0
    PROVE  Numbering(k, nx, c + 1)
<1>1. /\ Cardinality(Unnumbered(m)) \in Nat
      /\ Cardinality(Unnumbered(k)) \in Nat /\ Cardinality(Unnumbered(k)) <= Len(Order)
  BY Counting DEF Unnumbered
<1>2. nx + Cardinality(Unnumbered(k)) <= (c + 1 + 1) * Len(Order) + 1
  BY <1>1, Products, OrderFacts DEF Numbering
<1> QED
  BY <1>2 DEF Numbering

-----------------------------------------------------------------------------
(* Snapshots *)

\* What numbering a window does: it fits the types, and each reference has a number and a recipe.
Taken(w, mode) ==
    /\ Renumbered(w.walked)
    /\ Numbering(num', next', changes)
    /\ num' \in [Elements -> Numbers \union {0}]
    /\ next' \in 1..((changes + 1) * Len(Order) + 1)
    /\ w.walked \subseteq Elements
    /\ \A ref \in w.refs : ref[1] \in w.walked /\ num'[ref[1]] \in Numbers /\ RecipeOf(ref) \in Recipes
    /\ BasisOf(w, mode) \in Bases

LEMMA TakeFacts ==
    ASSUME TypeOK, Numbering(num, next, changes), NEW mode \in Modes, NEW any \in Modes,
           NEW offset \in Nat, NEW query, NEW w, w = Window(on, any, offset, query), Take(w)
    PROVE  Taken(w, mode)
<1>1. w \in Windowed /\ RefsCount(w, on, any)
  BY WindowRefs DEF TypeOK
<1>2. w.walked \subseteq Elements
  BY <1>1 DEF Windowed
<1>3. Renumbered(w.walked) /\ Numbering(num', next', changes)
  BY <1>2, TakeNumbers
<1>4. /\ next' \in 1..((changes + 1) * Len(Order) + 1)
      /\ num' \in [Elements -> Numbers \union {0}]
  <2>1. num' \in [Elements -> Nat] /\ next' \in Nat /\ next' >= 1
    BY <1>3, Typed DEF Renumbered, NumberFacts
  <2> QED
    BY <1>3, <2>1, Typed, NumbersFit DEF NumberFacts
<1>5. ASSUME NEW ref \in w.refs
      PROVE  /\ ref[1] \in w.walked /\ num'[ref[1]] \in Numbers
             /\ RecipeOf(ref) \in Recipes
  <2>1. ref[1] \in w.walked /\ ref[1] \in Elements
    BY <1>1, <1>2 DEF RefsCount
  <2>2. num'[ref[1]] \in Numbers
    BY <1>3, <1>4, <2>1 DEF Renumbered
  <2>3. ref[2] \in 0..Len(Order)
    <3>1. {d \in CountedLike(w, on, any, ref[1]) : Before(d, ref[1])} \subseteq Elements
      BY DEF CountedLike, NamedLike, Controls, Walked, TypeOK
    <3>2. /\ Cardinality({d \in CountedLike(w, on, any, ref[1]) : Before(d, ref[1])}) \in Nat
          /\ Cardinality({d \in CountedLike(w, on, any, ref[1]) : Before(d, ref[1])}) <= Len(Order)
      BY <3>1, Counting
    <3> QED
      BY <1>1, <3>2, OrderFacts DEF RefsCount
  <2>4. RecipeOf(ref) \in Recipes
    BY <2>1, <2>3 DEF RecipeOf, Recipes
  <2> QED
    BY <2>1, <2>2, <2>4
<1>6. {<<num'[ref[1]], RecipeOf(ref)>> : ref \in w.refs} \in SUBSET (Numbers \X Recipes)
  BY <1>5
<1>7. BasisOf(w, mode) \in Bases
  BY <1>6 DEF BasisOf, Bases
<1> QED
  BY <1>2, <1>3, <1>4, <1>5, <1>7 DEF Taken

\* What showing a window does: a number comes to mean the element whose node has it.
Showed(w) ==
    /\ meant' \in [Numbers -> Elements \union {None}]
    /\ \A n \in Numbers : meant'[n] = meant[n] \/ (meant'[n] \in Elements /\ num'[meant'[n]] = n)
    /\ \A ref \in w.refs : meant'[num'[ref[1]]] = ref[1]
    /\ Issued(meant', next')

LEMMA ShowsFacts ==
    ASSUME TypeOK, Issued(meant, next), NEW w, NEW mode, Taken(w, mode), Shows(w)
    PROVE  Showed(w)
<1> DEFINE shown == {ref[1] : ref \in w.refs}
<1>1. shown \subseteq Elements
  BY DEF Taken
<1>2. \A ref \in w.refs : ref[1] \in shown
  OBVIOUS
<1>3. meant' = [n \in Numbers |-> IF \E e \in shown : num'[e] = n
                                  THEN CHOOSE e \in shown : num'[e] = n ELSE meant[n]]
  BY DEF Shows
<1> HIDE DEF shown
<1>4. ASSUME NEW n \in Numbers
      PROVE  \/ meant'[n] = meant[n] /\ \A e \in shown : num'[e] # n
             \/ meant'[n] \in shown /\ num'[meant'[n]] = n
  <2>1. CASE \E e \in shown : num'[e] = n
    <3>1. meant'[n] = CHOOSE e \in shown : num'[e] = n
      BY <1>3, <2>1
    <3> QED
      BY <2>1, <3>1
  <2>2. CASE ~\E e \in shown : num'[e] = n
    BY <1>3, <2>2
  <2> QED
    BY <2>1, <2>2
<1>5. meant' \in [Numbers -> Elements \union {None}]
  <2>1. \A n \in Numbers : meant'[n] \in Elements \union {None}
    BY <1>1, <1>4 DEF TypeOK
  <2> QED
    BY <1>3, <2>1
<1>6. ASSUME NEW ref \in w.refs
      PROVE  meant'[num'[ref[1]]] = ref[1]
  <2>1. num'[ref[1]] \in Numbers /\ ref[1] \in shown /\ num'[ref[1]] # 0
    BY <1>2 DEF Taken, Numbers
  <2>2. meant'[num'[ref[1]]] \in shown /\ num'[meant'[num'[ref[1]]]] = num'[ref[1]]
    BY <1>4, <2>1
  <2> QED
    BY <1>1, <2>1, <2>2 DEF Taken, Numbering
<1>7. Issued(meant', next')
  <2>1. next' >= next /\ next' \in Nat /\ next \in Nat
    BY Typed DEF Taken, Renumbered, NumberFacts
  <2>2. ASSUME NEW n \in Numbers, meant'[n] # None
        PROVE  n < next'
    <3>1. CASE meant'[n] = meant[n]
      BY <2>1, <2>2, <3>1, Typed DEF Issued, NumberFacts
    <3>2. CASE meant'[n] \in shown /\ num'[meant'[n]] = n
      BY <1>1, <3>2 DEF Taken, Numbering
    <3> QED
      BY <1>4, <3>1, <3>2
  <2> QED
    BY <2>2 DEF Issued
<1> QED
  BY <1>1, <1>4, <1>5, <1>6, <1>7 DEF Showed

\* A basis that is remembered stands.
LEMMA RememberStands ==
    ASSUME TypeOK, Issued(meant, next), NEW mode \in Modes,
           NEW w, w = Window(on, mode, 0, ""), Taken(w, mode), Showed(w), basis' = BasisOf(w, mode)
    PROVE  basis' \in Bases /\ BasisStands(basis', on, num', next', meant')
<1>1. basis'.refs = {<<num'[ref[1]], RecipeOf(ref)>> : ref \in w.refs} /\ basis'.mode = mode
  BY DEF BasisOf
<1>2. ASSUME NEW ref \in basis'.refs
      PROVE  RefStands(ref, mode, on, num', next', meant')
  <2>1. PICK r \in w.refs : ref = <<num'[r[1]], RecipeOf(r)>>
    BY <1>1
  <2>2. ref[1] = num'[r[1]] /\ ref[2] = RecipeOf(r)
    BY <2>1
  <2>3. r[1] \in Elements /\ num'[r[1]] # 0
    <3>1. r[1] \in w.walked /\ num'[r[1]] \in Numbers /\ w.walked \subseteq Elements
      BY DEF Taken
    <3>2. 0 \notin Numbers
      BY NumbersArePositive
    <3> QED
      BY <3>1, <3>2
  <2>4. meant'[num'[r[1]]] = r[1]
    BY DEF Showed
  <2>5. \A e \in Elements : num'[e] = num'[r[1]] => e = r[1]
    BY <2>3 DEF Taken, Numbering
  <2>6. num'[r[1]] < next'
    BY <2>3 DEF Taken, Numbering
  <2> QED
    BY <2>2, <2>4, <2>5, <2>6 DEF RefStands
<1> QED
  BY <1>1, <1>2 DEF BasisStands, Taken

\* A basis goes on standing while the page is numbered and shown further.
LEMMA StandsOn ==
    ASSUME TypeOK, NEW w, NEW mode, Taken(w, mode), Showed(w) \/ meant' = meant,
           BasisStands(basis, on, num, next, meant)
    PROVE  BasisStands(basis, on, num', next', meant')
<1>1. ASSUME NEW ref \in basis.refs
      PROVE  RefStands(ref, basis.mode, on, num', next', meant')
  <2>1. RefStands(ref, basis.mode, on, num, next, meant)
    BY DEF BasisStands
  <2>2. ref[1] \in Numbers /\ ref[1] \in Nat /\ ref[1] # 0
    BY Typed DEF TypeOK, Bases, NumberFacts
  <2>3. next' >= next /\ next' \in Nat /\ next \in Nat
    BY Typed DEF Taken, Renumbered, NumberFacts
  <2>4. ref[1] < next'
    <3>1. ref[1] < next
      BY <2>1 DEF RefStands
    <3> QED
      BY <2>2, <2>3, <3>1
  <2>5. \A e \in Elements : num'[e] = ref[1] => e = meant[ref[1]]
    <3>1. ASSUME NEW e \in Elements, num'[e] = ref[1]
          PROVE  num[e] = ref[1]
      <4>1. ref[1] < next
        BY <2>1 DEF RefStands
      <4>2. num[e] \in Nat
        BY Typed DEF NumberFacts
      <4> QED
        BY <2>2, <2>3, <3>1, <4>1, <4>2 DEF Taken, Renumbered
    <3> QED
      BY <2>1, <3>1 DEF RefStands
  <2>6. meant'[ref[1]] = meant[ref[1]]
    BY <2>2, <2>5 DEF Showed
  <2> QED
    BY <2>1, <2>4, <2>5, <2>6 DEF RefStands
<1> QED
  BY <1>1 DEF BasisStands

-----------------------------------------------------------------------------
(* Resolving *)

StoredMatch(n) == {e \in Stored(n) : HasRecipe(n) => StoredMatches(e, Recipe(n))}
Found1(n) == Candidates(Recipe(n))
Left(n) == IF Cardinality(Found1(n)) > 1 THEN Narrow(Found1(n), Recipe(n)) ELSE Found1(n)

\* A reference is resolved to its stored element, or to the one element its recipe leaves.
Resolved(n, e) ==
    \/ e \in StoredMatch(n)
    \/ StoredMatch(n) = {} /\ HasRecipe(n) /\ Left(n) = {e}

LEMMA NarrowFacts ==
    ASSUME NEW candidates, NEW recipe
    PROVE  Narrow(candidates, recipe) \subseteq candidates
  BY DEF Narrow

LEMMA ResolveFacts ==
    ASSUME TypeOK, NEW n, Resolve(n) # None
    PROVE  /\ Resolved(n, Resolve(n))
           /\ Resolve(n) \in Elements
<1>1. Resolve(n) = IF StoredMatch(n) # {} THEN CHOOSE e \in StoredMatch(n) : TRUE
                   ELSE IF ~HasRecipe(n) \/ Cardinality(Left(n)) # 1 THEN None
                   ELSE CHOOSE e \in Left(n) : TRUE
  BY DEF Resolve, StoredMatch, Left, Found1
<1>2. StoredMatch(n) \subseteq Elements /\ Left(n) \subseteq Elements
  BY NarrowFacts DEF StoredMatch, Stored, Left, Found1, Candidates, TypeOK
<1>3. CASE StoredMatch(n) # {}
  BY <1>1, <1>2, <1>3 DEF Resolved
<1>4. CASE StoredMatch(n) = {}
  <2>1. HasRecipe(n) /\ Cardinality(Left(n)) = 1 /\ Resolve(n) = CHOOSE e \in Left(n) : TRUE
    BY <1>1, <1>4
  <2>2. IsFiniteSet(Left(n))
    BY <1>2, Counting
  <2>3. PICK e : Left(n) = {e}
    BY <2>1, <2>2, FS_Singleton
  <2>4. Resolve(n) = e
    BY <2>1, <2>3
  <2> QED
    BY <1>2, <1>4, <2>1, <2>3, <2>4 DEF Resolved
<1> QED
  BY <1>3, <1>4

-----------------------------------------------------------------------------
(* The steps *)

ActRecords == [at : {"idle", "filling", "settling"}, todo : Seq(Numbers), id : Numbers \union {0},
               hit : Elements \union {None}, before : Bases]

ActsTyped(ac) == ac \in [Acts -> ActRecords]

LEMMA IdleTyped == Idle \in ActRecords /\ NoBasis \in Bases /\ Idle.at = "idle" /\ Idle.hit = None
<1>1. NoBasis \in Bases
  BY DEF NoBasis, Bases, Modes
<1>2. <<>> \in Seq(Numbers)
  OBVIOUS
<1> QED
  BY <1>1, <1>2 DEF Idle, ActRecords

LEMMA InitOK == Init => IInv
<1> SUFFICES ASSUME Init PROVE IInv
  OBVIOUS
<1>1. /\ on \subseteq Elements /\ basis = NoBasis /\ changes = 0 /\ steady = FALSE /\ next = 1
      /\ num = [e \in Elements |-> 0] /\ meant = [n \in Numbers |-> None]
      /\ act = [a \in Acts |-> Idle]
  BY PageAssumption DEF Init
<1>2. MaxChanges \in Nat /\ 0 \in 0..MaxChanges
  BY PageAssumption
<1>3. num \in [Elements -> Nat] /\ next \in Nat /\ next >= 1 /\ \A e \in Elements : num[e] = 0
  BY <1>1
<1>4. Numbering(num, next, changes)
  <2>1. Cardinality(Unnumbered(num)) \in Nat /\ Cardinality(Unnumbered(num)) <= Len(Order)
    BY Counting DEF Unnumbered
  <2>2. (0 + 1) * Len(Order) = Len(Order)
    <3>1. \A k \in Nat : (0 + 1) * k = k
      OBVIOUS
    <3> QED
      BY <3>1, OrderFacts
  <2>3. next + Cardinality(Unnumbered(num)) <= (changes + 1) * Len(Order) + 1
    BY <1>1, <2>1, <2>2, OrderFacts
  <2> QED
    BY <1>1, <1>3, <2>3 DEF Numbering
<1>5. /\ next \in 1..((changes + 1) * Len(Order) + 1)
      /\ num \in [Elements -> Numbers \union {0}]
  BY <1>1, <1>2, <1>3, <1>4, NumbersFit
<1>6. act \in [Acts -> ActRecords] /\ IdleFoundNothing(act)
  BY <1>1, IdleTyped DEF IdleFoundNothing
<1>7. TypeOK
  BY <1>1, <1>2, <1>5, <1>6, IdleTyped DEF TypeOK, ActRecords
<1>8. Issued(meant, next)
  BY <1>1 DEF Issued
<1> QED
  BY <1>1, <1>4, <1>6, <1>7, <1>8 DEF IInv

\* A window is numbered, whatever is done with it: the types and the numbering of the next state.
LEMMA TakeStep ==
    ASSUME IInv, NEW w, NEW mode \in Modes, Taken(w, mode), UNCHANGED <<on, changes>>,
           meant' \in [Numbers -> Elements \union {None}], Issued(meant', next'),
           basis' \in Bases, steady' \in BOOLEAN,
           steady' => BasisStands(basis', on, num', next', meant'),
           ActsTyped(act'), IdleFoundNothing(act')
    PROVE  IInv'
<1>1. TypeOK'
  BY DEF IInv, TypeOK, Taken, ActsTyped, ActRecords
<1>2. (steady => BasisStands(basis, on, num, next, meant))'
  BY DEF BasisStands, RefStands
<1>3. Numbering(num, next, changes)'
  BY DEF Taken, Numbering, Unnumbered
<1>4. Issued(meant, next)' /\ IdleFoundNothing(act)'
  BY DEF Issued, IdleFoundNothing
<1> QED
  BY <1>1, <1>2, <1>3, <1>4 DEF IInv

LEMMA WindowTaken ==
    ASSUME IInv, NEW any \in Modes, NEW offset \in Nat, NEW query, NEW mode \in Modes,
           NEW w, w = Window(on, any, offset, query), Take(w)
    PROVE  Taken(w, mode)
  BY TakeFacts DEF IInv

LEMMA RefreshStep ==
    ASSUME IInv, NEW mode \in Modes, Refresh(mode), UNCHANGED <<on, changes>>,
           ActsTyped(act'), IdleFoundNothing(act')
    PROVE  IInv'
<1>1. PICK w : w = Window(on, mode, 0, "")
  OBVIOUS
<1>2. Take(w) /\ Shows(w) /\ basis' = BasisOf(w, mode) /\ steady' = TRUE
  BY <1>1 DEF Refresh, Remember
<1>3. Taken(w, mode)
  BY <1>1, <1>2, WindowTaken
<1>4. Showed(w)
  BY <1>2, <1>3, ShowsFacts DEF IInv
<1>5. basis' \in Bases /\ BasisStands(basis', on, num', next', meant')
  BY <1>1, <1>2, <1>3, <1>4, RememberStands DEF IInv
<1>6. meant' \in [Numbers -> Elements \union {None}] /\ Issued(meant', next')
  BY <1>4 DEF Showed
<1> QED
  BY <1>2, <1>3, <1>5, <1>6, TakeStep

LEMMA ReadStep ==
    ASSUME IInv, NEW r \in Reads, Read(r.mode, r.offset, r.query)
    PROVE  IInv'
<1>1. r.mode \in Modes /\ r.offset \in Nat
  BY PageAssumption DEF Modes
<1>2. PICK w : w = Window(on, r.mode, r.offset, r.query)
  OBVIOUS
<1>3. /\ Take(w) /\ Shows(w) /\ UNCHANGED <<on, act, changes>>
      /\ IF r.offset = 0 /\ r.query = "" THEN Remember(w, r.mode) ELSE UNCHANGED <<basis, steady>>
  BY <1>2 DEF Read
<1>4. Taken(w, r.mode)
  BY <1>1, <1>2, <1>3, WindowTaken
<1>5. Showed(w)
  BY <1>3, <1>4, ShowsFacts DEF IInv
<1>6. meant' \in [Numbers -> Elements \union {None}] /\ Issued(meant', next')
  BY <1>5 DEF Showed
<1>7. ActsTyped(act') /\ IdleFoundNothing(act')
  BY <1>3 DEF IInv, TypeOK, ActsTyped, ActRecords
<1>8. CASE r.offset = 0 /\ r.query = ""
  <2>1. w = Window(on, r.mode, 0, "") /\ basis' = BasisOf(w, r.mode) /\ steady' = TRUE
    BY <1>2, <1>3, <1>8 DEF Remember
  <2>2. basis' \in Bases /\ BasisStands(basis', on, num', next', meant')
    BY <1>1, <1>4, <1>5, <2>1, RememberStands DEF IInv
  <2> QED
    BY <1>1, <1>3, <1>4, <1>6, <1>7, <2>1, <2>2, TakeStep
<1>9. CASE ~(r.offset = 0 /\ r.query = "")
  <2>1. basis' = basis /\ steady' = steady
    BY <1>3, <1>9
  <2>2. basis' \in Bases /\ steady' \in BOOLEAN
    BY <2>1 DEF IInv, TypeOK
  <2>3. steady => BasisStands(basis, on, num', next', meant')
    BY <1>4, <1>5, StandsOn DEF IInv
  <2>4. steady' => BasisStands(basis', on, num', next', meant')
    BY <2>1, <2>3
  <2> QED
    BY <1>1, <1>3, <1>4, <1>6, <1>7, <2>2, <2>4, TakeStep
<1> QED
  BY <1>8, <1>9

\* An act that begins: the entry it makes, with the basis it will compare with.
LEMMA BeginStep ==
    ASSUME IInv, NEW a \in Acts, NEW entry \in ActRecords, Begin(a, entry), entry.at # "idle",
           UNCHANGED <<on, basis, meant, steady, changes>>
    PROVE  /\ IInv'
           /\ act'[a].id = entry.id /\ act'[a].hit = entry.hit
<1>1. /\ basis \in Bases /\ act \in [Acts -> ActRecords] /\ IdleFoundNothing(act) /\ TypeOK
      /\ meant' \in [Numbers -> Elements \union {None}] /\ steady' \in BOOLEAN /\ basis' \in Bases
  BY DEF IInv, TypeOK, ActRecords
<1>2. ASSUME NEW b \in Bases, act' = [act EXCEPT ![a] = [entry EXCEPT !.before = b]]
      PROVE  /\ ActsTyped(act') /\ IdleFoundNothing(act')
             /\ act'[a].id = entry.id /\ act'[a].hit = entry.hit
  <2>1. PICK x : x = [entry EXCEPT !.before = b]
    OBVIOUS
  <2>2. x \in ActRecords
    BY <2>1 DEF ActRecords
  <2>3. x.id = entry.id /\ x.hit = entry.hit /\ x.at = entry.at
    BY <2>1 DEF ActRecords
  <2>4. act' = [act EXCEPT ![a] = x]
    BY <1>2, <2>1
  <2>5. ActsTyped(act') /\ act'[a] = x
    BY <1>1, <2>2, <2>4 DEF ActsTyped
  <2>6. IdleFoundNothing(act')
    BY <1>1, <2>3, <2>4 DEF IdleFoundNothing
  <2> QED
    BY <2>3, <2>5, <2>6
<1>3. CASE basis.taken
  <2>1. num' = num /\ next' = next /\ act' = [act EXCEPT ![a] = [entry EXCEPT !.before = basis]]
    BY <1>3 DEF Begin
  <2>2. /\ ActsTyped(act') /\ IdleFoundNothing(act')
        /\ act'[a].id = entry.id /\ act'[a].hit = entry.hit
    BY <1>1, <1>2, <2>1
  <2>3. TypeOK'
    BY <2>1, <2>2 DEF IInv, TypeOK, ActsTyped, ActRecords
  <2>4. IInv'
    BY <2>1, <2>2, <2>3
       DEF IInv, Numbering, Unnumbered, Issued, BasisStands, RefStands, IdleFoundNothing
  <2> QED
    BY <2>2, <2>4
<1>4. CASE ~basis.taken
  <2>1. PICK w : w = Window(on, "full", 0, "")
    OBVIOUS
  <2>2. Take(w) /\ act' = [act EXCEPT ![a] = [entry EXCEPT !.before = BasisOf(w, "full")]]
    BY <1>4, <2>1 DEF Begin
  <2>3. "full" \in Modes /\ 0 \in Nat
    BY DEF Modes
  <2>4. Taken(w, "full")
    BY <2>1, <2>2, <2>3, WindowTaken
  <2>5. BasisOf(w, "full") \in Bases
    BY <2>4 DEF Taken
  <2>6. PICK b \in Bases : b = BasisOf(w, "full")
    BY <2>5
  <2>7. /\ ActsTyped(act') /\ IdleFoundNothing(act')
        /\ act'[a].id = entry.id /\ act'[a].hit = entry.hit
    BY <1>2, <2>2, <2>6
  <2>8. Issued(meant', next')
    <3>1. next' >= next /\ next' \in Nat /\ next \in Nat
      BY <1>1, <2>4, Typed DEF Taken, Renumbered, NumberFacts
    <3>2. \A n \in Numbers : n \in Nat
      BY NumbersArePositive
    <3> QED
      BY <3>1, <3>2 DEF IInv, Issued
  <2>9. steady' => BasisStands(basis', on, num', next', meant')
    <3>1. steady => BasisStands(basis, on, num', next', meant')
      BY <2>4, StandsOn DEF IInv
    <3> QED
      BY <3>1
  <2>10. IInv'
    BY <1>1, <2>3, <2>4, <2>7, <2>8, <2>9, TakeStep
  <2> QED
    BY <2>7, <2>10
<1> QED
  BY <1>3, <1>4

LEMMA ActStep ==
    ASSUME IInv, NEW a \in Acts, NEW n \in Shown, Act(a, n)
    PROVE  IInv' /\ act'[a].id = n /\ act'[a].hit = Resolve(n)
<1>1. n \in Numbers /\ Resolve(n) \in Elements
  BY ResolveFacts DEF Shown, Act, IInv
<1>2. PICK x : x = [Idle EXCEPT !.at = "settling", !.id = n, !.hit = Resolve(n)]
  OBVIOUS
<1>3. /\ "settling" \in {"idle", "filling", "settling"} /\ Resolve(n) \in Elements \union {None}
      /\ n \in Numbers \union {0}
  BY <1>1
<1>4. x \in ActRecords /\ x.at = "settling" /\ x.id = n /\ x.hit = Resolve(n)
  BY <1>2, <1>3, IdleTyped DEF Idle, ActRecords
<1>5. Begin(a, x) /\ UNCHANGED <<on, basis, meant, steady, changes>>
  BY <1>2 DEF Act
<1> QED
  BY <1>4, <1>5, BeginStep

LEMMA ScrollStep ==
    ASSUME IInv, NEW a \in Acts, Scroll(a)
    PROVE  IInv' /\ act'[a].hit = None
<1>1. PICK x : x = [Idle EXCEPT !.at = "settling"]
  OBVIOUS
<1>2. x \in ActRecords /\ x.at = "settling" /\ x.hit = None
  BY <1>1, IdleTyped DEF Idle, ActRecords
<1>3. Begin(a, x) /\ UNCHANGED <<on, basis, meant, steady, changes>>
  BY <1>1 DEF Scroll
<1> QED
  BY <1>2, <1>3, BeginStep

LEMMA StartBatchStep ==
    ASSUME IInv, NEW a \in Acts, NEW m \in Shown, NEW n \in Shown, StartBatch(a, m, n)
    PROVE  IInv' /\ act'[a].hit = None
<1>1. PICK x : x = [Idle EXCEPT !.at = "filling", !.todo = <<m, n>>]
  OBVIOUS
<1>2. x \in ActRecords /\ x.at = "filling" /\ x.hit = None
  <2>1. <<m, n>> \in Seq(Numbers)
    BY DEF Shown
  <2> QED
    BY <1>1, <2>1, IdleTyped DEF Idle, ActRecords
<1>3. Begin(a, x) /\ UNCHANGED <<on, basis, meant, steady, changes>>
  BY <1>1 DEF StartBatch
<1> QED
  BY <1>2, <1>3, BeginStep

\* An act that fails at once reads the page again.
LEMMA FailStep ==
    ASSUME IInv, NEW a \in Acts, NEW n \in Shown, ActFails(a, n) \/ FillFails(a, n)
    PROVE  IInv'
<1>1. Refresh("full") /\ UNCHANGED <<on, act, changes>>
  BY DEF ActFails, FillFails
<1>2. ActsTyped(act') /\ IdleFoundNothing(act') /\ "full" \in Modes
  BY <1>1 DEF IInv, TypeOK, ActsTyped, ActRecords, Modes
<1> QED
  BY <1>1, <1>2, RefreshStep

LEMMA SettleStep ==
    ASSUME IInv, NEW a \in Acts, Settle(a)
    PROVE  IInv' /\ act'[a].hit = None
<1>1. act \in [Acts -> ActRecords] /\ IdleFoundNothing(act)
  BY DEF IInv, TypeOK, ActRecords
<1>2. act[a].before.mode \in Modes
  BY <1>1 DEF ActRecords, Bases
<1>3. Refresh(act[a].before.mode) /\ act' = [act EXCEPT ![a] = Idle] /\ UNCHANGED <<on, changes>>
  BY DEF Settle
<1>4. ActsTyped(act') /\ IdleFoundNothing(act') /\ act'[a].hit = None
  BY <1>1, <1>3, IdleTyped DEF ActsTyped, IdleFoundNothing
<1> QED
  BY <1>2, <1>3, <1>4, RefreshStep

\* What a step on the acts alone leaves to show.
LEMMA ActsOnly ==
    ASSUME IInv, UNCHANGED <<on, num, next, meant, changes>>, basis' \in Bases,
           steady' = (steady /\ basis' = basis), ActsTyped(act'), IdleFoundNothing(act')
    PROVE  IInv'
<1>1. TypeOK'
  BY DEF IInv, TypeOK, ActsTyped, ActRecords
<1>2. Numbering(num, next, changes)' /\ Issued(meant, next)' /\ IdleFoundNothing(act)'
  BY DEF IInv, Numbering, Unnumbered, Issued, IdleFoundNothing
<1>3. ASSUME steady'
      PROVE  BasisStands(basis, on, num, next, meant)'
  <2>1. steady /\ basis' = basis
    BY <1>3
  <2>2. BasisStands(basis, on, num, next, meant)
    BY <2>1 DEF IInv
  <2> QED
    BY <2>1, <2>2 DEF BasisStands, RefStands
<1> QED
  BY <1>1, <1>2, <1>3 DEF IInv

LEMMA FillNextStep ==
    ASSUME IInv, NEW a \in Acts, FillNext(a)
    PROVE  /\ IInv'
           /\ act'[a].id \in Numbers
           /\ act'[a].hit # None => act'[a].hit = Resolve(act'[a].id)
<1> DEFINE n == Head(act[a].todo)
<1> DEFINE hit == IF Resolve(n) \in Fillable THEN Resolve(n) ELSE None
<1>1. act \in [Acts -> ActRecords] /\ IdleFoundNothing(act)
  BY DEF IInv, TypeOK, ActRecords
<1>2. act[a].todo \in Seq(Numbers) /\ act[a].todo # <<>> /\ act[a].at = "filling"
  BY <1>1 DEF FillNext, ActRecords
<1>3. n \in Numbers /\ Tail(act[a].todo) \in Seq(Numbers)
  BY <1>2
<1>4. hit \in Elements \union {None} /\ (hit # None => hit = Resolve(n))
  BY PageAssumption
<1>5. act' = [act EXCEPT ![a].todo = Tail(@), ![a].id = n, ![a].hit = hit]
  BY DEF FillNext
<1>6. PICK x : x = [act[a] EXCEPT !.todo = Tail(act[a].todo), !.id = n, !.hit = hit]
  OBVIOUS
<1> HIDE DEF n, hit
<1>7. x \in ActRecords /\ x.at = "filling" /\ x.id = n /\ x.hit = hit
  <2>1. act[a] \in ActRecords
    BY <1>1
  <2>2. x \in ActRecords
    BY <1>3, <1>4, <1>6, <2>1 DEF ActRecords
  <2> QED
    BY <1>2, <1>6, <2>1, <2>2 DEF ActRecords
<1>8. act' = [act EXCEPT ![a] = x]
  <2>1. act[a] \in ActRecords
    BY <1>1
  <2> QED
    BY <1>1, <1>5, <1>6, <2>1 DEF ActRecords
<1>9. ActsTyped(act') /\ IdleFoundNothing(act') /\ act'[a] = x
  BY <1>1, <1>7, <1>8 DEF ActsTyped, IdleFoundNothing
<1>10. /\ basis' \in Bases /\ steady' = (steady /\ basis' = basis)
       /\ UNCHANGED <<on, num, next, meant, changes>>
  <2>1. act[a].before \in Bases /\ basis \in Bases
    BY <1>1 DEF ActRecords, IInv, TypeOK
  <2> QED
    BY <2>1 DEF FillNext
<1> QED
  BY <1>3, <1>4, <1>7, <1>9, <1>10, ActsOnly

LEMMA FillEndsStep ==
    ASSUME IInv, NEW a \in Acts, FillEnds(a)
    PROVE  IInv' /\ act'[a].todo = act[a].todo
<1>1. act \in [Acts -> ActRecords] /\ IdleFoundNothing(act)
  BY DEF IInv, TypeOK, ActRecords
<1>2. act' = [act EXCEPT ![a].at = "settling"]
  BY DEF FillEnds
<1>3. PICK x : x = [act[a] EXCEPT !.at = "settling"]
  OBVIOUS
<1>4. x \in ActRecords /\ x.at = "settling" /\ x.todo = act[a].todo
  BY <1>1, <1>3 DEF ActRecords
<1>5. act' = [act EXCEPT ![a] = x]
  BY <1>2, <1>3
<1>6. ActsTyped(act') /\ IdleFoundNothing(act') /\ act'[a] = x
  BY <1>1, <1>4, <1>5 DEF ActsTyped, IdleFoundNothing
<1>7. UNCHANGED <<on, num, next, basis, meant, steady, changes>> /\ basis \in Bases /\ steady \in BOOLEAN
  BY DEF FillEnds, IInv, TypeOK
<1>8. steady' = (steady /\ basis' = basis)
  BY <1>7
<1> QED
  BY <1>4, <1>6, <1>7, <1>8, ActsOnly

\* A change of the page that renders nodes anew or moves them, but leaves the script's own data.
LEMMA ChangeStep ==
    ASSUME IInv, changes < MaxChanges, changes' = changes + 1, on' \subseteq Elements,
           num' \in [Elements -> Nat], \A e \in Elements : num'[e] < next,
           \A d, e \in Elements : num'[d] = num'[e] => d = e \/ num'[d] = 0,
           UNCHANGED <<next, basis, act, meant>>,
           steady' \in BOOLEAN, steady' => BasisStands(basis, on', num', next, meant)
    PROVE  IInv'
<1>1. NumberFacts /\ MaxChanges \in Nat
  BY Typed, PageAssumption DEF IInv
<1>2. changes' \in 0..MaxChanges
  BY <1>1 DEF NumberFacts
<1>3. Numbering(num', next, changes + 1)
  BY <1>1, ChangedNumbers DEF IInv, NumberFacts
<1>4. /\ next \in 1..((changes + 1 + 1) * Len(Order) + 1)
      /\ num' \in [Elements -> Numbers \union {0}]
  <2>1. next \in Nat /\ next >= 1 /\ changes + 1 \in 0..MaxChanges
    BY <1>1, <1>2 DEF NumberFacts
  <2> QED
    BY <1>3, <2>1, NumbersFit
<1>5. TypeOK'
  BY <1>2, <1>4 DEF IInv, TypeOK
<1>6. Numbering(num, next, changes)'
  BY <1>3 DEF Numbering, Unnumbered
<1>7. Issued(meant, next)' /\ IdleFoundNothing(act)'
  BY DEF IInv, Issued, IdleFoundNothing
<1>8. (steady => BasisStands(basis, on, num, next, meant))'
  BY DEF BasisStands, RefStands
<1> QED
  BY <1>5, <1>6, <1>7, <1>8 DEF IInv

LEMMA RerenderStep == ASSUME IInv, Rerender PROVE IInv'
<1>1. NumberFacts /\ Numbering(num, next, changes)
  BY Typed DEF IInv
<1>2. \A e \in Elements : num'[e] = (IF e \in on THEN 0 ELSE num[e])
  BY DEF Rerender
<1>3. /\ num' \in [Elements -> Nat]
      /\ \A e \in Elements : num'[e] < next
      /\ \A d, e \in Elements : num'[d] = num'[e] => d = e \/ num'[d] = 0
  BY <1>1, <1>2 DEF Rerender, NumberFacts, Numbering
<1>4. /\ changes < MaxChanges /\ changes' = changes + 1 /\ on' \subseteq Elements
      /\ UNCHANGED <<next, basis, act, meant>> /\ steady' = steady /\ on' = on /\ steady' \in BOOLEAN
  BY DEF Rerender, Changes, IInv, TypeOK
<1>5. ASSUME steady
      PROVE  BasisStands(basis, on, num', next, meant)
  <2>1. ASSUME NEW ref \in basis.refs
        PROVE  RefStands(ref, basis.mode, on, num', next, meant)
    <3>1. RefStands(ref, basis.mode, on, num, next, meant)
      BY <1>5 DEF IInv, BasisStands
    <3>2. ref[1] \in Numbers
      BY DEF IInv, TypeOK, Bases
    <3>3. ref[1] # 0
      BY <3>2, NumbersArePositive
    <3>4. \A e \in Elements : num'[e] = ref[1] => e = meant[ref[1]]
      BY <1>2, <3>1, <3>3 DEF RefStands
    <3> QED
      BY <3>1, <3>4 DEF RefStands
  <2> QED
    BY <2>1 DEF BasisStands
<1> QED
  BY <1>3, <1>4, <1>5, ChangeStep

LEMMA RecycleStep ==
    ASSUME IInv, NEW d \in Elements, NEW e \in Elements, Recycle(d, e)
    PROVE  IInv'
<1>1. NumberFacts /\ Numbering(num, next, changes)
  BY Typed DEF IInv
<1>2. num' = [num EXCEPT ![e] = num[d], ![d] = 0] /\ d # e
  BY DEF Recycle
<1>3. \A c \in Elements : num'[c] = IF c = d THEN 0 ELSE IF c = e THEN num[d] ELSE num[c]
  BY <1>1, <1>2 DEF NumberFacts
<1>4. num' \in [Elements -> Nat]
  BY <1>1, <1>2 DEF NumberFacts
<1>5. \A c \in Elements : num'[c] < next
  BY <1>1, <1>3 DEF NumberFacts, Numbering
<1>6. \A b, c \in Elements : num'[b] = num'[c] => b = c \/ num'[b] = 0
  BY <1>1, <1>3 DEF Numbering
<1>7. /\ changes < MaxChanges /\ changes' = changes + 1 /\ on' \subseteq Elements
      /\ UNCHANGED <<next, basis, act, meant>> /\ steady' = FALSE
  BY DEF Recycle, Changes, IInv, TypeOK
<1> QED
  BY <1>4, <1>5, <1>6, <1>7, ChangeStep

LEMMA MoveStep ==
    ASSUME IInv, NEW e \in Elements, Attach(e) \/ Detach(e)
    PROVE  IInv'
<1>1. NumberFacts /\ Numbering(num, next, changes)
  BY Typed DEF IInv
<1>2. num' = num
  BY DEF Attach, Detach
<1>3. /\ num' \in [Elements -> Nat]
      /\ \A c \in Elements : num'[c] < next
      /\ \A b, c \in Elements : num'[b] = num'[c] => b = c \/ num'[b] = 0
  BY <1>1, <1>2 DEF NumberFacts, Numbering
<1>4. /\ changes < MaxChanges /\ changes' = changes + 1 /\ on' \subseteq Elements
      /\ UNCHANGED <<next, basis, act, meant>> /\ steady' = FALSE
  BY DEF Attach, Detach, Changes, IInv, TypeOK
<1> QED
  BY <1>3, <1>4, ChangeStep

LEMMA ReloadStep ==
    ASSUME IInv, Reload
    PROVE  IInv' /\ \A a \in Acts : act'[a].hit = None
<1>1. /\ num' = [e \in Elements |-> 0] /\ next' = 1 /\ basis' = NoBasis
      /\ act' = [a \in Acts |-> Idle] /\ meant' = [n \in Numbers |-> None]
      /\ on' = on /\ steady' = FALSE
      /\ changes < MaxChanges /\ changes' = changes + 1
  BY DEF Reload, Changes
<1>2. NumberFacts /\ MaxChanges \in Nat
  BY Typed, PageAssumption DEF IInv
<1>3. changes' \in 0..MaxChanges
  BY <1>1, <1>2 DEF NumberFacts
<1>4. num' \in [Elements -> Nat] /\ next' \in Nat /\ next' >= 1 /\ \A e \in Elements : num'[e] = 0
  BY <1>1
<1>5. Numbering(num', next', changes')
  <2>1. Cardinality(Unnumbered(num')) \in Nat /\ Cardinality(Unnumbered(num')) <= Len(Order)
    BY Counting DEF Unnumbered
  <2>2. PICK c : c = changes
    OBVIOUS
  <2>3. c \in 0..MaxChanges
    BY <1>2, <2>2 DEF NumberFacts
  <2>4. (c + 1 + 1) * Len(Order) >= Len(Order)
    BY <2>3, Products, OrderFacts
  <2>5. next' + Cardinality(Unnumbered(num')) <= (c + 1 + 1) * Len(Order) + 1
    <3>1. (c + 1) * Len(Order) \in Nat /\ (c + 1 + 1) * Len(Order) = (c + 1) * Len(Order) + Len(Order)
      BY <2>3, Products
    <3> QED
      BY <1>1, <2>1, <2>4, <3>1, OrderFacts
  <2> QED
    BY <1>1, <1>4, <2>2, <2>5 DEF Numbering
<1>6. /\ next' \in 1..((changes' + 1) * Len(Order) + 1)
      /\ num' \in [Elements -> Numbers \union {0}]
  BY <1>3, <1>4, <1>5, NumbersFit
<1>7. act' \in [Acts -> ActRecords] /\ \A a \in Acts : act'[a].hit = None
  BY <1>1, IdleTyped
<1>8. TypeOK'
  BY <1>1, <1>3, <1>6, <1>7, IdleTyped DEF IInv, TypeOK, ActRecords
<1>9. Numbering(num, next, changes)'
  BY <1>5 DEF Numbering, Unnumbered
<1>10. Issued(meant, next)' /\ IdleFoundNothing(act)'
  BY <1>1, <1>7 DEF Issued, IdleFoundNothing
<1> QED
  BY <1>1, <1>7, <1>8, <1>9, <1>10 DEF IInv

-----------------------------------------------------------------------------
(* The invariant *)

LEMMA StutterOK == ASSUME IInv, UNCHANGED vars PROVE IInv'
<1>1. TypeOK'
  BY DEF IInv, TypeOK, vars
<1>2. Numbering(num, next, changes)'
  BY DEF IInv, Numbering, Unnumbered, vars
<1>3. (steady => BasisStands(basis, on, num, next, meant))'
  BY DEF IInv, BasisStands, RefStands, vars
<1> QED
  BY <1>1, <1>2, <1>3 DEF IInv, Issued, IdleFoundNothing, vars

LEMMA ScriptOK == ASSUME IInv, NEW a \in Acts, Script(a) PROVE IInv'
<1>1. CASE \E n \in Shown : Act(a, n)
  BY <1>1, ActStep
<1>2. CASE \E n \in Shown : ActFails(a, n) \/ FillFails(a, n)
  BY <1>2, FailStep
<1>3. CASE \E m \in Shown : \E n \in Shown \ {m} : StartBatch(a, m, n)
  BY <1>3, StartBatchStep
<1>4. CASE Scroll(a)
  BY <1>4, ScrollStep
<1>5. CASE FillNext(a)
  BY <1>5, FillNextStep
<1>6. CASE FillEnds(a)
  BY <1>6, FillEndsStep
<1>7. CASE Settle(a)
  BY <1>7, SettleStep
<1> QED
  BY <1>1, <1>2, <1>3, <1>4, <1>5, <1>6, <1>7 DEF Script

LEMMA NextOK == IInv /\ [Next]_vars => IInv'
<1> SUFFICES ASSUME IInv, [Next]_vars PROVE IInv'
  OBVIOUS
<1>1. CASE \E r \in Reads : Read(r.mode, r.offset, r.query)
  BY <1>1, ReadStep
<1>2. CASE \E a \in Acts : Script(a)
  BY <1>2, ScriptOK
<1>3. CASE Rerender
  BY <1>3, RerenderStep
<1>4. CASE Reload
  BY <1>4, ReloadStep
<1>5. CASE \E e \in Elements : Attach(e) \/ Detach(e)
  BY <1>5, MoveStep
<1>6. CASE \E d, e \in Elements : Recycle(d, e)
  BY <1>6, RecycleStep
<1>7. CASE UNCHANGED vars
  BY <1>7, StutterOK
<1> QED
  BY <1>1, <1>2, <1>3, <1>4, <1>5, <1>6, <1>7 DEF Next

\* The invariant the other theorems rest on: of every state, numbers are given out to one node
\* each and within the bound, and the basis stands for what its references were shown as, as long
\* as the page has only been rendered again (identity.ts:45, content.ts:38).
THEOREM IInvariant == Spec => []IInv
  BY InitOK, NextOK, PTL DEF Spec

\* Every state of the script has the types of its data; the numbers given out stay below what the
\* changes of the page allow (identity.ts:45).
THEOREM Typing == Spec => []TypeOK
<1>1. IInv => TypeOK
  BY DEF IInv
<1> QED
  BY <1>1, IInvariant, PTL

-----------------------------------------------------------------------------
(* Numbers keep their node *)

\* A number that has been shown is below the next one, so no node that is numbered now gets it.
LEMMA ShownAgain ==
    ASSUME IInv, NEW w, NEW mode, Taken(w, mode), Showed(w),
           NEW n \in Numbers, meant[n] # None, meant'[n] \notin {None, meant[n]}
    PROVE  num[meant'[n]] = n
<1>1. PICK e : e = meant'[n]
  OBVIOUS
<1>2. e \in Elements /\ num'[e] = n
  BY <1>1 DEF Showed
<1>3. n < next /\ n # 0 /\ n \in Nat /\ next \in Nat
  BY NumbersArePositive, Typed DEF IInv, Issued, NumberFacts
<1>4. num[e] = 0 => num'[e] = 0 \/ num'[e] >= next
  BY <1>2 DEF Taken, Renumbered
<1>5. num[e] # 0
  BY <1>2, <1>3, <1>4
<1> QED
  BY <1>1, <1>2, <1>5 DEF Taken, Renumbered

LEMMA RefreshedAgain ==
    ASSUME IInv, NEW mode \in Modes, Refresh(mode),
           NEW n \in Numbers, meant[n] # None, meant'[n] \notin {None, meant[n]}
    PROVE  num[meant'[n]] = n
<1>1. PICK w : w = Window(on, mode, 0, "")
  OBVIOUS
<1>2. Take(w) /\ Shows(w)
  BY <1>1 DEF Refresh
<1>3. Taken(w, mode)
  BY <1>1, <1>2, WindowTaken
<1>4. Showed(w)
  BY <1>2, <1>3, ShowsFacts DEF IInv
<1> QED
  BY <1>3, <1>4, ShownAgain

LEMMA ReadAgain ==
    ASSUME IInv, NEW r \in Reads, Read(r.mode, r.offset, r.query),
           NEW n \in Numbers, meant[n] # None, meant'[n] \notin {None, meant[n]}
    PROVE  num[meant'[n]] = n
<1>1. r.mode \in Modes /\ r.offset \in Nat
  BY PageAssumption DEF Modes
<1>2. PICK w : w = Window(on, r.mode, r.offset, r.query)
  OBVIOUS
<1>3. Take(w) /\ Shows(w)
  BY <1>2 DEF Read
<1>4. Taken(w, r.mode)
  BY <1>1, <1>2, <1>3, WindowTaken
<1>5. Showed(w)
  BY <1>3, <1>4, ShowsFacts DEF IInv
<1> QED
  BY <1>4, <1>5, ShownAgain

\* Within one page load a number comes to mean another control only when its node shows that one
\* now (identity.ts:9, "keeps it, whatever a later read asks for").
THEOREM NumbersKeep == Spec => NumbersKeepTheirNode
<1> DEFINE A == \A n \in Numbers :
                  meant[n] # None /\ meant'[n] \notin {None, meant[n]} => num[meant'[n]] = n
<1>1. IInv /\ [Next]_vars => A
  <2> SUFFICES ASSUME IInv, [Next]_vars, NEW n \in Numbers,
                      meant[n] # None, meant'[n] \notin {None, meant[n]}
               PROVE  num[meant'[n]] = n
    OBVIOUS
  <2>1. CASE \E r \in Reads : Read(r.mode, r.offset, r.query)
    BY <2>1, ReadAgain
  <2>2. CASE \E a \in Acts : Script(a)
    <3>1. PICK a \in Acts : Script(a)
      BY <2>2
    <3>2. \E mode \in Modes : Refresh(mode)
      <4>1. act[a].before.mode \in Modes /\ "full" \in Modes
        BY DEF IInv, TypeOK, Bases, Modes
      <4>2. meant' # meant
        OBVIOUS
      <4> QED
        BY <3>1, <4>1, <4>2
           DEF Script, Act, ActFails, FillFails, StartBatch, Scroll, FillNext, FillEnds, Settle
    <3> QED
      BY <3>2, RefreshedAgain
  <2>3. CASE Rerender \/ \E e \in Elements : Attach(e) \/ Detach(e)
    BY <2>3 DEF Rerender, Attach, Detach
  <2>4. CASE \E d, e \in Elements : Recycle(d, e)
    BY <2>4 DEF Recycle
  <2>5. CASE Reload
    BY <2>5 DEF Reload
  <2>6. CASE UNCHANGED vars
    BY <2>6 DEF vars
  <2> QED
    BY <2>1, <2>2, <2>3, <2>4, <2>5, <2>6 DEF Next
<1>2. NumbersKeepTheirNode <=> [][A]_vars
  BY DEF NumbersKeepTheirNode
<1> QED
  BY <1>1, <1>2, IInvariant, PTL DEF Spec
-----------------------------------------------------------------------------
(* Acts find what was named *)

LEMMA Unmoved ==
    ASSUME IInv, NEW a \in Acts, act'[a] = act[a]
    PROVE  ~Found(a)
  BY DEF IInv, IdleFoundNothing, Found

\* The step of an act leaves the others alone.
LEMMA OthersWait ==
    ASSUME IInv, NEW a \in Acts, NEW b \in Acts, Script(b), a # b
    PROVE  act'[a] = act[a]
<1>1. act \in [Acts -> ActRecords]
  BY DEF IInv, TypeOK, ActRecords
<1>2. ASSUME NEW entry, Begin(b, entry)
      PROVE  act'[a] = act[a]
  <2>1. \E x : act' = [act EXCEPT ![b] = x]
    BY <1>2 DEF Begin
  <2> QED
    BY <1>1, <2>1
<1>3. CASE \/ \E n \in Shown : Act(b, n)
           \/ \E m \in Shown : \E n \in Shown \ {m} : StartBatch(b, m, n)
           \/ Scroll(b)
  BY <1>2, <1>3 DEF Act, StartBatch, Scroll
<1>4. CASE \E n \in Shown : ActFails(b, n) \/ FillFails(b, n)
  BY <1>4 DEF ActFails, FillFails
<1>5. CASE FillNext(b) \/ FillEnds(b) \/ Settle(b)
  BY <1>1, <1>5 DEF FillNext, FillEnds, Settle
<1> QED
  BY <1>3, <1>4, <1>5 DEF Script

\* An act that finds a control has resolved its number in the same step.
LEMMA FoundResolves ==
    ASSUME IInv, [Next]_vars, NEW a \in Acts, Found(a)
    PROVE  /\ act'[a].id \in Numbers
           /\ Resolve(act'[a].id) # None
           /\ act'[a].hit = Resolve(act'[a].id)
<1>1. act'[a].hit # None
  BY DEF Found
<1>2. act'[a] # act[a]
  BY Unmoved
<1>3. CASE \E b \in Acts : Script(b)
  <2>1. Script(a)
    BY <1>2, <1>3, OthersWait
  <2>2. CASE \E n \in Shown : Act(a, n)
    <3>1. PICK n \in Shown : Act(a, n)
      BY <2>2
    <3>2. act'[a].id = n /\ act'[a].hit = Resolve(n)
      BY <3>1, ActStep
    <3> QED
      BY <1>1, <3>2 DEF Shown
  <2>3. CASE \E n \in Shown : ActFails(a, n) \/ FillFails(a, n)
    BY <1>2, <2>3 DEF ActFails, FillFails
  <2>4. CASE \E m \in Shown : \E n \in Shown \ {m} : StartBatch(a, m, n)
    BY <1>1, <2>4, StartBatchStep
  <2>5. CASE Scroll(a)
    BY <1>1, <2>5, ScrollStep
  <2>6. CASE FillNext(a)
    BY <1>1, <2>6, FillNextStep
  <2>7. CASE FillEnds(a)
    BY <2>7, FillEndsStep DEF FillEnds, Found
  <2>8. CASE Settle(a)
    BY <1>1, <2>8, SettleStep
  <2> QED
    BY <2>1, <2>2, <2>3, <2>4, <2>5, <2>6, <2>7, <2>8 DEF Script
<1>4. CASE \/ \E r \in Reads : Read(r.mode, r.offset, r.query)
           \/ Rerender
           \/ \E e \in Elements : Attach(e) \/ Detach(e)
           \/ \E d, e \in Elements : Recycle(d, e)
  BY <1>2, <1>4 DEF Read, Rerender, Attach, Detach, Recycle
<1>5. CASE Reload
  BY <1>1, <1>5, ReloadStep
<1>6. CASE UNCHANGED vars
  BY <1>2, <1>6 DEF vars
<1> QED
  BY <1>3, <1>4, <1>5, <1>6 DEF Next

\* What a number is resolved to: the node that has it, if the basis does not tell otherwise, or
\* a control with the name of its recipe.
LEMMA ResolvedAsNamed ==
    ASSUME IInv, NEW n, Resolve(n) # None
    PROVE  LET e == Resolve(n)
           IN  \/ HasRecipe(n) /\ Look[e].name = Recipe(n).name
               \/ e \in Stored(n) /\ (~HasRecipe(n) \/ ~Look[e].direct)
<1>1. PICK e : e = Resolve(n)
  OBVIOUS
<1>2. Resolved(n, e)
  BY <1>1, ResolveFacts DEF IInv
<1>3. CASE e \in StoredMatch(n)
  <2>1. e \in Stored(n) /\ (HasRecipe(n) => StoredMatches(e, Recipe(n)))
    BY <1>3 DEF StoredMatch
  <2> QED
    BY <1>1, <2>1 DEF StoredMatches
<1>4. CASE HasRecipe(n) /\ Left(n) = {e}
  <2>1. e \in Candidates(Recipe(n))
    BY <1>4, NarrowFacts DEF Left, Found1
  <2> QED
    BY <1>1, <1>4, <2>1 DEF Candidates
<1> QED
  BY <1>2, <1>3, <1>4 DEF Resolved

\* An act acts on a control with the role and name its number was last shown with, but for the
\* three exceptions of the code (resolve.ts:175, resolve.ts:130, content.ts:38), whatever the page
\* does in between.
THEOREM ActsAsNamed == Spec => ActsOnTheNamedControl
<1> DEFINE A(a) ==
      Found(a) =>
        LET n == act'[a].id
            e == act'[a].hit
        IN  \/ Look[e].name = Look[meant[n]].name
            \/ e \in Stored(n) /\ (~HasRecipe(n) \/ ~Look[e].direct)
            \/ HasRecipe(n) /\ Recipe(n).name # Look[meant[n]].name
<1>1. IInv /\ [Next]_vars => \A a \in Acts : A(a)
  <2> SUFFICES ASSUME IInv, [Next]_vars, NEW a \in Acts, Found(a)
               PROVE  A(a)
    OBVIOUS
  <2>1. PICK n : n = act'[a].id
    OBVIOUS
  <2>2. Resolve(n) # None /\ act'[a].hit = Resolve(n)
    BY <2>1, FoundResolves
  <2>3. \/ HasRecipe(n) /\ Look[Resolve(n)].name = Recipe(n).name
        \/ Resolve(n) \in Stored(n) /\ (~HasRecipe(n) \/ ~Look[Resolve(n)].direct)
    BY <2>2, ResolvedAsNamed
  <2> QED
    BY <2>1, <2>2, <2>3
<1>2. ActsOnTheNamedControl <=> [][\A a \in Acts : A(a)]_vars
  BY DEF ActsOnTheNamedControl
<1> QED
  BY <1>1, <1>2, IInvariant, PTL DEF Spec
-----------------------------------------------------------------------------
(* Rendering again *)

\* Narrowing keeps a control that has the recipe's details, if the others of its name either have
\* them all or leave no other, and its ordinal counts those ahead of it.
LEMMA NarrowKeeps ==
    ASSUME NEW group, group \subseteq Elements, NEW recipe, NEW e \in group, Agrees(e, recipe),
           LET alike == {d \in group : Agrees(d, recipe)}
           IN  alike = group \/ ~(Cardinality(alike) > 1),
           Cardinality({d \in group : Ahead(d, e)}) = recipe.ordinal
    PROVE  e \in Narrow(group, recipe)
<1> DEFINE alike == {d \in group : Agrees(d, recipe)}
<1> DEFINE atOrdinal(pool) == {c \in pool : Cardinality({d \in pool : Ahead(d, c)}) = recipe.ordinal}
<1>1. e \in alike /\ alike \subseteq Elements
  OBVIOUS
<1>2. Narrow(group, recipe) = IF Cardinality(alike) = 1 THEN alike
                              ELSE IF atOrdinal(alike) # {} THEN atOrdinal(alike) ELSE alike
  BY <1>1 DEF Narrow
<1>3. CASE Cardinality(alike) = 1
  BY <1>1, <1>2, <1>3
<1>4. CASE Cardinality(alike) # 1
  <2>1. Cardinality(alike) \in Nat /\ Cardinality(alike) # 0
    <3>1. IsFiniteSet(alike) /\ Cardinality(alike) \in Nat
      BY <1>1, Counting
    <3> QED
      BY <1>1, <3>1, FS_EmptySet
  <2>2. alike = group
    BY <1>4, <2>1
  <2>3. e \in atOrdinal(alike)
    BY <2>2
  <2> QED
    BY <1>2, <1>4, <2>3
<1> QED
  BY <1>3, <1>4

LEMMA SteadyResolves ==
    ASSUME IInv, steady, NEW n, HasRecipe(n), Resolve(n) # None,
           Uncounted(n) = {}, ~Mixed(n), InOrder(n)
    PROVE  Resolve(n) = meant[n]
<1>1. PICK ref \in basis.refs : ref[1] = n /\ Recipe(n) = ref[2]
  BY DEF HasRecipe, Recipe
<1>2. RefStands(ref, basis.mode, on, num, next, meant)
  BY DEF IInv, BasisStands
<1>3. PICK w : w = Window(on, basis.mode, 0, "")
  OBVIOUS
<1>4. PICK r \in w.refs : r[1] = meant[n] /\ Recipe(n) = RecipeOf(r)
  BY <1>1, <1>2, <1>3 DEF RefStands
<1>5. RefsCount(w, on, basis.mode)
  <2>1. on \in SUBSET Elements /\ 0 \in Nat
    BY DEF IInv, TypeOK
  <2> QED
    BY <1>3, <2>1, WindowRefs
<1>6. PICK e : e = meant[n]
  OBVIOUS
<1>7. /\ e \in Controls(on, basis.mode)
      /\ r[2] = Cardinality({d \in CountedLike(w, on, basis.mode, e) : Before(d, e)})
  BY <1>4, <1>5, <1>6 DEF RefsCount
<1>8. /\ Recipe(n).name = Look[e].name /\ Recipe(n).detail = Look[e].detail
      /\ Recipe(n).ordinal = r[2]
  BY <1>4, <1>6 DEF RecipeOf
<1>9. /\ Group(n) = CountedLike(w, on, basis.mode, e) /\ e \in Group(n)
      /\ Group(n) \subseteq Elements
  <2>1. Group(n) \subseteq Walked(on, basis.mode) \ w.dropped
    BY <1>3 DEF Uncounted, Counted
  <2>2. Walked(on, basis.mode) \subseteq on /\ on \subseteq Elements
    BY DEF Walked, IInv, TypeOK
  <2> QED
    BY <1>7, <1>8, <2>1, <2>2 DEF Group, Candidates, CountedLike, NamedLike, Controls
<1>10. StoredMatch(n) \subseteq {e}
  <2>1. \A d \in Elements : num[d] = n => d = e
    BY <1>1, <1>2, <1>6 DEF RefStands
  <2> QED
    BY <2>1 DEF StoredMatch, Stored, IInv, TypeOK
<1>11. e \in Left(n)
  <2>1. CASE Cardinality(Found1(n)) > 1
    <3>1. {d \in Group(n) : Ahead(d, e)} = {d \in CountedLike(w, on, basis.mode, e) : Before(d, e)}
      BY <1>9 DEF InOrder
    <3>2. Cardinality({d \in Group(n) : Ahead(d, e)}) = Recipe(n).ordinal
      BY <1>7, <1>8, <3>1
    <3>3. Agrees(e, Recipe(n))
      BY <1>8 DEF Agrees
    <3>4. e \in Narrow(Group(n), Recipe(n))
      BY <1>9, <3>2, <3>3, NarrowKeeps DEF Mixed
    <3> QED
      BY <2>1, <3>4 DEF Left, Found1, Group
  <2>2. CASE ~(Cardinality(Found1(n)) > 1)
    BY <1>9, <2>2 DEF Left, Found1, Group
  <2> QED
    BY <2>1, <2>2
<1>12. Resolved(n, Resolve(n))
  BY ResolveFacts DEF IInv
<1> QED
  BY <1>6, <1>10, <1>11, <1>12 DEF Resolved

\* While the page has only been rendered again since the basis, a reference of it is found as the
\* control it was shown as, or not at all, as long as its ordinal counts the controls that
\* resolving counts, in the same order (snapshot.ts:214, resolve.ts:91, resolve.ts:141).
THEOREM RerenderKeeps == Spec => RerenderKeepsTheControl
<1> DEFINE A(a) ==
      LET n == act'[a].id
      IN  Found(a) /\ steady /\ HasRecipe(n) /\ Uncounted(n) = {} /\ ~Mixed(n) /\ InOrder(n)
            => act'[a].hit = meant[n]
<1>1. IInv /\ [Next]_vars => \A a \in Acts : A(a)
  <2> SUFFICES ASSUME IInv, [Next]_vars, NEW a \in Acts
               PROVE  A(a)
    OBVIOUS
  <2>1. PICK n : n = act'[a].id
    OBVIOUS
  <2>2. Found(a) => Resolve(n) # None /\ act'[a].hit = Resolve(n)
    BY <2>1, FoundResolves
  <2> QED
    BY <2>1, <2>2, SteadyResolves
<1>2. RerenderKeepsTheControl <=> [][\A a \in Acts : A(a)]_vars
  BY DEF RerenderKeepsTheControl
<1> QED
  BY <1>1, <1>2, IInvariant, PTL DEF Spec

-----------------------------------------------------------------------------
(* Paging *)

\* Of every page and in every mode: reading on from the offset each window names ends, unless a
\* line is as long as a window (snapshot.ts:184).
THEOREM PagesEnd == Spec => []PagingEnds
<1>1. PagingEnds
  BY ReadingEnds DEF PagingEnds, OfEveryPage
<1> QED
  BY <1>1, PTL

\* It shows every line, but for a text squeezed out together with the line behind it
\* (snapshot.ts:186), and what lies behind a heading that its window left out (snapshot.ts:265).
THEOREM PagesShowEveryLine == Spec => []PagingShowsEveryLine
<1>1. PagingShowsEveryLine
  BY ReadingShowsEveryLine DEF PagingShowsEveryLine, OfEveryPage
<1> QED
  BY <1>1, PTL

\* It shows no line again in a later window, but for one kept ahead of the text before it
\* (snapshot.ts:208), or behind a heading that the earlier window left out (snapshot.ts:265).
THEOREM PagesRepeatNoLine == Spec => []PagingRepeatsNoLine
<1>1. PagingRepeatsNoLine
  BY ReadingRepeatsNoLine DEF PagingRepeatsNoLine, OfEveryPage
<1> QED
  BY <1>1, PTL
=============================================================================
