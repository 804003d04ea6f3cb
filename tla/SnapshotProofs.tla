--------------------------- MODULE SnapshotProofs ---------------------------
(***************************************************************************)
(* What the walk over a page computes, for any page, window and offset:    *)
(* what its references count, where its lines lie, and what a reading of   *)
(* the page window after window shows.  The recursive definitions are      *)
(* reasoned about by least counterexamples.                                *)
(***************************************************************************)
EXTENDS Snapshot, FiniteSetTheorems, TLAPS

-----------------------------------------------------------------------------
(* Induction and recursion over an interval *)

\* A set of numbers has a least one: the interval below it has no proper part of its kind.
LEMMA LeastNatural ==
    ASSUME NEW T, T \subseteq Nat, T # {}
    PROVE  \E m \in T : \A n \in T : m <= n
<1> DEFINE Below == {0..(n - 1) : n \in T}
<1> DEFINE R == StrictSubsetOrdering(Nat)
<1> DEFINE F == FiniteSubsetsOf(Nat)
<1>1. IsWellFoundedOn(R, F)
  BY FS_StrictSubsetOrderingWellFounded
<1>2. Below \subseteq F /\ Below # {}
  <2>1. \A n \in T : IsFiniteSet(0..(n - 1)) /\ 0..(n - 1) \subseteq Nat
    BY FS_Interval
  <2> QED
    BY <2>1 DEF FiniteSubsetsOf
<1>3. \E x \in Below : \A y \in Below : ~(<<y, x>> \in R)
  <2> HIDE DEF R, F, Below
  <2> QED
    BY <1>1, <1>2, WFMin
<1>4. PICK m \in T : \A n \in T : ~(<<0..(n - 1), 0..(m - 1)>> \in R)
  BY <1>3
<1>5. ASSUME NEW n \in T, n < m
      PROVE  FALSE
  <2>1. 0..(n - 1) \in SUBSET Nat /\ 0..(m - 1) \in SUBSET Nat
    OBVIOUS
  <2>2. 0..(n - 1) \subseteq 0..(m - 1) /\ n \in 0..(m - 1) /\ n \notin 0..(n - 1)
    BY <1>5
  <2>3. <<0..(n - 1), 0..(m - 1)>> \in R
    BY <2>1, <2>2 DEF StrictSubsetOrdering
  <2> QED
    BY <1>4, <2>3
<1> QED
  BY <1>5

\* What holds at 0 and of every number up to n when it holds of the one before holds up to n.
LEMMA UpTo ==
    ASSUME NEW n \in Nat, NEW G, 0 \in G, \A i \in 1..n : i - 1 \in G => i \in G
    PROVE  0..n \subseteq G
<1> SUFFICES ASSUME (0..n) \ G # {} PROVE FALSE
  OBVIOUS
<1>1. PICK m \in (0..n) \ G : \A i \in (0..n) \ G : m <= i
  <2>1. (0..n) \ G \subseteq Nat
    OBVIOUS
  <2> QED
    BY <2>1, LeastNatural
<1>2. m \in 1..n /\ m - 1 \in 0..n /\ ~(m <= m - 1)
  BY <1>1
<1> QED
  BY <1>1, <1>2

Iterates(g, start, n, Step) == g[0] = start /\ \A i \in 1..n : g[i] = Step[<<g[i - 1], i>>]

\* A recursive definition over an interval has a value, of the type of its steps.
LEMMA Iteration ==
    ASSUME NEW S, NEW start \in S, NEW n \in Nat, NEW Step \in [S \X (1..n) -> S]
    PROVE  \E g \in [0..n -> S] : Iterates(g, start, n, Step)
<1> USE DEF Iterates
<1> DEFINE G == {k \in Nat : \E g \in [0..k -> S] : Iterates(g, start, k, Step)}
<1>1. 0 \in G
  <2>1. [i \in 0..0 |-> start] \in [0..0 -> S] /\ Iterates([i \in 0..0 |-> start], start, 0, Step)
    OBVIOUS
  <2> QED
    BY <2>1
<1>2. ASSUME NEW k \in 1..n, k - 1 \in G
      PROVE  k \in G
  <2>1. PICK g \in [0..(k - 1) -> S] : Iterates(g, start, k - 1, Step)
    BY <1>2
  <2>2. PICK v : v = Step[<<g[k - 1], k>>]
    OBVIOUS
  <2>3. v \in S
    BY <2>2
  <2> DEFINE h == [i \in 0..k |-> IF i = k THEN v ELSE g[i]]
  <2>4. h \in [0..k -> S] /\ h[0] = start
    <3>1. \A i \in 0..k : i # k => i \in 0..(k - 1)
      OBVIOUS
    <3> QED
      BY <2>1, <2>3, <3>1
  <2>5. ASSUME NEW i \in 1..k
        PROVE  h[i] = Step[<<h[i - 1], i>>]
    <3>1. CASE i = k
      <4>1. i - 1 \in 0..k /\ i - 1 # k /\ i \in 0..k
        BY <3>1
      <4> QED
        BY <3>1, <4>1, <2>2
    <3>2. CASE i # k
      <4>1. i \in 1..(k - 1) /\ i - 1 \in 0..k /\ i - 1 # k /\ i \in 0..k
        BY <3>2
      <4> QED
        BY <4>1, <2>1, <3>2
    <3> QED
      BY <3>1, <3>2
  <2> HIDE DEF h
  <2> QED
    BY <2>4, <2>5
<1>3. n \in G
  <2> HIDE DEF G
  <2>1. 0..n \subseteq G
    BY <1>1, <1>2, UpTo
  <2> QED
    BY <2>1
<1> QED
  BY <1>3

-----------------------------------------------------------------------------
(* The document *)

Positions == DOMAIN Order

LEMMA OrderFacts ==
    /\ Len(Order) \in Nat
    /\ Positions = 1..Len(Order)
    /\ \A i \in Positions : Order[i] \in Elements
    /\ \A e \in Elements : \E i \in Positions : Order[i] = e
    /\ \A i, j \in Positions : Order[i] = Order[j] => i = j
    /\ Order \in [1..Len(Order) -> Elements]
<1>1. Order \in Seq(Elements)
  BY LookAssumption
<1>2. Len(Order) \in Nat /\ Positions = 1..Len(Order) /\ Order \in [1..Len(Order) -> Elements]
  BY <1>1 DEF Positions
<1>3. \A e \in Elements : \E i \in Positions : Order[i] = e
  BY DEF Elements, Range, Positions
<1>4. \A i, j \in Positions : Order[i] = Order[j] => i = j
  BY LookAssumption DEF IsInjective, Positions
<1> QED
  BY <1>2, <1>3, <1>4

LEMMA LookFacts ==
    ASSUME NEW e \in Elements
    PROVE  Look[e].text \in Nat /\ Look[e].own \in Nat /\ Look[e].href \in {"", "/"}
  BY LookAssumption

LEMMA ControlsHaveLines ==
    ASSUME NEW e \in Elements, Look[e].own = 0
    PROVE  ~IsControl(e)
<1>1. IsControl(e) => Look[e].own > 0
  BY LookAssumption, Zenon DEF IsControl
<1> QED
  BY <1>1

LEMMA ElementsAreFinite ==
    IsFiniteSet(Elements) /\ Cardinality(Elements) \in Nat /\ Cardinality(Elements) <= Len(Order)
<1>1. Order \in Surjection(1..Len(Order), Elements)
  BY OrderFacts DEF Surjection
<1>2. ExistsSurjection(1..Len(Order), Elements)
  BY <1>1 DEF ExistsSurjection
<1>3. IsFiniteSet(Elements)
  BY <1>2, OrderFacts, FS_NatSurjection
<1> QED
  BY <1>2, <1>3, OrderFacts, FS_SurjCardinalityBound, FS_CardinalityType

\* Sets of elements can be counted, and a proper part counts less.
LEMMA Counting ==
    ASSUME NEW S, S \subseteq Elements
    PROVE  /\ IsFiniteSet(S)
           /\ Cardinality(S) \in Nat
           /\ Cardinality(S) <= Len(Order)
           /\ \A T \in SUBSET S : /\ Cardinality(T) \in Nat
                                  /\ Cardinality(T) <= Cardinality(S)
                                  /\ T # S => Cardinality(T) < Cardinality(S)
<1>1. IsFiniteSet(S) /\ Cardinality(S) <= Cardinality(Elements)
  BY ElementsAreFinite, FS_Subset
<1>2. Cardinality(S) \in Nat
  BY <1>1, FS_CardinalityType
<1>3. ASSUME NEW T \in SUBSET S
      PROVE  /\ Cardinality(T) \in Nat
             /\ Cardinality(T) <= Cardinality(S)
             /\ T # S => Cardinality(T) < Cardinality(S)
  <2>1. IsFiniteSet(T) /\ Cardinality(T) <= Cardinality(S) /\ (Cardinality(S) = Cardinality(T) => S = T)
    BY <1>1, FS_Subset
  <2>2. Cardinality(T) \in Nat
    BY <2>1, FS_CardinalityType
  <2> QED
    BY <1>2, <2>1, <2>2
<1> QED
  BY <1>1, <1>2, <1>3, ElementsAreFinite, OrderFacts

\* The order of the document is a strict one, and of two elements one comes first.
LEMMA BeforeIsAnOrder ==
    /\ \A e \in Elements : ~Before(e, e)
    /\ \A c, d, e \in Elements : Before(c, d) /\ Before(d, e) => Before(c, e)
    /\ \A d, e \in Elements : d # e => Before(d, e) \/ Before(e, d)
<1>1. \A e \in Elements : ~Before(e, e)
  BY OrderFacts DEF Before, Positions
<1>2. ASSUME NEW c \in Elements, NEW d \in Elements, NEW e \in Elements, Before(c, d), Before(d, e)
      PROVE  Before(c, e)
  <2>1. PICK i, j \in Positions : i < j /\ Order[i] = c /\ Order[j] = d
    BY <1>2 DEF Before, Positions
  <2>2. PICK k, l \in Positions : k < l /\ Order[k] = d /\ Order[l] = e
    BY <1>2 DEF Before, Positions
  <2>3. j = k /\ i < l
    BY <2>1, <2>2, OrderFacts
  <2> QED
    BY <2>1, <2>2, <2>3 DEF Before, Positions
<1>3. ASSUME NEW d \in Elements, NEW e \in Elements, d # e
      PROVE  Before(d, e) \/ Before(e, d)
  <2>1. PICK i, j \in Positions : Order[i] = d /\ Order[j] = e
    BY OrderFacts
  <2>2. i < j \/ j < i
    BY <2>1, <1>3, OrderFacts
  <2> QED
    BY <2>1, <2>2 DEF Before, Positions
<1> QED
  BY <1>1, <1>2, <1>3

\* Of two elements of a set, the later one has more of the set before it: a place names one.
LEMMA PlacesDiffer ==
    ASSUME NEW S, S \subseteq Elements, NEW d \in S, NEW e \in S,
           Cardinality({c \in S : Before(c, d)}) = Cardinality({c \in S : Before(c, e)})
    PROVE  d = e
<1> SUFFICES ASSUME d # e PROVE FALSE
  OBVIOUS
<1>1. ASSUME NEW x \in S, NEW y \in S, Before(x, y)
      PROVE  Cardinality({c \in S : Before(c, x)}) < Cardinality({c \in S : Before(c, y)})
  <2>1. {c \in S : Before(c, x)} \subseteq {c \in S : Before(c, y)}
    BY <1>1, BeforeIsAnOrder
  <2>2. x \in {c \in S : Before(c, y)} /\ x \notin {c \in S : Before(c, x)}
    BY <1>1, BeforeIsAnOrder
  <2>3. {c \in S : Before(c, y)} \subseteq Elements
    OBVIOUS
  <2> QED
    BY <2>1, <2>2, <2>3, Counting
<1>2. /\ Cardinality({c \in S : Before(c, d)}) \in Nat
      /\ Cardinality({c \in S : Before(c, e)}) \in Nat
  <2>1. {c \in S : Before(c, d)} \subseteq Elements /\ {c \in S : Before(c, e)} \subseteq Elements
    OBVIOUS
  <2> QED
    BY <2>1, Counting
<1>3. CASE Before(d, e)
  BY <1>1, <1>2, <1>3
<1>4. CASE Before(e, d)
  BY <1>1, <1>2, <1>4
<1> QED
  BY <1>3, <1>4, BeforeIsAnOrder

-----------------------------------------------------------------------------
(* The walk: its types *)

Windowed == [produced : Nat, output : Nat, truncated : BOOLEAN, next : Nat, lines : SUBSET Lines,
             met : SUBSET Elements, walked : SUBSET Elements, refs : SUBSET (Elements \X Nat),
             link : Elements \union {None}, last : Elements \union {None}, dropped : SUBSET Elements]

\* What emitting leaves alone.
SameRefs(v, w) == v.met = w.met /\ v.walked = w.walked /\ v.refs = w.refs
SameWalk(v, w) == SameRefs(v, w) /\ v.link = w.link /\ v.last = w.last /\ v.dropped = w.dropped

\* What the reader sees of a window.
SameView(v, w) == /\ v.produced = w.produced /\ v.output = w.output /\ v.truncated = w.truncated
                  /\ v.next = w.next /\ v.lines = w.lines

Skipped(v, w) == /\ v.output = w.output /\ v.truncated = w.truncated /\ v.next = w.next
                 /\ v.lines = w.lines

Stopped(v, w, cost) == /\ w.output + cost > MaxChars
                       /\ v.truncated /\ v.next = w.produced
                       /\ v.output = w.output /\ v.lines = w.lines

Kept(v, w, line, cost) == /\ v.output = w.output + cost /\ v.truncated = w.truncated
                          /\ v.next = w.next /\ v.lines = w.lines \union {line}

\* A line is skipped, stops the window or is kept, and is counted in each case (emit).
LEMMA EmitFacts ==
    ASSUME NEW w \in Windowed, NEW line \in Lines, NEW len \in Nat, NEW offset \in Nat
    PROVE  LET v == Emit(w, line, len, offset)
               cost == Cost(w, len)
           IN  /\ v \in Windowed /\ SameWalk(v, w)
               /\ cost \in Nat /\ cost >= len /\ cost <= len + 1
               /\ v.produced = w.produced + cost
               /\ \/ v.produced <= offset /\ Skipped(v, w)
                  \/ v.produced > offset /\ Stopped(v, w, cost)
                  \/ v.produced > offset /\ Kept(v, w, line, cost)
<1> DEFINE cost == Cost(w, len)
<1>1. /\ w.produced \in Nat /\ w.output \in Nat /\ w.lines \subseteq Lines
      /\ cost \in Nat /\ cost >= len /\ cost <= len + 1
  BY DEF Windowed, Cost
<1> HIDE DEF cost
<1>2. LET v == Skip(w, cost)
      IN  v \in Windowed /\ SameWalk(v, w) /\ v.produced = w.produced + cost /\ Skipped(v, w)
  BY <1>1 DEF Skip, Windowed, SameWalk, SameRefs, Skipped
<1>3. ASSUME w.output + cost > MaxChars
      PROVE  LET v == Stop(w, cost)
             IN  /\ v \in Windowed /\ SameWalk(v, w) /\ v.produced = w.produced + cost
                 /\ Stopped(v, w, cost)
  <2>1. PICK v : v = Stop(w, cost)
    OBVIOUS
  <2>2. v = [w EXCEPT !.produced = w.produced + cost, !.truncated = TRUE, !.next = w.produced]
    BY <2>1 DEF Stop
  <2>3. v \in Windowed
    <3>1. w.produced + cost \in Nat /\ w.produced \in Nat /\ TRUE \in BOOLEAN
      BY <1>1
    <3> QED
      BY <2>2, <3>1, Zenon DEF Windowed
  <2>4. /\ v.produced = w.produced + cost /\ v.truncated /\ v.next = w.produced
        /\ v.output = w.output /\ v.lines = w.lines /\ SameWalk(v, w)
    BY <2>2 DEF Windowed, SameWalk, SameRefs
  <2> QED
    BY <2>1, <2>3, <2>4, <1>3 DEF Stopped
<1>4. LET v == Keep(w, line, cost)
      IN  v \in Windowed /\ SameWalk(v, w) /\ v.produced = w.produced + cost /\ Kept(v, w, line, cost)
  <2>1. PICK v : v = Keep(w, line, cost)
    OBVIOUS
  <2>2. v = [w EXCEPT !.produced = w.produced + cost, !.output = w.output + cost,
                      !.lines = w.lines \union {line}]
    BY <2>1 DEF Keep
  <2>3. v \in Windowed
    <3>1. /\ w.produced + cost \in Nat /\ w.output + cost \in Nat
          /\ w.lines \union {line} \in SUBSET Lines
      BY <1>1
    <3> QED
      BY <2>2, <3>1 DEF Windowed
  <2>4. /\ v.produced = w.produced + cost /\ v.output = w.output + cost
        /\ v.truncated = w.truncated /\ v.next = w.next
        /\ v.lines = w.lines \union {line} /\ SameWalk(v, w)
    BY <2>2 DEF Windowed, SameWalk, SameRefs
  <2> QED
    BY <2>1, <2>3, <2>4 DEF Kept
<1>5. MaxChars \in Nat
  BY LookAssumption
<1>6. CASE Outside(w, cost, offset)
  <2>1. Emit(w, line, len, offset) = Skip(w, cost)
    BY <1>6 DEF Emit, cost
  <2>2. w.produced + cost <= offset
    BY <1>6 DEF Outside
  <2> QED
    BY <2>1, <2>2, <1>1, <1>2 DEF cost
<1>7. CASE ~Outside(w, cost, offset) /\ w.output + cost > MaxChars
  <2>1. Emit(w, line, len, offset) = Stop(w, cost)
    BY <1>7 DEF Emit, cost
  <2>2. w.produced + cost > offset
    BY <1>7, <1>1 DEF Outside
  <2> QED
    BY <2>1, <2>2, <1>1, <1>3, <1>7 DEF cost
<1>8. CASE ~Outside(w, cost, offset) /\ ~(w.output + cost > MaxChars)
  <2>1. Emit(w, line, len, offset) = Keep(w, line, cost)
    BY <1>8 DEF Emit, cost
  <2>2. w.produced + cost > offset
    BY <1>8, <1>1 DEF Outside
  <2> QED
    BY <2>1, <2>2, <1>1, <1>4 DEF cost
<1> QED
  BY <1>6, <1>7, <1>8

LEMMA EmittedFacts ==
    ASSUME NEW w \in Windowed, NEW line \in Lines, NEW len \in Nat, NEW offset \in Nat, NEW query
    PROVE  LET v == Emitted(w, line, len, offset, query)
           IN  v \in Windowed /\ SameWalk(v, w)
<1>1. Emitted(w, line, len, offset, query) \in {w, Emit(w, line, len, offset)}
  BY DEF Emitted
<1>2. SameWalk(w, w)
  BY DEF SameWalk, SameRefs
<1> QED
  BY <1>1, <1>2, EmitFacts

\* flush: a text that there is takes the last marker away, nothing else.
LEMMA FlushFacts ==
    ASSUME NEW w \in Windowed, NEW e \in Elements, NEW offset \in Nat, NEW query,
           NEW f, f = Emitted(w, <<e, "text">>, Look[e].text, offset, query),
           NEW u, u = Flush(w, e, offset, query)
    PROVE  /\ f \in Windowed /\ SameWalk(f, w)
           /\ u \in Windowed /\ SameView(u, f) /\ SameRefs(u, w)
           /\ u.link = w.link /\ u.dropped = w.dropped
           /\ u.last = IF Look[e].text > 0 THEN None ELSE w.last
<1>1. f \in Windowed /\ SameWalk(f, w)
  BY LookFacts, EmittedFacts DEF Lines
<1>2. PICK l : l = IF Look[e].text > 0 THEN None ELSE w.last
  OBVIOUS
<1>3. l \in Elements \union {None}
  BY <1>2 DEF Windowed
<1>4. u = [f EXCEPT !.last = l]
  BY <1>1, <1>2 DEF Flush, SameWalk
<1>5. u \in Windowed
  BY <1>1, <1>3, <1>4 DEF Windowed
<1>6. SameView(u, f) /\ SameRefs(u, f) /\ u.link = f.link /\ u.dropped = f.dropped /\ u.last = l
  BY <1>1, <1>4 DEF Windowed, SameView, SameRefs
<1> QED
  BY <1>1, <1>2, <1>5, <1>6 DEF SameWalk, SameRefs

\* The three things a handler may do about an element: leave it out, give it no marker of its
\* own, or emit its line.
LeftOut(x, u, e) ==
    /\ ~IsControl(e) /\ Repeats(u, e)
    /\ SameView(x, u) /\ SameRefs(x, u) /\ x.link = u.link
    /\ x.dropped = u.dropped \union {e}

Repeated(x, u, e) ==
    /\ IsControl(e) /\ SameLink(u, e)
    /\ SameView(x, u) /\ x.link = u.link /\ x.last = u.last /\ x.dropped = u.dropped
    /\ x.met = u.met \union {e} /\ x.walked = u.walked /\ x.refs = u.refs

Lined(x, u, m, e) ==
    /\ IsControl(e) => ~SameLink(u, e)
    /\ SameView(x, m) /\ x.dropped = u.dropped
    /\ x.link = IF IsControl(e) THEN LinkAfter(e) ELSE u.link
    /\ x.last \in {None, u.last} \/ <<e, "own">> \in m.lines
    /\ ~IsControl(e) => SameRefs(x, u)
    /\ IsControl(e) => /\ x.met = u.met \union {e} /\ x.walked = u.walked \union {e}
                       /\ x.refs \in {u.refs, u.refs \union {<<e, Ordinal(u, e)>>}}

LEMMA MarkerFacts ==
    ASSUME NEW u \in Windowed, NEW e \in Elements, NEW offset \in Nat, NEW query,
           NEW m, m = Own(u, e, offset, query), m \in Windowed, SameWalk(m, u),
           NEW k, k = Marker(u, e, offset, query)
    PROVE  /\ k \in Windowed /\ SameView(k, m) /\ k.dropped = u.dropped /\ k.link = LinkAfter(e)
           /\ k.last = u.last \/ <<e, "own">> \in m.lines
           /\ k.met = u.met /\ k.walked = u.walked \union {e}
           /\ k.refs \in {u.refs, u.refs \union {<<e, Ordinal(u, e)>>}}
<1>1. Ordinal(u, e) \in Nat
  <2>1. {d \in u.met : Look[d].name = Look[e].name} \subseteq Elements
    BY DEF Windowed
  <2> QED
    BY <2>1, Counting DEF Ordinal
<1>2. PICK r, l : /\ r = IF <<e, "own">> \in m.lines THEN u.refs \union {<<e, Ordinal(u, e)>>} ELSE u.refs
                  /\ l = IF <<e, "own">> \in m.lines THEN e ELSE u.last
  OBVIOUS
<1>3. /\ r \in SUBSET (Elements \X Nat) /\ l \in Elements \union {None}
      /\ LinkAfter(e) \in Elements \union {None} /\ u.walked \union {e} \in SUBSET Elements
  <2>1. LinkAfter(e) \in Elements \union {None}
    BY DEF LinkAfter
  <2>2. u.refs \subseteq Elements \X Nat /\ u.last \in Elements \union {None} /\ u.walked \subseteq Elements
    BY DEF Windowed
  <2>3. <<e, Ordinal(u, e)>> \in Elements \X Nat
    BY <1>1
  <2>4. r = u.refs \/ r = u.refs \union {<<e, Ordinal(u, e)>>}
    BY <1>2
  <2>5. l = e \/ l = u.last
    BY <1>2
  <2> QED
    BY <2>1, <2>2, <2>3, <2>4, <2>5
<1>4. k = [m EXCEPT !.walked = u.walked \union {e}, !.refs = r, !.link = LinkAfter(e), !.last = l]
  BY <1>2 DEF Marker, SameWalk, SameRefs
<1>5. k \in Windowed
  BY <1>3, <1>4 DEF Windowed
<1>6. /\ SameView(k, m) /\ k.dropped = m.dropped /\ k.link = LinkAfter(e) /\ k.last = l
      /\ k.met = m.met /\ k.walked = u.walked \union {e} /\ k.refs = r
  BY <1>4 DEF Windowed, SameView
<1> QED
  BY <1>2, <1>5, <1>6 DEF SameWalk, SameRefs

LEMMA ControlFacts ==
    ASSUME NEW u \in Windowed, NEW e \in Elements, IsControl(e), NEW offset \in Nat, NEW query,
           NEW m, m = Own(u, e, offset, query), m \in Windowed, SameWalk(m, u),
           NEW x, x = Control(u, e, offset, query)
    PROVE  x \in Windowed /\ (Repeated(x, u, e) \/ Lined(x, u, m, e))
<1>1. CASE SameLink(u, e)
  <2>1. x = [u EXCEPT !.met = u.met \union {e}]
    BY <1>1 DEF Control
  <2>2. u.met \union {e} \in SUBSET Elements
    BY DEF Windowed
  <2>3. x \in Windowed
    BY <2>1, <2>2 DEF Windowed
  <2>4. Repeated(x, u, e)
    BY <1>1, <2>1 DEF Repeated, SameView, Windowed
  <2> QED
    BY <2>3, <2>4
<1>2. CASE ~SameLink(u, e)
  <2>1. PICK k : k = Marker(u, e, offset, query)
    OBVIOUS
  <2>2. /\ k \in Windowed /\ SameView(k, m) /\ k.dropped = u.dropped /\ k.link = LinkAfter(e)
        /\ k.last = u.last \/ <<e, "own">> \in m.lines
        /\ k.met = u.met /\ k.walked = u.walked \union {e}
        /\ k.refs \in {u.refs, u.refs \union {<<e, Ordinal(u, e)>>}}
    BY <2>1, MarkerFacts
  <2>3. x = [k EXCEPT !.met = k.met \union {e}]
    BY <1>2, <2>1 DEF Control
  <2>4. k.met \union {e} \in SUBSET Elements
    BY <2>2 DEF Windowed
  <2>5. x \in Windowed
    BY <2>2, <2>3, <2>4 DEF Windowed
  <2>6. /\ SameView(x, k) /\ x.dropped = k.dropped /\ x.link = k.link /\ x.last = k.last
        /\ x.met = k.met \union {e} /\ x.walked = k.walked /\ x.refs = k.refs
    BY <2>2, <2>3 DEF Windowed, SameView
  <2>7. SameView(x, m)
    BY <2>2, <2>6 DEF SameView
  <2>8. Lined(x, u, m, e)
    BY <1>2, <2>2, <2>6, <2>7 DEF Lined
  <2> QED
    BY <2>5, <2>8
<1> QED
  BY <1>1, <1>2

LEMMA HeadingFacts ==
    ASSUME NEW u \in Windowed, NEW e \in Elements, ~IsControl(e), NEW offset \in Nat, NEW query,
           NEW m, m = Own(u, e, offset, query), m \in Windowed, SameWalk(m, u),
           NEW x, x = Heading(u, e, offset, query)
    PROVE  x \in Windowed /\ (LeftOut(x, u, e) \/ Lined(x, u, m, e))
<1>1. CASE Repeats(u, e)
  <2>1. x = [[u EXCEPT !.dropped = u.dropped \union {e}] EXCEPT !.last = None]
    BY <1>1 DEF Heading, LeaveOut
  <2>2. u.dropped \union {e} \in SUBSET Elements
    BY DEF Windowed
  <2>3. x \in Windowed
    BY <2>1, <2>2 DEF Windowed
  <2>4. LeftOut(x, u, e)
    BY <1>1, <2>1 DEF LeftOut, SameView, SameRefs, Windowed
  <2> QED
    BY <2>3, <2>4
<1>2. CASE ~Repeats(u, e)
  <2>1. x = [m EXCEPT !.last = None]
    BY <1>2 DEF Heading
  <2>2. x \in Windowed
    BY <2>1 DEF Windowed
  <2>3. SameView(x, m) /\ SameRefs(x, m) /\ x.dropped = m.dropped /\ x.link = m.link /\ x.last = None
    BY <2>1 DEF SameView, SameRefs, Windowed
  <2>4. Lined(x, u, m, e)
    BY <2>3 DEF Lined, SameWalk, SameRefs
  <2> QED
    BY <2>2, <2>4
<1> QED
  BY <1>1, <1>2

LEMMA HandleFacts ==
    ASSUME NEW u \in Windowed, NEW e \in Elements, NEW offset \in Nat, NEW query,
           NEW m, m = Own(u, e, offset, query), NEW x, x = Handle(u, e, offset, query)
    PROVE  /\ x \in Windowed /\ m \in Windowed /\ SameWalk(m, u)
           /\ LeftOut(x, u, e) \/ Repeated(x, u, e) \/ Lined(x, u, m, e)
<1>1. m \in Windowed /\ SameWalk(m, u)
  BY LookFacts, EmittedFacts DEF Lines, Own
<1>2. \/ Look[e].kind = "control" \/ Look[e].kind = "heading"
      \/ Look[e].kind = "frame" \/ Look[e].kind = "text"
  BY LookAssumption
<1>3. SameView(m, m) /\ SameView(u, u) /\ SameRefs(u, u)
  BY DEF SameView, SameRefs
<1>4. CASE Look[e].kind = "control"
  <2>1. x = Control(u, e, offset, query) /\ IsControl(e)
    BY <1>4 DEF Handle, IsControl
  <2> QED
    BY <1>1, <2>1, ControlFacts
<1>5. CASE Look[e].kind = "heading"
  <2>1. x = Heading(u, e, offset, query) /\ ~IsControl(e)
    BY <1>5 DEF Handle, IsControl
  <2> QED
    BY <1>1, <2>1, HeadingFacts
<1>6. CASE Look[e].kind = "frame"
  <2>1. x = m /\ ~IsControl(e)
    BY <1>6 DEF Handle, IsControl
  <2>2. Lined(x, u, m, e)
    BY <1>1, <1>3, <2>1 DEF Lined, SameWalk
  <2> QED
    BY <1>1, <2>1, <2>2
<1>7. CASE Look[e].kind = "text"
  <2>1. x = u /\ ~IsControl(e) /\ Look[e].own = 0
    BY <1>7, LookAssumption DEF Handle, IsControl
  <2>2. m = u
    BY <2>1 DEF Own, Emitted
  <2>3. Lined(x, u, m, e)
    BY <1>3, <2>1, <2>2 DEF Lined
  <2> QED
    BY <1>1, <2>1, <2>3
<1> QED
  BY <1>2, <1>4, <1>5, <1>6, <1>7

\* Visiting an element: a control that is not left out is met; it may be walked and referred to.
Visited(v, w, e) ==
    /\ v \in Windowed
    /\ w.truncated => v = w
    /\ v.dropped = w.dropped \/ (~w.truncated /\ v.dropped = w.dropped \union {e})
    /\ ~w.truncated => \/ IsControl(e) /\ v.dropped = w.dropped /\ v.met = w.met \union {e}
                       \/ (~IsControl(e) \/ e \in v.dropped) /\ v.met = w.met
    /\ v.walked = w.walked \/ (IsControl(e) /\ v.walked = w.walked \union {e})
    /\ \/ v.refs = w.refs
       \/ /\ IsControl(e) /\ ~w.truncated /\ e \in v.walked /\ v.dropped = w.dropped
          /\ v.refs = w.refs \union {<<e, Ordinal(w, e)>>}

LEMMA LeaveOutFacts ==
    ASSUME NEW w \in Windowed, NEW e \in Elements, NEW v, v = LeaveOut(w, e)
    PROVE  /\ v \in Windowed /\ SameView(v, w) /\ SameRefs(v, w)
           /\ v.dropped = w.dropped \union {e}
<1>1. w.dropped \union {e} \in SUBSET Elements
  BY DEF Windowed
<1> QED
  BY <1>1 DEF LeaveOut, Windowed, SameView, SameRefs

LEMMA VisitFacts ==
    ASSUME NEW w \in Windowed, NEW e \in Elements, NEW offset \in Nat, NEW query
    PROVE  Visited(Visit(w, e, offset, query), w, e)
<1>1. PICK v : v = Visit(w, e, offset, query)
  OBVIOUS
<1>2. CASE w.truncated
  BY <1>1, <1>2 DEF Visit, Visited
<1>3. CASE ~w.truncated /\ Look[e].within \in w.dropped
  <2>1. v = LeaveOut(w, e)
    BY <1>1, <1>3 DEF Visit
  <2>2. v \in Windowed /\ SameRefs(v, w) /\ v.dropped = w.dropped \union {e}
    BY <2>1, LeaveOutFacts
  <2>3. Visited(v, w, e)
    BY <1>3, <2>2 DEF Visited, SameRefs
  <2> QED
    BY <1>1, <2>3
<1>4. CASE ~w.truncated /\ Look[e].within \notin w.dropped
  <2>1. PICK f, u : /\ f = Emitted(w, <<e, "text">>, Look[e].text, offset, query)
                    /\ u = Flush(w, e, offset, query)
    OBVIOUS
  <2>2. u \in Windowed /\ SameRefs(u, w) /\ u.dropped = w.dropped
    BY <2>1, FlushFacts
  <2>3. v = Handle(u, e, offset, query)
    BY <1>1, <1>4, <2>1 DEF Visit
  <2>4. PICK m : m = Own(u, e, offset, query)
    OBVIOUS
  <2>5. v \in Windowed /\ (LeftOut(v, u, e) \/ Repeated(v, u, e) \/ Lined(v, u, m, e))
    BY <2>2, <2>3, <2>4, HandleFacts
  <2>6. Ordinal(u, e) = Ordinal(w, e)
    BY <2>2 DEF SameRefs, Ordinal
  <2>7. CASE LeftOut(v, u, e)
    <3>1. /\ ~IsControl(e) /\ v.dropped = w.dropped \union {e}
          /\ v.met = w.met /\ v.walked = w.walked /\ v.refs = w.refs
      BY <2>2, <2>7 DEF LeftOut, SameRefs
    <3>2. Visited(v, w, e)
      BY <1>4, <2>5, <3>1 DEF Visited
    <3> QED
      BY <1>1, <3>2
  <2>8. CASE Repeated(v, u, e)
    <3>1. /\ IsControl(e) /\ v.dropped = w.dropped
          /\ v.met = w.met \union {e} /\ v.walked = w.walked /\ v.refs = w.refs
      BY <2>2, <2>8 DEF Repeated, SameRefs
    <3>2. Visited(v, w, e)
      BY <1>4, <2>5, <3>1 DEF Visited
    <3> QED
      BY <1>1, <3>2
  <2>9. CASE Lined(v, u, m, e)
    <3>1. v.dropped = w.dropped
      BY <2>2, <2>9 DEF Lined
    <3>2. CASE IsControl(e)
      <4>1. /\ v.met = w.met \union {e} /\ v.walked = w.walked \union {e}
            /\ v.refs \in {w.refs, w.refs \union {<<e, Ordinal(w, e)>>}}
        BY <2>2, <2>6, <2>9, <3>2 DEF Lined, SameRefs
      <4>2. Visited(v, w, e)
        BY <1>4, <2>5, <3>1, <3>2, <4>1 DEF Visited
      <4> QED
        BY <1>1, <4>2
    <3>3. CASE ~IsControl(e)
      <4>1. v.met = w.met /\ v.walked = w.walked /\ v.refs = w.refs
        BY <2>2, <2>9, <3>3 DEF Lined, SameRefs
      <4>2. Visited(v, w, e)
        BY <1>4, <2>5, <3>1, <3>3, <4>1 DEF Visited
      <4> QED
        BY <1>1, <4>2
    <3> QED
      BY <3>2, <3>3
  <2> QED
    BY <2>5, <2>7, <2>8, <2>9
<1> QED
  BY <1>2, <1>3, <1>4

\* What the recursive definition of the walk says.
IsWalk(w, on, mode, offset, query) ==
    /\ w \in [0..Len(Order) -> Windowed]
    /\ w[0] = NoWindow
    /\ \A i \in 1..Len(Order) :
         w[i] = IF Order[i] \notin Walked(on, mode) THEN w[i - 1]
                ELSE Visit(w[i - 1], Order[i], offset, query)

LEMMA WalkFacts ==
    ASSUME NEW on, NEW mode, NEW offset \in Nat, NEW query
    PROVE  IsWalk(Walk(on, mode, offset, query), on, mode, offset, query)
<1> DEFINE After(v, i) == IF Order[i] \notin Walked(on, mode) THEN v
                          ELSE Visit(v, Order[i], offset, query)
<1> DEFINE Step == [p \in Windowed \X (1..Len(Order)) |-> After(p[1], p[2])]
<1> DEFINE Body(g) == [i \in 0..Len(Order) |->
                         IF i = 0 THEN NoWindow
                         ELSE IF Order[i] \notin Walked(on, mode) THEN g[i - 1]
                         ELSE Visit(g[i - 1], Order[i], offset, query)]
<1>1. NoWindow \in Windowed
  BY DEF NoWindow, Windowed
<1>2. \A v \in Windowed, i \in 1..Len(Order) : After(v, i) \in Windowed
  BY VisitFacts, OrderFacts DEF Visited
<1>3. Step \in [Windowed \X (1..Len(Order)) -> Windowed]
  BY <1>2
<1>4. \A v \in Windowed, i \in 1..Len(Order) : Step[<<v, i>>] = After(v, i)
  OBVIOUS
<1>5. PICK g \in [0..Len(Order) -> Windowed] : Iterates(g, NoWindow, Len(Order), Step)
  <2>1. Len(Order) \in Nat
    BY OrderFacts
  <2> HIDE DEF Step
  <2> QED
    BY <1>1, <1>3, <2>1, Iteration
<1>6. \A i \in 1..Len(Order) : i - 1 \in 0..Len(Order) /\ i # 0 /\ i \in 0..Len(Order)
  BY OrderFacts
<1>7. \A i \in 1..Len(Order) : g[i] = After(g[i - 1], i)
  <2> HIDE DEF Step, After
  <2> QED
    BY <1>4, <1>5, <1>6 DEF Iterates
<1>8. g = Body(g)
  <2>1. \A i \in 0..Len(Order) : i = 0 \/ i \in 1..Len(Order)
    BY OrderFacts
  <2>2. \A i \in 0..Len(Order) : g[i] = Body(g)[i]
    BY <1>5, <1>6, <1>7, <2>1 DEF Iterates
  <2>3. g = [i \in 0..Len(Order) |-> g[i]]
    BY <1>5
  <2> QED
    BY <2>2, <2>3
<1>9. PICK w : w = Walk(on, mode, offset, query)
  OBVIOUS
<1>10. w = Body(w)
  BY <1>8, <1>9 DEF Walk
<1>11. 0 \in 0..Len(Order)
  BY OrderFacts
<1>12. w[0] = NoWindow /\ \A i \in 1..Len(Order) : w[i] = After(w[i - 1], i)
  BY <1>6, <1>10, <1>11
<1>13. \A i \in 0..Len(Order) : w[i] \in Windowed
  <2> DEFINE G == {i \in Nat : w[i] \in Windowed}
  <2>1. 0 \in G
    BY <1>1, <1>12
  <2>2. \A i \in 1..Len(Order) : i - 1 \in G => i \in G
    <3> HIDE DEF After
    <3> QED
      BY <1>2, <1>12
  <2> HIDE DEF G
  <2>3. 0..Len(Order) \subseteq G
    BY <2>1, <2>2, OrderFacts, UpTo
  <2> QED
    BY <2>3 DEF G
<1>14. w \in [0..Len(Order) -> Windowed]
  BY <1>10, <1>13
<1> QED
  BY <1>9, <1>12, <1>14 DEF IsWalk

\* What the walk has met before it reaches the i-th element.
Controls(on, mode) == {e \in Walked(on, mode) : IsControl(e)}
NamedLike(on, mode, e) == {d \in Controls(on, mode) : Look[d].name = Look[e].name}
Upto(i) == {Order[j] : j \in 1..i}

\* The references of a window, as the walk of a page counts them: what it leaves out is not met.
CountedLike(w, on, mode, e) == NamedLike(on, mode, e) \ w.dropped

RefsCount(w, on, mode) ==
    /\ w.walked \subseteq Controls(on, mode)
    /\ \A ref \in w.refs :
         /\ ref[1] \in w.walked
         /\ ref[2] = Cardinality({d \in CountedLike(w, on, mode, ref[1]) : Before(d, ref[1])})

\* With no query a window begins at its offset, with one at the start of the page.
NoQuery == ""

LEMMA WindowIsWalk ==
    ASSUME NEW on, NEW mode, NEW offset \in Nat, NEW query
    PROVE  /\ Window(on, mode, offset, NoQuery) = Walk(on, mode, offset, NoQuery)[Len(Order)]
           /\ \E o \in Nat : Window(on, mode, offset, query) = Walk(on, mode, o, query)[Len(Order)]
<1>1. Window(on, mode, offset, NoQuery) = Walk(on, mode, offset, NoQuery)[Len(Order)]
  BY Zenon DEF Window, NoQuery
<1>2. Window(on, mode, offset, query)
        = Walk(on, mode, IF query = NoQuery THEN offset ELSE 0, query)[Len(Order)]
  BY Zenon DEF Window, NoQuery
<1>3. (IF query = NoQuery THEN offset ELSE 0) \in Nat
  OBVIOUS
<1> QED
  BY <1>1, <1>2, <1>3

\* The ordinal of a reference is the number of controls of its name before it on the walk.
LEMMA WindowRefs ==
    ASSUME NEW on \in SUBSET Elements, NEW mode, NEW offset \in Nat, NEW query
    PROVE  LET w == Window(on, mode, offset, query)
           IN  w \in Windowed /\ RefsCount(w, on, mode)
<1>0. PICK o \in Nat : Window(on, mode, offset, query) = Walk(on, mode, o, query)[Len(Order)]
  BY WindowIsWalk
<1>1. PICK w : w = Walk(on, mode, o, query)
  OBVIOUS
<1>2. /\ w \in [0..Len(Order) -> Windowed]
      /\ w[0] = NoWindow
      /\ \A i \in 1..Len(Order) :
           w[i] = IF Order[i] \notin Walked(on, mode) THEN w[i - 1]
                  ELSE Visit(w[i - 1], Order[i], o, query)
  <2>1. IsWalk(w, on, mode, o, query)
    BY <1>1, WalkFacts
  <2> QED
    BY <2>1 DEF IsWalk
<1> DEFINE Met(i) == /\ w[i].dropped \subseteq Upto(i) /\ w[i].walked \subseteq Upto(i)
                     /\ ~w[i].truncated =>
                          w[i].met = (Controls(on, mode) \ w[i].dropped) \intersect Upto(i)
<1> DEFINE G == {i \in Nat : Met(i) /\ RefsCount(w[i], on, mode)}
<1>3. 0 \in G
  <2>1. Upto(0) = {}
    BY DEF Upto
  <2> QED
    BY <1>2, <2>1 DEF NoWindow, RefsCount
<1>4. ASSUME NEW i \in 1..Len(Order), i - 1 \in G
      PROVE  i \in G
  <2>1. i \in Nat /\ i - 1 \in 0..Len(Order) /\ i \in 0..Len(Order) /\ Order[i] \in Elements
    BY OrderFacts
  <2>2. Upto(i) = Upto(i - 1) \union {Order[i]}
    BY <2>1 DEF Upto
  <2>3. PICK e : e = Order[i]
    OBVIOUS
  <2>4. PICK v \in Windowed : v = w[i - 1]
    BY <1>2, <2>1
  <2>5. Met(i - 1) /\ RefsCount(v, on, mode)
    BY <1>4, <2>4
  <2>6. e \notin Upto(i - 1) /\ \A d \in Elements : d \in Upto(i - 1) <=> Before(d, e)
    <3>1. ASSUME NEW d \in Elements, d \in Upto(i - 1)
          PROVE  Before(d, e)
      <4>1. PICK j \in 1..(i - 1) : d = Order[j]
        BY <3>1 DEF Upto
      <4> QED
        BY <2>1, <2>3, <4>1, OrderFacts DEF Before, Positions
    <3>2. ASSUME NEW d \in Elements, Before(d, e)
          PROVE  d \in Upto(i - 1)
      <4>1. PICK j, k \in Positions : j < k /\ Order[j] = d /\ Order[k] = e
        BY <3>2 DEF Before, Positions
      <4>2. k = i /\ j \in 1..(i - 1)
        BY <2>1, <2>3, <4>1, OrderFacts
      <4> QED
        BY <4>1, <4>2 DEF Upto
    <3> QED
      BY <2>1, <2>3, <3>1, <3>2, BeforeIsAnOrder
  <2>7. CASE e \notin Walked(on, mode)
    <3>1. w[i] = v
      BY <1>2, <2>3, <2>4, <2>7
    <3>2. (Controls(on, mode) \ v.dropped) \intersect Upto(i)
            = (Controls(on, mode) \ v.dropped) \intersect Upto(i - 1)
      BY <2>2, <2>3, <2>7 DEF Controls
    <3> QED
      BY <2>1, <2>2, <2>4, <2>5, <3>1, <3>2
  <2>8. CASE e \in Walked(on, mode)
    <3>1. PICK x : x = w[i]
      OBVIOUS
    <3>2. x = Visit(v, e, o, query)
      BY <1>2, <2>3, <2>4, <2>8, <3>1
    <3>3. Visited(x, v, e)
      BY <2>1, <2>3, <3>2, VisitFacts
    <3>4. CASE v.truncated
      <4>1. x = v
        BY <3>3, <3>4 DEF Visited
      <4> QED
        BY <2>1, <2>2, <2>4, <2>5, <3>1, <3>4, <4>1
    <3>5. CASE ~v.truncated
      <4>1. v.met = (Controls(on, mode) \ v.dropped) \intersect Upto(i - 1)
        BY <2>4, <2>5, <3>5
      <4>2. /\ v.dropped \subseteq Upto(i - 1) /\ v.walked \subseteq Upto(i - 1)
            /\ v.walked \subseteq Controls(on, mode)
        BY <2>4, <2>5 DEF RefsCount
      <4>3. /\ x.dropped \subseteq Upto(i) /\ x.walked \subseteq Upto(i)
            /\ x.walked \subseteq Controls(on, mode) /\ v.walked \subseteq x.walked
        BY <2>2, <2>3, <2>8, <3>3, <4>2 DEF Controls, Visited
      <4>4. x.met = (Controls(on, mode) \ x.dropped) \intersect Upto(i)
        <5>1. e \in Controls(on, mode) <=> IsControl(e)
          BY <2>8 DEF Controls
        <5>2. CASE IsControl(e) /\ x.dropped = v.dropped /\ x.met = v.met \union {e}
          BY <2>2, <2>3, <2>6, <4>1, <4>2, <5>1, <5>2
        <5>3. CASE (~IsControl(e) \/ e \in x.dropped) /\ x.met = v.met
          <6>1. x.dropped = v.dropped \/ x.dropped = v.dropped \union {e}
            BY <3>3 DEF Visited
          <6> QED
            BY <2>2, <2>3, <2>6, <4>1, <4>2, <5>1, <5>3, <6>1
        <5> QED
          BY <3>3, <3>5, <5>2, <5>3 DEF Visited
      <4>5. \A d \in Controls(on, mode) : d \in Elements
        BY DEF Controls, Walked
      <4>6. ASSUME NEW r \in v.walked
            PROVE  {d \in CountedLike(x, on, mode, r) : Before(d, r)}
                     = {d \in CountedLike(v, on, mode, r) : Before(d, r)}
        <5>1. r \in Elements /\ Before(r, e)
          BY <2>6, <4>2, <4>5
        <5>2. ~Before(e, r)
          BY <2>1, <2>3, <5>1, BeforeIsAnOrder
        <5>3. x.dropped = v.dropped \/ x.dropped = v.dropped \union {e}
          BY <3>3 DEF Visited
        <5> QED
          BY <5>2, <5>3 DEF CountedLike
      <4>7. ASSUME x.dropped = v.dropped
            PROVE  Ordinal(v, e) = Cardinality({d \in CountedLike(x, on, mode, e) : Before(d, e)})
        <5>1. {d \in v.met : Look[d].name = Look[e].name}
                = {d \in CountedLike(x, on, mode, e) : Before(d, e)}
          BY <2>6, <4>1, <4>5, <4>7 DEF CountedLike, NamedLike
        <5> QED
          BY <5>1 DEF Ordinal
      <4>8. RefsCount(x, on, mode)
        <5>1. ASSUME NEW ref \in x.refs
              PROVE  /\ ref[1] \in x.walked
                     /\ ref[2] = Cardinality({d \in CountedLike(x, on, mode, ref[1]) : Before(d, ref[1])})
          <6>1. CASE ref \in v.refs
            <7>1. /\ ref[1] \in v.walked
                  /\ ref[2] = Cardinality({d \in CountedLike(v, on, mode, ref[1]) : Before(d, ref[1])})
              BY <2>5, <6>1 DEF RefsCount
            <7> QED
              BY <4>3, <4>6, <7>1
          <6>2. CASE ref \notin v.refs
            <7>1. ref = <<e, Ordinal(v, e)>> /\ e \in x.walked /\ x.dropped = v.dropped
              BY <3>3, <5>1, <6>2 DEF Visited
            <7>2. ref[1] = e /\ ref[2] = Ordinal(v, e)
              BY <7>1
            <7> QED
              BY <7>1, <7>2, <4>7
          <6> QED
            BY <6>1, <6>2
        <5> QED
          BY <4>3, <5>1 DEF RefsCount
      <4> QED
        BY <2>1, <3>1, <4>3, <4>4, <4>8
    <3> QED
      BY <3>4, <3>5
  <2> QED
    BY <2>7, <2>8
<1>5. Len(Order) \in G
  <2>1. Len(Order) \in Nat /\ Len(Order) \in 0..Len(Order)
    BY OrderFacts
  <2>2. \A i \in 1..Len(Order) : i - 1 \in G => i \in G
    BY <1>4
  <2> HIDE DEF G
  <2>3. 0..Len(Order) \subseteq G
    BY <1>3, <2>1, <2>2, UpTo
  <2> QED
    BY <2>1, <2>3
<1>6. Window(on, mode, offset, query) = w[Len(Order)]
  BY <1>0, <1>1
<1> QED
  BY <1>2, <1>5, <1>6

-----------------------------------------------------------------------------
(* The layout of a page *)

AnySpan == [line : Lines, from : Nat, to : Nat]
Laid == [produced : Nat, spans : SUBSET AnySpan, link : Elements \union {None}]

LaidLine(p, q, line) == [line |-> line, from |-> p.produced, to |-> q.produced]

\* A line that is laid begins where the layout ended, and ends behind it.
Adds(q, p, line) ==
    /\ q.produced > p.produced
    /\ q.spans = p.spans \union {LaidLine(p, q, line)}
    /\ LaidLine(p, q, line) \in AnySpan

LEMMA LayFacts ==
    ASSUME NEW p \in Laid, NEW line \in Lines, NEW len \in Nat
    PROVE  LET q == Lay(p, line, len)
           IN  /\ q \in Laid /\ q.link = p.link
               /\ len = 0 => q = p
               /\ len > 0 => q.produced = p.produced + Cost(p, len) /\ Adds(q, p, line)
<1>1. CASE len = 0
  BY <1>1 DEF Lay
<1>2. CASE len > 0
  <2>1. PICK to : to = p.produced + Cost(p, len)
    OBVIOUS
  <2>2. p.produced \in Nat /\ to \in Nat /\ to > p.produced
    BY <1>2, <2>1 DEF Cost, Laid
  <2>3. PICK s : s = [line |-> line, from |-> p.produced, to |-> to]
    OBVIOUS
  <2>4. s \in AnySpan
    BY <2>2, <2>3 DEF AnySpan
  <2>5. PICK q : q = Lay(p, line, len)
    OBVIOUS
  <2>6. q = [p EXCEPT !.produced = to, !.spans = p.spans \union {s}]
    BY <1>2, <2>1, <2>3, <2>5 DEF Lay
  <2>7. p.spans \union {s} \in SUBSET AnySpan
    BY <2>4 DEF Laid
  <2>8. q \in Laid /\ q.produced = to /\ q.spans = p.spans \union {s} /\ q.link = p.link
    BY <2>2, <2>6, <2>7 DEF Laid
  <2>9. s = LaidLine(p, q, line)
    BY <2>3, <2>8 DEF LaidLine
  <2>10. Adds(q, p, line)
    BY <2>2, <2>4, <2>8, <2>9 DEF Adds
  <2> QED
    BY <1>2, <2>1, <2>5, <2>8, <2>10
<1> QED
  BY <1>1, <1>2

LEMMA LayAdds ==
    ASSUME NEW p \in Laid, NEW line \in Lines, NEW len \in Nat, NEW q, q = Lay(p, line, len)
    PROVE  q \in Laid /\ q.link = p.link /\ (q = p \/ Adds(q, p, line))
<1>1. len = 0 \/ len > 0
  OBVIOUS
<1> QED
  BY <1>1, LayFacts

\* The lines of a layout lie one behind the other, each once, and they are finitely many.
WellLaid(p) ==
    /\ \A s \in p.spans : s.from < s.to /\ s.to <= p.produced
    /\ \A c, s \in p.spans : c = s \/ c.to <= s.from \/ s.to <= c.from
    /\ \A c, s \in p.spans : c.line = s.line => c = s
    /\ IsFiniteSet(p.spans)

LEMMA AddsKeeps ==
    ASSUME NEW p \in Laid, WellLaid(p), NEW line \in Lines, \A s \in p.spans : s.line # line,
           NEW q \in Laid, Adds(q, p, line)
    PROVE  /\ WellLaid(q)
           /\ Cardinality(q.spans) \in Nat /\ Cardinality(q.spans) <= Cardinality(p.spans) + 1
<1>1. PICK t : t = LaidLine(p, q, line)
  OBVIOUS
<1>2. /\ t.line = line /\ t.from = p.produced /\ t.to = q.produced
      /\ q.spans = p.spans \union {t} /\ p.produced < q.produced
  BY <1>1 DEF Adds, LaidLine
<1>3. p.produced \in Nat /\ q.produced \in Nat /\ \A s \in p.spans : s.from \in Nat /\ s.to \in Nat
  BY DEF Laid, AnySpan
<1>4. \A s \in q.spans : s.from < s.to /\ s.to <= q.produced
  BY <1>2, <1>3 DEF WellLaid
<1>5. \A c, s \in q.spans : c = s \/ c.to <= s.from \/ s.to <= c.from
  BY <1>2, <1>3 DEF WellLaid
<1>6. \A c, s \in q.spans : c.line = s.line => c = s
  BY <1>2 DEF WellLaid
<1>7. /\ IsFiniteSet(q.spans) /\ Cardinality(q.spans) \in Nat
      /\ Cardinality(q.spans) <= Cardinality(p.spans) + 1
  <2>1. IsFiniteSet(p.spans) /\ Cardinality(p.spans) \in Nat
    BY FS_CardinalityType DEF WellLaid
  <2>2. /\ IsFiniteSet(p.spans \union {t})
        /\ Cardinality(p.spans \union {t}) =
             IF t \in p.spans THEN Cardinality(p.spans) ELSE Cardinality(p.spans) + 1
    BY <2>1, FS_AddElement
  <2> QED
    BY <1>2, <2>1, <2>2
<1> QED
  BY <1>4, <1>5, <1>6, <1>7 DEF WellLaid

\* What laying an element does: its own lines are added behind the others.
LaidOn(q, p, e) ==
    /\ q \in Laid /\ WellLaid(q)
    /\ p.spans \subseteq q.spans /\ p.produced <= q.produced
    /\ \A s \in q.spans \ p.spans : s.line[1] = e /\ s.from >= p.produced
    /\ Cardinality(q.spans) \in Nat /\ Cardinality(q.spans) <= Cardinality(p.spans) + 2

LEMMA LayElementFacts ==
    ASSUME NEW p \in Laid, WellLaid(p), NEW e \in Elements, \A s \in p.spans : s.line[1] # e
    PROVE  LaidOn(LayElement(p, e), p, e)
<1>1. PICK r : r = Lay(p, <<e, "text">>, Look[e].text)
  OBVIOUS
<1>2. PICK q : q = Lay(r, <<e, "own">>, Look[e].own)
  OBVIOUS
<1>3. <<e, "text">> \in Lines /\ <<e, "own">> \in Lines
  BY DEF Lines
<1>4. r \in Laid /\ (r = p \/ Adds(r, p, <<e, "text">>))
  BY <1>1, <1>3, LookFacts, LayAdds
<1>5. q \in Laid /\ (q = r \/ Adds(q, r, <<e, "own">>))
  BY <1>2, <1>3, <1>4, LookFacts, LayAdds
<1>6. Cardinality(p.spans) \in Nat
  BY FS_CardinalityType DEF WellLaid
<1>7. /\ WellLaid(r) /\ Cardinality(r.spans) \in Nat
      /\ Cardinality(r.spans) <= Cardinality(p.spans) + 1
  <2>1. \A s \in p.spans : s.line # <<e, "text">>
    OBVIOUS
  <2> QED
    BY <1>3, <1>4, <1>6, <2>1, AddsKeeps
<1>8. /\ WellLaid(q) /\ Cardinality(q.spans) \in Nat
      /\ Cardinality(q.spans) <= Cardinality(p.spans) + 2
  <2>1. \A s \in r.spans : s.line # <<e, "own">>
    BY <1>4 DEF Adds, LaidLine
  <2>2. CASE q = r
    BY <1>6, <1>7, <2>2
  <2>3. CASE Adds(q, r, <<e, "own">>)
    <3>1. /\ WellLaid(q) /\ Cardinality(q.spans) \in Nat
          /\ Cardinality(q.spans) <= Cardinality(r.spans) + 1
      BY <1>3, <1>4, <1>5, <1>7, <2>1, <2>3, AddsKeeps
    <3> QED
      BY <1>6, <1>7, <3>1
  <2> QED
    BY <1>5, <2>2, <2>3
<1>9. p.produced \in Nat /\ r.produced \in Nat /\ q.produced \in Nat
  BY <1>4, <1>5 DEF Laid
<1>10. /\ p.spans \subseteq r.spans /\ p.produced <= r.produced
       /\ \A s \in r.spans \ p.spans : s.line[1] = e /\ s.from >= p.produced
  BY <1>4, <1>9 DEF Adds, LaidLine
<1>11. /\ r.spans \subseteq q.spans /\ r.produced <= q.produced
       /\ \A s \in q.spans \ r.spans : s.line[1] = e /\ s.from >= r.produced
  BY <1>5, <1>9 DEF Adds, LaidLine
<1>12. LaidOn(r, p, e)
  BY <1>4, <1>6, <1>7, <1>10 DEF LaidOn
<1>13. LaidOn(q, p, e)
  <2>1. \A s \in q.spans : s.from \in Nat
    BY <1>5 DEF Laid, AnySpan
  <2> QED
    BY <1>5, <1>8, <1>9, <1>10, <1>11, <2>1 DEF LaidOn
<1>14. PICK l : l = [q EXCEPT !.link = IF IsControl(e) THEN LinkAfter(e) ELSE q.link]
  OBVIOUS
<1>15. l \in Laid /\ l.spans = q.spans /\ l.produced = q.produced
  <2>1. (IF IsControl(e) THEN LinkAfter(e) ELSE q.link) \in Elements \union {None}
    BY <1>5 DEF LinkAfter, Laid
  <2> QED
    BY <1>5, <1>14, <2>1 DEF Laid
<1>16. LaidOn(l, p, e)
  BY <1>13, <1>15 DEF LaidOn, WellLaid
<1>17. LayElement(p, e) \in {r, l}
  BY <1>1, <1>2, <1>14 DEF LayElement
<1> QED
  BY <1>12, <1>16, <1>17

\* What the recursive definition of the layout says.
LayAfter(p, i, on, mode) == IF Order[i] \notin Walked(on, mode) THEN p ELSE LayElement(p, Order[i])

LayoutAt(p, i) ==
    /\ p \in Laid /\ WellLaid(p)
    /\ \A s \in p.spans : s.line[1] \in Upto(i)
    /\ Cardinality(p.spans) \in Nat /\ Cardinality(p.spans) <= 2 * i

IsLayout(p, on, mode) ==
    /\ p[0] = NoLayout
    /\ \A i \in 1..Len(Order) : p[i] = LayAfter(p[i - 1], i, on, mode)
    /\ \A i \in 0..Len(Order) : LayoutAt(p[i], i)
    /\ \A i \in 1..Len(Order) : LaidOn(p[i], p[i - 1], Order[i])

LEMMA UptoFacts ==
    ASSUME NEW i \in 1..Len(Order)
    PROVE  /\ Order[i] \in Elements /\ Order[i] \notin Upto(i - 1)
           /\ Upto(i) = Upto(i - 1) \union {Order[i]}
<1>1. i \in Nat /\ Len(Order) \in Nat /\ i \in Positions
  BY OrderFacts
<1>2. Upto(i) = Upto(i - 1) \union {Order[i]}
  BY <1>1 DEF Upto
<1>3. ASSUME Order[i] \in Upto(i - 1)
      PROVE  FALSE
  <2>1. PICK j \in 1..(i - 1) : Order[i] = Order[j]
    BY <1>3 DEF Upto
  <2>2. j \in Positions /\ j # i
    BY <1>1, <2>1, OrderFacts
  <2> QED
    BY <1>1, <2>1, <2>2, OrderFacts
<1> QED
  BY <1>1, <1>2, <1>3, OrderFacts

\* Laying the i-th element of the document keeps the layout well laid, and adds two lines at most.
LEMMA LayStep ==
    ASSUME NEW on, NEW mode, NEW i \in 1..Len(Order), NEW p, LayoutAt(p, i - 1)
    PROVE  LayoutAt(LayAfter(p, i, on, mode), i) /\ LaidOn(LayAfter(p, i, on, mode), p, Order[i])
<1>1. Order[i] \in Elements /\ Order[i] \notin Upto(i - 1) /\ Upto(i) = Upto(i - 1) \union {Order[i]}
  BY UptoFacts
<1>2. i \in Nat /\ p \in Laid /\ WellLaid(p) /\ p.produced \in Nat
  BY OrderFacts DEF LayoutAt, Laid
<1>3. Cardinality(p.spans) \in Nat /\ Cardinality(p.spans) <= 2 * (i - 1)
  BY DEF LayoutAt
<1>4. LaidOn(p, p, Order[i])
  BY <1>2, <1>3 DEF LaidOn
<1>5. LaidOn(LayElement(p, Order[i]), p, Order[i])
  <2>1. \A s \in p.spans : s.line[1] # Order[i]
    BY <1>1 DEF LayoutAt
  <2> QED
    BY <1>1, <1>2, <2>1, LayElementFacts
<1>6. PICK q : q = LayAfter(p, i, on, mode)
  OBVIOUS
<1>7. LaidOn(q, p, Order[i])
  BY <1>4, <1>5, <1>6 DEF LayAfter
<1>8. \A s \in q.spans : s.line[1] \in Upto(i)
  BY <1>1, <1>7 DEF LayoutAt, LaidOn
<1>9. Cardinality(q.spans) \in Nat /\ Cardinality(q.spans) <= 2 * i
  BY <1>2, <1>3, <1>7 DEF LaidOn
<1>10. LayoutAt(q, i)
  BY <1>7, <1>8, <1>9 DEF LayoutAt, LaidOn
<1> QED
  BY <1>6, <1>7, <1>10

LEMMA NothingLaid == LayoutAt(NoLayout, 0) /\ NoLayout \in Laid
<1>1. NoLayout \in Laid
  BY DEF NoLayout, Laid
<1>2. NoLayout.spans = {} /\ IsFiniteSet({}) /\ Cardinality({}) = 0
  BY FS_EmptySet DEF NoLayout
<1>3. WellLaid(NoLayout)
  BY <1>2 DEF WellLaid
<1> QED
  BY <1>1, <1>2, <1>3 DEF LayoutAt

LEMMA LayElementType ==
    ASSUME NEW p \in Laid, NEW e \in Elements
    PROVE  LayElement(p, e) \in Laid
<1>1. PICK r : r = Lay(p, <<e, "text">>, Look[e].text)
  OBVIOUS
<1>2. PICK q : q = Lay(r, <<e, "own">>, Look[e].own)
  OBVIOUS
<1>3. <<e, "text">> \in Lines /\ <<e, "own">> \in Lines
  BY DEF Lines
<1>4. r \in Laid
  BY <1>1, <1>3, LookFacts, LayAdds
<1>5. q \in Laid
  BY <1>2, <1>3, <1>4, LookFacts, LayAdds
<1>6. [q EXCEPT !.link = IF IsControl(e) THEN LinkAfter(e) ELSE q.link] \in Laid
  <2>1. (IF IsControl(e) THEN LinkAfter(e) ELSE q.link) \in Elements \union {None}
    BY <1>5 DEF LinkAfter, Laid
  <2> QED
    BY <1>5, <2>1 DEF Laid
<1> QED
  BY <1>1, <1>2, <1>4, <1>6 DEF LayElement

LEMMA LayoutFacts ==
    ASSUME NEW on, NEW mode
    PROVE  IsLayout(Layout(on, mode), on, mode)
<1> DEFINE N == Len(Order)
<1> DEFINE Step == [y \in Laid \X (1..N) |-> LayAfter(y[1], y[2], on, mode)]
<1> DEFINE Body(g) == [i \in 0..Len(Order) |->
                         IF i = 0 THEN NoLayout
                         ELSE IF Order[i] \notin Walked(on, mode) THEN g[i - 1]
                         ELSE LayElement(g[i - 1], Order[i])]
<1>1. N \in Nat
  BY OrderFacts
<1>2. NoLayout \in Laid
  BY NothingLaid
<1>3. \A x \in Laid, i \in 1..N : LayAfter(x, i, on, mode) \in Laid
  BY LayElementType, OrderFacts DEF LayAfter
<1>4. Step \in [Laid \X (1..N) -> Laid]
  BY <1>3
<1>5. \A x \in Laid, i \in 1..N : Step[<<x, i>>] = LayAfter(x, i, on, mode)
  OBVIOUS
<1>6. PICK g \in [0..N -> Laid] : Iterates(g, NoLayout, N, Step)
  <2> HIDE DEF Step, N
  <2> QED
    BY <1>1, <1>2, <1>4, Iteration
<1>7. \A i \in 1..N : i - 1 \in 0..N /\ i # 0 /\ i \in 0..N
  BY <1>1
<1>8. g[0] = NoLayout /\ \A i \in 1..N : g[i] = LayAfter(g[i - 1], i, on, mode)
  <2> HIDE DEF Step, N
  <2> QED
    BY <1>5, <1>6, <1>7 DEF Iterates
<1>9. g = Body(g)
  <2>1. \A i \in 0..N : i = 0 \/ i \in 1..N
    BY <1>1
  <2>2. \A i \in 0..N : g[i] = Body(g)[i]
    BY <1>7, <1>8, <2>1 DEF LayAfter
  <2>3. g = [i \in 0..N |-> g[i]]
    BY <1>6
  <2> QED
    BY <2>2, <2>3
<1>10. PICK p : p = Layout(on, mode)
  OBVIOUS
<1>11. p = Body(p)
  BY <1>9, <1>10 DEF Layout
<1>12. p[0] = NoLayout /\ \A i \in 1..N : p[i] = LayAfter(p[i - 1], i, on, mode)
  <2>1. 0 \in 0..N
    BY <1>1
  <2> QED
    BY <1>7, <1>11, <2>1 DEF LayAfter
<1>13. \A i \in 0..N : LayoutAt(p[i], i)
  <2> DEFINE G == {i \in Nat : LayoutAt(p[i], i)}
  <2>1. 0 \in G
    BY <1>12, NothingLaid
  <2>2. \A i \in 1..N : i - 1 \in G => i \in G
    BY <1>1, <1>12, LayStep
  <2> HIDE DEF G
  <2>3. 0..N \subseteq G
    BY <1>1, <2>1, <2>2, UpTo
  <2> QED
    BY <2>3 DEF G
<1>14. \A i \in 1..N : LaidOn(p[i], p[i - 1], Order[i])
  BY <1>7, <1>12, <1>13, LayStep
<1> QED
  BY <1>10, <1>12, <1>13, <1>14 DEF IsLayout

\* The lines laid further on lie behind those there are, and are those of later elements.
Behind(q, p, i) == /\ p.spans \subseteq q.spans /\ p.produced <= q.produced
                   /\ \A s \in q.spans \ p.spans :
                        s.from >= p.produced /\ \E j \in (i + 1)..Len(Order) : s.line[1] = Order[j]

LEMMA LayoutGrows ==
    ASSUME NEW on, NEW mode, NEW p, IsLayout(p, on, mode), NEW i \in 0..Len(Order)
    PROVE  Behind(p[Len(Order)], p[i], i)
<1> DEFINE N == Len(Order)
<1>1. N \in Nat
  BY OrderFacts
<1>2. \A k \in 0..N : p[k].produced \in Nat /\ \A s \in p[k].spans : s.from \in Nat
  BY DEF IsLayout, LayoutAt, Laid, AnySpan
<1> DEFINE G == {k \in Nat : i <= k => Behind(p[k], p[i], i)}
<1>3. \A k \in 0..N : k = i => k \in G
  BY <1>2 DEF Behind
<1>4. ASSUME NEW k \in 1..N, k - 1 \in G, k > i
      PROVE  k \in G
  <2>1. Behind(p[k - 1], p[i], i)
    BY <1>4
  <2>2. LaidOn(p[k], p[k - 1], Order[k])
    BY DEF IsLayout
  <2>3. /\ p[k].produced \in Nat /\ p[k - 1].produced \in Nat /\ p[i].produced \in Nat
        /\ \A s \in p[k].spans : s.from \in Nat
    BY <1>1, <1>2
  <2>4. k \in (i + 1)..Len(Order)
    BY <1>1, <1>4
  <2> QED
    BY <2>1, <2>2, <2>3, <2>4 DEF Behind, LaidOn
<1>5. 0..N \subseteq G
  <2>1. 0 \in G
    BY <1>1, <1>3
  <2>2. \A k \in 1..N : k - 1 \in G => k \in G
    <3>1. ASSUME NEW k \in 1..N, k < i
          PROVE  k \in G
      BY <1>1, <3>1
    <3> QED
      BY <1>1, <1>3, <1>4, <3>1
  <2> HIDE DEF G
  <2> QED
    BY <1>1, <2>1, <2>2, UpTo
<1>6. N \in G /\ i <= N
  BY <1>1, <1>5
<1> QED
  BY <1>6

-----------------------------------------------------------------------------
(* The walk along the layout *)

InWindow(spans, offset) == {s.line : s \in {t \in spans : t.to > offset}}

\* A window that has room, and left nothing out so far, shows the lines that end behind its offset.
Follows(w, p, offset) ==
    /\ w \in Windowed /\ ~w.truncated /\ w.dropped = {}
    /\ w.produced = p.produced /\ w.link = p.link
    /\ w.lines = InWindow(p.spans, offset)
    /\ w.lines # {} \/ (w.output = 0 /\ w.last = None)

\* The line of length len that p adds to r did not fit: the next window begins with it.
Stuck(w, p, r, line, len, lines, offset) ==
    /\ w \in Windowed /\ w.truncated /\ w.dropped = {}
    /\ w.produced = p.produced /\ w.link = p.link
    /\ w.lines = lines
    /\ w.next = r.produced
    /\ p.produced > offset
    /\ Adds(p, r, line)
    /\ len < MaxChars => lines # {}

LEMMA OutcomeFollows ==
    ASSUME NEW offset \in Nat, NEW w, NEW r \in Laid, Follows(w, r, offset),
           NEW line, NEW len \in Nat, NEW cost \in Nat, cost <= len + 1,
           NEW v \in Windowed, SameWalk(v, w), v.produced = w.produced + cost,
           \/ v.produced <= offset /\ Skipped(v, w)
           \/ v.produced > offset /\ Stopped(v, w, cost)
           \/ v.produced > offset /\ Kept(v, w, line, cost),
           NEW p \in Laid, p.link = r.link, p.produced = v.produced, Adds(p, r, line)
    PROVE  Follows(v, p, offset) \/ Stuck(v, p, r, line, len, w.lines, offset)
<1>1. w.produced \in Nat /\ w.output \in Nat /\ v.produced \in Nat /\ MaxChars \in Nat
  BY LookAssumption DEF Follows, Windowed
<1>2. PICK t : t = LaidLine(r, p, line)
  OBVIOUS
<1>3. p.spans = r.spans \union {t} /\ t.line = line /\ t.to = v.produced
  BY <1>2 DEF Adds, LaidLine
<1>4. v.link = p.link /\ v.produced = p.produced /\ w.produced = r.produced
  BY DEF SameWalk, Follows
<1>5. v.dropped = {} /\ v.last = w.last
  BY DEF SameWalk, Follows
<1>6. CASE v.produced <= offset /\ Skipped(v, w)
  <2>1. ~(t.to > offset)
    BY <1>1, <1>3, <1>6
  <2>2. InWindow(p.spans, offset) = InWindow(r.spans, offset)
    BY <1>3, <2>1 DEF InWindow
  <2>3. Follows(v, p, offset)
    BY <1>4, <1>5, <1>6, <2>2 DEF Follows, Skipped
  <2> QED
    BY <2>3
<1>7. CASE v.produced > offset /\ Stopped(v, w, cost)
  <2>1. ASSUME len < MaxChars
        PROVE  w.lines # {}
    <3>1. w.output + cost > MaxChars
      BY <1>7 DEF Stopped
    <3>2. w.output # 0
      BY <1>1, <2>1, <3>1
    <3> QED
      BY <3>2 DEF Follows
  <2>2. Stuck(v, p, r, line, len, w.lines, offset)
    BY <1>4, <1>5, <1>7, <2>1 DEF Stuck, Stopped
  <2> QED
    BY <2>2
<1>8. CASE v.produced > offset /\ Kept(v, w, line, cost)
  <2>1. InWindow(p.spans, offset) = InWindow(r.spans, offset) \union {line}
    BY <1>3, <1>8 DEF InWindow
  <2>2. v.lines = InWindow(p.spans, offset) /\ v.lines # {} /\ ~v.truncated
    BY <1>8, <2>1 DEF Follows, Kept
  <2>3. Follows(v, p, offset)
    BY <1>4, <1>5, <2>2 DEF Follows
  <2> QED
    BY <2>3
<1> QED
  BY <1>6, <1>7, <1>8

\* Without a query every line that there is is emitted.
LEMMA EmittedAll ==
    ASSUME NEW w, NEW line, NEW len, NEW offset
    PROVE  Emitted(w, line, len, offset, NoQuery) = IF len = 0 THEN w ELSE Emit(w, line, len, offset)
  BY Zenon DEF Emitted, NoQuery

LEMMA EmittedFollows ==
    ASSUME NEW offset \in Nat, NEW w, NEW r \in Laid, Follows(w, r, offset),
           NEW line \in Lines, NEW len \in Nat,
           NEW v, v = Emitted(w, line, len, offset, NoQuery), NEW p, p = Lay(r, line, len)
    PROVE  Follows(v, p, offset) \/ Stuck(v, p, r, line, len, w.lines, offset)
<1>1. w \in Windowed
  BY DEF Follows
<1>2. CASE len = 0
  <2>1. v = w /\ p = r
    BY <1>2, LayFacts, EmittedAll
  <2> QED
    BY <2>1
<1>3. CASE len > 0
  <2>1. v = Emit(w, line, len, offset)
    BY <1>3, EmittedAll
  <2>2. PICK cost : cost = Cost(w, len)
    OBVIOUS
  <2>3. LET u == Emit(w, line, len, offset)
            c == Cost(w, len)
        IN  /\ u \in Windowed /\ SameWalk(u, w)
            /\ c \in Nat /\ c >= len /\ c <= len + 1
            /\ u.produced = w.produced + c
            /\ \/ u.produced <= offset /\ Skipped(u, w)
               \/ u.produced > offset /\ Stopped(u, w, c)
               \/ u.produced > offset /\ Kept(u, w, line, c)
    BY <1>1, EmitFacts
  <2>4. /\ v \in Windowed /\ SameWalk(v, w) /\ cost \in Nat /\ cost <= len + 1
        /\ v.produced = w.produced + cost
        /\ \/ v.produced <= offset /\ Skipped(v, w)
           \/ v.produced > offset /\ Stopped(v, w, cost)
           \/ v.produced > offset /\ Kept(v, w, line, cost)
    BY <2>1, <2>2, <2>3
  <2>5. /\ p \in Laid /\ p.link = r.link /\ Adds(p, r, line)
        /\ p.produced = r.produced + Cost(r, len)
    BY <1>3, LayFacts
  <2>6. p.produced = v.produced
    BY <2>2, <2>4, <2>5 DEF Cost, Follows
  <2> QED
    BY <2>4, <2>5, <2>6, OutcomeFollows
<1> QED
  BY <1>2, <1>3

\* Behind line s, or with the text that its marker was kept ahead of, a window ends.
IsSqueezed(s, w, spans) ==
    s.line[2] = "text" /\ \E m \in spans : m.line = <<s.line[1], "own">> /\ GoesOnAt(m, w)
IsJumped(s, w, spans) ==
    s.line[2] = "own" /\ \E t \in spans : t.line = <<s.line[1], "text">> /\ GoesOnAt(t, w)

\* What a window shows that is cut off: the lines from its offset to the next one's, but for one
\* that is squeezed out, and no others, but for one that is kept ahead of its text.
Cut(w, spans, offset) ==
    /\ w.truncated
    /\ \E c \in spans : w.next = c.from /\ c.to > offset
    /\ \A s \in spans : s.to > offset /\ s.to <= w.next => s.line \in w.lines \/ IsSqueezed(s, w, spans)
    /\ \A line \in w.lines : \E s \in spans : /\ s.line = line /\ s.to > offset
                                              /\ s.to <= w.next \/ IsJumped(s, w, spans)

\* The lines of a part of a layout lie before the others of it.
Within(p, spans) == p.spans \subseteq spans /\ \A s \in spans \ p.spans : s.from >= p.produced

SpansOK(spans) == spans \in SUBSET AnySpan /\ \A s \in spans : s.from < s.to

LEMMA AddsWithin ==
    ASSUME NEW p \in Laid, NEW q \in Laid, NEW line, q = p \/ Adds(q, p, line),
           NEW spans, SpansOK(spans), Within(q, spans)
    PROVE  Within(p, spans)
<1>1. p.produced \in Nat /\ q.produced \in Nat /\ \A s \in spans : s.from \in Nat
  BY DEF Laid, AnySpan, SpansOK
<1>2. CASE q = p
  BY <1>2
<1>3. CASE Adds(q, p, line)
  BY <1>1, <1>3 DEF Adds, LaidLine, Within
<1> QED
  BY <1>2, <1>3

\* The line behind p did not fit: the window shows what lies in it of p, and ends there.
LEMMA CutBefore ==
    ASSUME NEW spans, SpansOK(spans), NEW offset \in Nat, NEW p \in Laid, WellLaid(p),
           Within(p, spans), NEW w, w.truncated, w.lines = InWindow(p.spans, offset),
           w.next = p.produced, NEW c \in spans, c.from = p.produced, c.to > offset
    PROVE  Cut(w, spans, offset)
<1>1. p.produced \in Nat /\ \A s \in spans : s.from \in Nat /\ s.to \in Nat
  BY DEF Laid, AnySpan, SpansOK
<1>2. \A s \in spans : s.to <= w.next => s \in p.spans
  BY <1>1 DEF Within, SpansOK
<1>3. \A s \in spans : s.to > offset /\ s.to <= w.next => s.line \in w.lines
  BY <1>2 DEF InWindow
<1>4. \A line \in w.lines : \E s \in spans : s.line = line /\ s.to > offset /\ s.to <= w.next
  BY DEF InWindow, WellLaid, Within
<1> QED
  BY <1>3, <1>4 DEF Cut

\* Neither the text of e behind p nor its marker did fit: the text is squeezed out.
LEMMA CutBetween ==
    ASSUME NEW spans, SpansOK(spans), NEW offset \in Nat, NEW p \in Laid, WellLaid(p), NEW e,
           NEW r \in Laid, Adds(r, p, <<e, "text">>), NEW q \in Laid, Adds(q, r, <<e, "own">>),
           Within(q, spans), r.produced > offset,
           NEW w, w.truncated, w.lines = InWindow(p.spans, offset), w.next = r.produced
    PROVE  Cut(w, spans, offset)
<1>1. Within(r, spans) /\ Within(p, spans)
  BY AddsWithin
<1>2. PICK t, m : t = LaidLine(p, r, <<e, "text">>) /\ m = LaidLine(r, q, <<e, "own">>)
  OBVIOUS
<1>3. /\ t.line = <<e, "text">> /\ m.line = <<e, "own">>
      /\ t.from = p.produced /\ t.to = r.produced /\ m.from = r.produced /\ m.to = q.produced
  BY <1>2 DEF LaidLine
<1>4. /\ r.spans = p.spans \union {t} /\ q.spans = r.spans \union {m}
      /\ p.produced < r.produced /\ r.produced < q.produced
  BY <1>2 DEF Adds
<1>5. /\ p.produced \in Nat /\ r.produced \in Nat /\ q.produced \in Nat
      /\ \A s \in spans : s.from \in Nat /\ s.to \in Nat /\ s.from < s.to
  BY DEF Laid, AnySpan, SpansOK
<1>6. m \in spans
  BY <1>4 DEF Within
<1>7. m.to > offset /\ w.next = m.from
  BY <1>3, <1>4, <1>5
<1>8. ASSUME NEW s \in spans, s.to > offset, s.to <= w.next
      PROVE  s.line \in w.lines \/ IsSqueezed(s, w, spans)
  <2>1. s \in r.spans
    BY <1>1, <1>5, <1>8 DEF Within
  <2>2. CASE s \in p.spans
    BY <1>8, <2>2 DEF InWindow
  <2>3. CASE s = t
    <3>1. t.line[2] = "text" /\ m.line = <<t.line[1], "own">>
      BY <1>3
    <3> QED
      BY <1>6, <1>7, <2>3, <3>1 DEF IsSqueezed, GoesOnAt
  <2> QED
    BY <1>4, <2>1, <2>2, <2>3
<1>9. ASSUME NEW line \in w.lines
      PROVE  \E s \in spans : s.line = line /\ s.to > offset /\ s.to <= w.next
  <2>1. PICK s \in p.spans : s.line = line /\ s.to > offset
    BY DEF InWindow
  <2>2. s.to <= p.produced /\ s \in spans
    BY <1>1 DEF WellLaid, Within
  <2> QED
    BY <1>4, <1>5, <2>1, <2>2
<1> QED
  BY <1>6, <1>7, <1>8, <1>9 DEF Cut

\* The text of e behind p did not fit, but its marker did: the marker is kept ahead of the text.
LEMMA CutAhead ==
    ASSUME NEW spans, SpansOK(spans), NEW offset \in Nat, NEW p \in Laid, WellLaid(p), NEW e,
           NEW r \in Laid, Adds(r, p, <<e, "text">>), NEW q \in Laid, Adds(q, r, <<e, "own">>),
           Within(q, spans), r.produced > offset,
           NEW w, w.truncated, w.lines = InWindow(p.spans, offset) \union {<<e, "own">>},
           w.next = p.produced
    PROVE  Cut(w, spans, offset)
<1>1. Within(r, spans) /\ Within(p, spans)
  BY AddsWithin
<1>2. PICK t, m : t = LaidLine(p, r, <<e, "text">>) /\ m = LaidLine(r, q, <<e, "own">>)
  OBVIOUS
<1>3. /\ t.line = <<e, "text">> /\ m.line = <<e, "own">>
      /\ t.from = p.produced /\ t.to = r.produced /\ m.from = r.produced /\ m.to = q.produced
  BY <1>2 DEF LaidLine
<1>4. /\ r.spans = p.spans \union {t} /\ q.spans = r.spans \union {m}
      /\ p.produced < r.produced /\ r.produced < q.produced
  BY <1>2 DEF Adds
<1>5. /\ p.produced \in Nat /\ r.produced \in Nat /\ q.produced \in Nat
      /\ \A s \in spans : s.from \in Nat /\ s.to \in Nat /\ s.from < s.to
  BY DEF Laid, AnySpan, SpansOK
<1>6. t \in spans /\ m \in spans
  BY <1>4 DEF Within
<1>7. t.to > offset /\ m.to > offset /\ w.next = t.from
  BY <1>3, <1>4, <1>5
<1>8. ASSUME NEW s \in spans, s.to > offset, s.to <= w.next
      PROVE  s.line \in w.lines
  <2>1. s \in p.spans
    BY <1>1, <1>5, <1>8 DEF Within
  <2> QED
    BY <1>8, <2>1 DEF InWindow
<1>9. ASSUME NEW line \in w.lines
      PROVE  \E s \in spans : s.line = line /\ s.to > offset /\ (s.to <= w.next \/ IsJumped(s, w, spans))
  <2>1. CASE line \in InWindow(p.spans, offset)
    <3>1. PICK s \in p.spans : s.line = line /\ s.to > offset
      BY <2>1 DEF InWindow
    <3>2. s.to <= p.produced /\ s \in spans
      BY <1>1 DEF WellLaid, Within
    <3> QED
      BY <3>1, <3>2
  <2>2. CASE line = <<e, "own">>
    <3>1. m.line[2] = "own" /\ t.line = <<m.line[1], "text">>
      BY <1>3
    <3>2. IsJumped(m, w, spans)
      BY <1>6, <1>7, <3>1 DEF IsJumped, GoesOnAt
    <3> QED
      BY <1>3, <1>6, <1>7, <2>2, <3>2
  <2> QED
    BY <2>1, <2>2
<1> QED
  BY <1>6, <1>7, <1>8, <1>9 DEF Cut

FitsElement(e) == Look[e].text < MaxChars /\ Look[e].own < MaxChars

\* The next window begins further on than this one, by a line at least.
Gains(w, spans, offset) == \E s \in spans : s.to > offset /\ s.to <= w.next

\* A window that is cut off at element e; unless a line of e is too long it gets further.
Ends(x, spans, offset, e) ==
    /\ x \in Windowed /\ x.dropped = {}
    /\ Cut(x, spans, offset)
    /\ FitsElement(e) => Gains(x, spans, offset)

LEMMA LinesGain ==
    ASSUME NEW offset \in Nat, NEW p \in Laid, WellLaid(p), NEW spans, SpansOK(spans),
           Within(p, spans), InWindow(p.spans, offset) # {}, NEW w, w.next = p.produced
    PROVE  Gains(w, spans, offset)
  BY DEF Gains, InWindow, WellLaid, Within

\* The line that is laid behind r found no room.
LEMMA EndsBefore ==
    ASSUME NEW offset \in Nat, NEW e, NEW r \in Laid, WellLaid(r), NEW q \in Laid, NEW line,
           Adds(q, r, line), q.produced > offset, NEW spans, SpansOK(spans), Within(q, spans),
           NEW x \in Windowed, x.dropped = {}, x.truncated,
           x.lines = InWindow(r.spans, offset), x.next = r.produced,
           FitsElement(e) => InWindow(r.spans, offset) # {}
    PROVE  Ends(x, spans, offset, e)
<1>1. Within(r, spans)
  BY AddsWithin
<1>2. PICK c : c = LaidLine(r, q, line)
  OBVIOUS
<1>3. c \in spans /\ c.from = r.produced /\ c.to > offset
  BY <1>2 DEF Adds, LaidLine, Within
<1>4. Cut(x, spans, offset)
  BY <1>1, <1>3, CutBefore
<1>5. FitsElement(e) => Gains(x, spans, offset)
  BY <1>1, LinesGain
<1> QED
  BY <1>4, <1>5 DEF Ends

\* The own line of e, behind a text that found room.
LEMMA OwnFollows ==
    ASSUME NEW offset \in Nat, NEW e \in Elements, NEW r \in Laid, WellLaid(r),
           NEW u, Follows(u, r, offset),
           NEW q0, q0 = Lay(r, <<e, "own">>, Look[e].own),
           NEW q, q \in Laid, q.produced = q0.produced, q.spans = q0.spans,
           NEW spans, SpansOK(spans), Within(q, spans),
           NEW m, m = Own(u, e, offset, NoQuery), NEW x \in Windowed, Lined(x, u, m, e),
           q.link = x.link
    PROVE  Follows(x, q, offset) \/ Ends(x, spans, offset, e)
<1>1. <<e, "own">> \in Lines /\ Look[e].own \in Nat /\ u \in Windowed /\ u.dropped = {}
  BY LookFacts DEF Lines, Follows
<1>2. \/ Follows(m, q0, offset)
      \/ Stuck(m, q0, r, <<e, "own">>, Look[e].own, u.lines, offset)
  BY <1>1, EmittedFollows DEF Own
<1>3. SameView(x, m) /\ x.dropped = {} /\ (x.last \in {None, u.last} \/ <<e, "own">> \in m.lines)
  BY <1>1 DEF Lined
<1>4. q0 \in Laid /\ (q0 = r \/ Adds(q0, r, <<e, "own">>))
  BY <1>1, LayAdds
<1>5. CASE Follows(m, q0, offset)
  <2>1. m.last = u.last
    <3>1. LET v == Emitted(u, <<e, "own">>, Look[e].own, offset, NoQuery)
          IN  v \in Windowed /\ SameWalk(v, u)
      BY <1>1, EmittedFacts
    <3> QED
      BY <3>1 DEF Own, SameWalk
  <2>2. x.lines # {} \/ (x.output = 0 /\ x.last = None)
    BY <1>3, <1>5, <2>1 DEF Follows, SameView
  <2>3. Follows(x, q, offset)
    BY <1>3, <1>5, <2>2 DEF Follows, SameView
  <2> QED
    BY <2>3
<1>6. CASE Stuck(m, q0, r, <<e, "own">>, Look[e].own, u.lines, offset)
  <2>1. Adds(q0, r, <<e, "own">>) /\ q0.produced > offset
        /\ (Look[e].own < MaxChars => u.lines # {})
    BY <1>6 DEF Stuck
  <2>2. Within(q0, spans)
    BY DEF Within
  <2>3. u.lines = InWindow(r.spans, offset)
    BY DEF Follows
  <2>4. x.truncated /\ x.lines = InWindow(r.spans, offset) /\ x.next = r.produced
    BY <1>3, <1>6, <2>3 DEF SameView, Stuck
  <2>5. FitsElement(e) => InWindow(r.spans, offset) # {}
    BY <2>1, <2>3 DEF FitsElement
  <2>6. Ends(x, spans, offset, e)
    BY <1>3, <1>4, <2>1, <2>2, <2>4, <2>5, EndsBefore
  <2> QED
    BY <2>6
<1> QED
  BY <1>2, <1>5, <1>6

\* The own line of e, behind a text that found no room.
LEMMA OwnStuck ==
    ASSUME NEW offset \in Nat, NEW e \in Elements, Look[e].own > 0, NEW p \in Laid, WellLaid(p),
           NEW r \in Laid,
           NEW u, Stuck(u, r, p, <<e, "text">>, Look[e].text, InWindow(p.spans, offset), offset),
           NEW q0, q0 = Lay(r, <<e, "own">>, Look[e].own),
           NEW spans, SpansOK(spans), Within(q0, spans),
           NEW m, m = Own(u, e, offset, NoQuery), NEW x \in Windowed, Lined(x, u, m, e)
    PROVE  Ends(x, spans, offset, e)
<1>1. /\ u \in Windowed /\ u.truncated /\ u.produced = r.produced /\ u.next = p.produced
      /\ u.lines = InWindow(p.spans, offset) /\ r.produced > offset
      /\ Adds(r, p, <<e, "text">>) /\ (Look[e].text < MaxChars => InWindow(p.spans, offset) # {})
  BY DEF Stuck
<1>2. <<e, "own">> \in Lines /\ Look[e].own \in Nat
  BY LookFacts DEF Lines
<1>3. m = Emit(u, <<e, "own">>, Look[e].own, offset)
  BY <1>2, EmittedAll DEF Own
<1>4. PICK cost : cost = Cost(u, Look[e].own)
  OBVIOUS
<1>5. LET v == Emit(u, <<e, "own">>, Look[e].own, offset)
          c == Cost(u, Look[e].own)
      IN  /\ v \in Windowed /\ SameWalk(v, u)
          /\ c \in Nat /\ c >= Look[e].own /\ c <= Look[e].own + 1
          /\ v.produced = u.produced + c
          /\ \/ v.produced <= offset /\ Skipped(v, u)
             \/ v.produced > offset /\ Stopped(v, u, c)
             \/ v.produced > offset /\ Kept(v, u, <<e, "own">>, c)
  BY <1>1, <1>2, EmitFacts
<1>6. /\ cost \in Nat /\ m.produced = u.produced + cost
      /\ \/ m.produced <= offset /\ Skipped(m, u)
         \/ m.produced > offset /\ Stopped(m, u, cost)
         \/ m.produced > offset /\ Kept(m, u, <<e, "own">>, cost)
  BY <1>3, <1>4, <1>5
<1>7. ~(m.produced <= offset)
  <2>1. r.produced \in Nat
    BY DEF Laid
  <2> QED
    BY <1>1, <1>6, <2>1
<1>8. q0 \in Laid /\ Adds(q0, r, <<e, "own">>)
  BY <1>2, LayFacts
<1>9. SameView(x, m) /\ x.dropped = {}
  BY DEF Lined, Stuck
<1>10. CASE Stopped(m, u, cost)
  <2>1. x.truncated /\ x.lines = InWindow(p.spans, offset) /\ x.next = r.produced
    BY <1>1, <1>9, <1>10 DEF Stopped, SameView
  <2>2. Cut(x, spans, offset)
    BY <1>1, <1>8, <2>1, CutBetween
  <2>3. Gains(x, spans, offset)
    <3>1. Within(r, spans)
      BY <1>8, AddsWithin
    <3>2. LaidLine(p, r, <<e, "text">>) \in spans
      BY <1>1, <3>1 DEF Adds, Within
    <3>3. LaidLine(p, r, <<e, "text">>).to = x.next
      BY <2>1 DEF LaidLine
    <3>4. x.next \in Nat
      BY DEF Windowed
    <3> QED
      BY <1>1, <2>1, <3>2, <3>3, <3>4 DEF Gains
  <2> QED
    BY <1>9, <2>2, <2>3 DEF Ends
<1>11. CASE Kept(m, u, <<e, "own">>, cost)
  <2>1. /\ x.truncated /\ x.next = p.produced
        /\ x.lines = InWindow(p.spans, offset) \union {<<e, "own">>}
    BY <1>1, <1>9, <1>11 DEF Kept, SameView
  <2>2. Cut(x, spans, offset)
    BY <1>1, <1>8, <2>1, CutAhead
  <2>3. FitsElement(e) => Gains(x, spans, offset)
    <3>1. Within(r, spans)
      BY <1>8, AddsWithin
    <3>2. Within(p, spans)
      BY <1>1, <3>1, AddsWithin
    <3> QED
      BY <1>1, <2>1, <3>2, LinesGain DEF FitsElement
  <2> QED
    BY <1>9, <2>2, <2>3 DEF Ends
<1> QED
  BY <1>6, <1>7, <1>10, <1>11

\* The heading e is left out, behind the text that lies before it.
DropsAt(x, r, e, offset) ==
    /\ x \in Windowed /\ ~x.truncated /\ x.dropped = {e}
    /\ x.produced = r.produced /\ x.lines = InWindow(r.spans, offset) /\ x.lines # {}

\* r is the layout p, or that with the text of e.
WithText(r, p, e) == r = p \/ Adds(r, p, <<e, "text">>)

Drops(x, p, spans, offset, e) ==
    \E r \in Laid : WellLaid(r) /\ Within(r, spans) /\ WithText(r, p, e) /\ DropsAt(x, r, e, offset)

\* What flushing the text of e makes of a window that follows the layout.
Flushed(u, r, p, e, offset) ==
    \/ Follows(u, r, offset)
    \/ /\ Stuck(u, r, p, <<e, "text">>, Look[e].text, InWindow(p.spans, offset), offset)
       /\ u.last = None

LEMMA FlushFollows ==
    ASSUME NEW offset \in Nat, NEW e \in Elements, NEW p \in Laid, NEW w, Follows(w, p, offset),
           NEW r, r = Lay(p, <<e, "text">>, Look[e].text),
           NEW u, u = Flush(w, e, offset, NoQuery)
    PROVE  Flushed(u, r, p, e, offset)
<1>1. PICK f : f = Emitted(w, <<e, "text">>, Look[e].text, offset, NoQuery)
  OBVIOUS
<1>2. <<e, "text">> \in Lines /\ Look[e].text \in Nat
  BY LookFacts DEF Lines
<1>3. w \in Windowed /\ w.lines = InWindow(p.spans, offset) /\ w.dropped = {}
  BY DEF Follows
<1>4. \/ Follows(f, r, offset)
      \/ Stuck(f, r, p, <<e, "text">>, Look[e].text, InWindow(p.spans, offset), offset)
  BY <1>1, <1>2, <1>3, EmittedFollows
<1>5. /\ f \in Windowed /\ SameWalk(f, w)
      /\ u \in Windowed /\ SameView(u, f) /\ u.link = w.link /\ u.dropped = w.dropped
      /\ u.last = IF Look[e].text > 0 THEN None ELSE w.last
  BY <1>1, <1>3, FlushFacts
<1>6. CASE Follows(f, r, offset)
  <2>1. u.last \in {None, f.last} /\ u.link = f.link /\ u.dropped = {}
    BY <1>3, <1>5 DEF SameWalk
  <2>2. Follows(u, r, offset)
    BY <1>5, <1>6, <2>1 DEF Follows, SameView
  <2> QED
    BY <2>2 DEF Flushed
<1>7. CASE Stuck(f, r, p, <<e, "text">>, Look[e].text, InWindow(p.spans, offset), offset)
  <2>1. Look[e].text > 0
    <3>1. Look[e].text = 0 => r = p
      BY <1>2, LayFacts
    <3>2. Adds(r, p, <<e, "text">>) /\ p.produced \in Nat
      BY <1>7 DEF Stuck, Laid
    <3>3. r # p
      BY <3>2 DEF Adds
    <3> QED
      BY <1>2, <3>1, <3>3
  <2>2. u.link = f.link /\ u.dropped = {} /\ u.last = None
    BY <1>3, <1>5, <2>1 DEF SameWalk
  <2>3. Stuck(u, r, p, <<e, "text">>, Look[e].text, InWindow(p.spans, offset), offset)
    BY <1>5, <1>7, <2>2 DEF Stuck, SameView
  <2> QED
    BY <2>2, <2>3 DEF Flushed
<1> QED
  BY <1>4, <1>6, <1>7

\* A window that shows of e no more than its text.
LEMMA TextOnly ==
    ASSUME NEW offset \in Nat, NEW e \in Elements, NEW p \in Laid, WellLaid(p), NEW r \in Laid,
           NEW u, Flushed(u, r, p, e, offset), NEW spans, SpansOK(spans), Within(r, spans),
           NEW x \in Windowed, SameView(x, u), x.dropped = {}, x.link = u.link,
           x.last \in {None, u.last}
    PROVE  Follows(x, r, offset) \/ Ends(x, spans, offset, e)
<1>1. CASE Follows(u, r, offset)
  <2>1. Follows(x, r, offset)
    BY <1>1 DEF Follows, SameView
  <2> QED
    BY <2>1
<1>2. CASE Stuck(u, r, p, <<e, "text">>, Look[e].text, InWindow(p.spans, offset), offset)
  <2>1. /\ Adds(r, p, <<e, "text">>) /\ r.produced > offset
        /\ x.truncated /\ x.next = p.produced /\ x.lines = InWindow(p.spans, offset)
        /\ Look[e].text < MaxChars => InWindow(p.spans, offset) # {}
    BY <1>2 DEF Stuck, SameView
  <2>2. FitsElement(e) => InWindow(p.spans, offset) # {}
    BY <2>1 DEF FitsElement
  <2> QED
    BY <2>1, <2>2, EndsBefore
<1> QED
  BY <1>1, <1>2 DEF Flushed

\* Visiting an element goes on along the layout, ends the window, or leaves the element out.
LEMMA VisitFollows ==
    ASSUME NEW offset \in Nat, NEW e \in Elements, NEW p \in Laid, WellLaid(p),
           \A s \in p.spans : s.line[1] # e, NEW w, Follows(w, p, offset),
           NEW q, q = LayElement(p, e), NEW spans, SpansOK(spans), Within(q, spans),
           NEW x, x = Visit(w, e, offset, NoQuery)
    PROVE  \/ Follows(x, q, offset) \/ Ends(x, spans, offset, e)
           \/ Drops(x, p, spans, offset, e)
<1>1. PICK u : u = Flush(w, e, offset, NoQuery)
  OBVIOUS
<1>2. PICK r : r = Lay(p, <<e, "text">>, Look[e].text)
  OBVIOUS
<1>3. PICK q0 : q0 = Lay(r, <<e, "own">>, Look[e].own)
  OBVIOUS
<1>4. /\ <<e, "text">> \in Lines /\ Look[e].text \in Nat
      /\ <<e, "own">> \in Lines /\ Look[e].own \in Nat
  BY LookFacts DEF Lines
<1>5. r \in Laid /\ (r = p \/ Adds(r, p, <<e, "text">>))
  BY <1>2, <1>4, LayAdds
<1>6. q0 \in Laid /\ q0.link = r.link /\ (q0 = r \/ Adds(q0, r, <<e, "own">>))
  <2>1. r \in Laid
    BY <1>5
  <2>2. PICK line \in Lines, len \in Nat : line = <<e, "own">> /\ len = Look[e].own
    BY <1>4
  <2>3. q0 = Lay(r, line, len)
    BY <1>3, <2>2
  <2>4. q0 \in Laid /\ q0.link = r.link /\ (q0 = r \/ Adds(q0, r, line))
    BY <2>1, <2>3, LayAdds
  <2> QED
    BY <2>2, <2>4
<1>7. WellLaid(r)
  <2>1. \A s \in p.spans : s.line # <<e, "text">>
    OBVIOUS
  <2> QED
    BY <1>4, <1>5, <2>1, AddsKeeps
<1>8. Flushed(u, r, p, e, offset)
  BY <1>1, <1>2, FlushFollows
<1>9. u \in Windowed /\ u.link = r.link /\ u.dropped = {}
  BY <1>8 DEF Flushed, Follows, Stuck
<1>10. x = Handle(u, e, offset, NoQuery)
  BY <1>1 DEF Visit, Follows
<1>11. PICK m : m = Own(u, e, offset, NoQuery)
  OBVIOUS
<1>12. x \in Windowed /\ (LeftOut(x, u, e) \/ Repeated(x, u, e) \/ Lined(x, u, m, e))
  BY <1>9, <1>10, <1>11, HandleFacts
<1>13. SameLink(r, e) <=> SameLink(u, e)
  BY <1>9 DEF SameLink
<1>14. PICK l : l = IF IsControl(e) THEN LinkAfter(e) ELSE q0.link
  OBVIOUS
<1>15. q = IF IsControl(e) /\ SameLink(u, e) THEN r ELSE [q0 EXCEPT !.link = l]
  BY <1>2, <1>3, <1>13, <1>14 DEF LayElement
<1>16. Within(r, spans)
  <2>1. CASE IsControl(e) /\ SameLink(u, e)
    BY <1>15, <2>1
  <2>2. CASE ~(IsControl(e) /\ SameLink(u, e))
    <3>1. q = [q0 EXCEPT !.link = l]
      BY <1>15, <2>2
    <3>2. q.spans = q0.spans /\ q.produced = q0.produced
      BY <1>6, <3>1 DEF Laid
    <3>3. Within(q0, spans)
      BY <3>2 DEF Within
    <3> QED
      BY <1>5, <1>6, <3>3, AddsWithin
  <2> QED
    BY <2>1, <2>2
<1>17. CASE LeftOut(x, u, e)
  <2>1. u.last # None
    BY <1>17 DEF LeftOut, Repeats
  <2>2. Follows(u, r, offset) /\ u.lines # {}
    BY <1>8, <2>1 DEF Flushed, Follows
  <2>3. SameView(x, u) /\ x.dropped = {e}
    BY <1>9, <1>17 DEF LeftOut
  <2>4. DropsAt(x, r, e, offset)
    BY <1>12, <2>2, <2>3 DEF DropsAt, Follows, SameView
  <2>5. Drops(x, p, spans, offset, e)
    BY <1>5, <1>7, <1>16, <2>4 DEF Drops, WithText
  <2> QED
    BY <2>5
<1>18. CASE Repeated(x, u, e)
  <2>1. /\ q = r /\ SameView(x, u) /\ x.dropped = {} /\ x.link = u.link /\ x.last = u.last
    BY <1>9, <1>15, <1>18 DEF Repeated
  <2> QED
    BY <1>5, <1>8, <1>12, <1>16, <2>1, TextOnly
<1>19. CASE Lined(x, u, m, e)
  <2>1. q = [q0 EXCEPT !.link = l]
    BY <1>15, <1>19 DEF Lined
  <2>2. l \in Elements \union {None}
    BY <1>6, <1>14 DEF Laid, LinkAfter
  <2>3. q \in Laid /\ q.produced = q0.produced /\ q.spans = q0.spans /\ q.link = l
    BY <1>6, <2>1, <2>2 DEF Laid
  <2>4. q.link = x.link
    BY <1>6, <1>9, <1>14, <1>19, <2>3 DEF Lined
  <2>5. CASE Follows(u, r, offset)
    BY <1>3, <1>5, <1>7, <1>11, <1>12, <1>19, <2>3, <2>4, <2>5, OwnFollows
  <2>6. CASE /\ Stuck(u, r, p, <<e, "text">>, Look[e].text, InWindow(p.spans, offset), offset)
             /\ Look[e].own > 0
    <3>1. Within(q0, spans)
      BY <2>3 DEF Within
    <3> QED
      BY <1>3, <1>5, <1>11, <1>12, <1>19, <2>6, <3>1, OwnStuck
  <2>7. CASE Look[e].own = 0
    <3>1. m = u /\ q0 = r
      BY <1>3, <1>4, <1>5, <1>11, <2>7, EmittedAll, LayFacts DEF Own
    <3>2. ~IsControl(e)
      BY <2>7, ControlsHaveLines
    <3>3. q = r
      <4>1. l = r.link
        BY <1>6, <1>14, <3>2
      <4> QED
        BY <1>5, <2>1, <3>1, <4>1 DEF Laid
    <3>4. SameView(x, u) /\ x.dropped = {} /\ x.link = u.link
      BY <1>9, <1>19, <3>1, <3>2 DEF Lined
    <3>5. x.last \in {None, u.last} \/ <<e, "own">> \in u.lines
      BY <1>19, <3>1 DEF Lined
    <3>6. <<e, "own">> \notin u.lines
      <4>1. \A s \in r.spans : s.line # <<e, "own">>
        BY <1>5 DEF Adds, LaidLine
      <4>2. \A s \in p.spans : s.line # <<e, "own">>
        OBVIOUS
      <4>3. u.lines \in {InWindow(r.spans, offset), InWindow(p.spans, offset)}
        BY <1>8 DEF Flushed, Follows, Stuck
      <4> QED
        BY <4>1, <4>2, <4>3 DEF InWindow
    <3> QED
      BY <1>5, <1>8, <1>12, <1>16, <3>3, <3>4, <3>5, <3>6, TextOnly
  <2>8. Look[e].own > 0 \/ Look[e].own = 0
    BY <1>4
  <2> QED
    BY <1>8, <2>5, <2>6, <2>7, <2>8 DEF Flushed
<1> QED
  BY <1>12, <1>17, <1>18, <1>19

-----------------------------------------------------------------------------
(* The walk behind a heading that it left out *)

\* The window has come at least as far as b.
Reaches(w, b) == b <= w.produced /\ (w.truncated => b <= w.next)

\* Going on with e shows further lines of e only, and the window never ends nearer.
Onward(v, w, e) ==
    /\ v \in Windowed
    /\ w.lines \subseteq v.lines /\ \A line \in v.lines \ w.lines : line[1] = e
    /\ w.dropped \subseteq v.dropped
    /\ \A b \in Nat : Reaches(w, b) => Reaches(v, b)

LEMMA StaysOnward ==
    ASSUME NEW w \in Windowed, NEW v \in Windowed, SameView(v, w), w.dropped \subseteq v.dropped, NEW e
    PROVE  Onward(v, w, e)
  BY DEF Onward, SameView, Reaches

LEMMA OnwardComposes ==
    ASSUME NEW w, NEW v, NEW x, NEW e, Onward(v, w, e), Onward(x, v, e)
    PROVE  Onward(x, w, e)
  BY DEF Onward

LEMMA EmittedOnward ==
    ASSUME NEW w \in Windowed, NEW e, NEW line \in Lines, line[1] = e, NEW len \in Nat,
           NEW offset \in Nat, NEW query, NEW v, v = Emitted(w, line, len, offset, query)
    PROVE  Onward(v, w, e)
<1>1. CASE v = w
  BY <1>1 DEF Onward
<1>2. CASE v = Emit(w, line, len, offset)
  <2>1. PICK cost : cost = Cost(w, len)
    OBVIOUS
  <2>2. LET u == Emit(w, line, len, offset)
            c == Cost(w, len)
        IN  /\ u \in Windowed /\ SameWalk(u, w)
            /\ c \in Nat /\ c >= len /\ c <= len + 1
            /\ u.produced = w.produced + c
            /\ \/ u.produced <= offset /\ Skipped(u, w)
               \/ u.produced > offset /\ Stopped(u, w, c)
               \/ u.produced > offset /\ Kept(u, w, line, c)
    BY EmitFacts
  <2>3. /\ v \in Windowed /\ SameWalk(v, w) /\ cost \in Nat /\ v.produced = w.produced + cost
        /\ Skipped(v, w) \/ Stopped(v, w, cost) \/ Kept(v, w, line, cost)
    BY <1>2, <2>1, <2>2
  <2>4. w.produced \in Nat /\ w.next \in Nat
    BY DEF Windowed
  <2>5. v.dropped = w.dropped
    BY <2>3 DEF SameWalk
  <2>6. w.lines \subseteq v.lines /\ \A l \in v.lines \ w.lines : l[1] = e
    BY <2>3 DEF Skipped, Stopped, Kept
  <2>7. ASSUME NEW b \in Nat, Reaches(w, b)
        PROVE  Reaches(v, b)
    <3>1. b <= w.produced /\ b <= v.produced
      BY <2>3, <2>4, <2>7 DEF Reaches
    <3>2. CASE Stopped(v, w, cost)
      BY <3>1, <3>2 DEF Reaches, Stopped
    <3>3. CASE Skipped(v, w) \/ Kept(v, w, line, cost)
      BY <2>7, <3>1, <3>3 DEF Reaches, Skipped, Kept
    <3> QED
      BY <2>3, <3>2, <3>3
  <2> QED
    BY <2>3, <2>5, <2>6, <2>7 DEF Onward
<1> QED
  BY <1>1, <1>2 DEF Emitted

LEMMA VisitOnward ==
    ASSUME NEW w \in Windowed, NEW e \in Elements, NEW offset \in Nat, NEW query,
           NEW x, x = Visit(w, e, offset, query)
    PROVE  Onward(x, w, e)
<1>1. CASE w.truncated
  <2>1. x = w
    BY <1>1 DEF Visit
  <2> QED
    BY <2>1 DEF Onward
<1>2. CASE ~w.truncated /\ Look[e].within \in w.dropped
  <2>1. x = LeaveOut(w, e)
    BY <1>2 DEF Visit
  <2>2. x \in Windowed /\ SameView(x, w) /\ x.dropped = w.dropped \union {e}
    BY <2>1, LeaveOutFacts
  <2> QED
    BY <2>2, StaysOnward
<1>3. CASE ~w.truncated /\ Look[e].within \notin w.dropped
  <2>1. PICK f, u, m : /\ f = Emitted(w, <<e, "text">>, Look[e].text, offset, query)
                       /\ u = Flush(w, e, offset, query)
                       /\ m = Own(u, e, offset, query)
    OBVIOUS
  <2>2. /\ f \in Windowed /\ SameWalk(f, w) /\ u \in Windowed /\ SameView(u, f)
        /\ u.dropped = w.dropped
    BY <2>1, FlushFacts
  <2>3. Onward(f, w, e)
    <3>1. /\ <<e, "text">> \in Lines /\ <<e, "text">>[1] = e /\ Look[e].text \in Nat
      BY LookFacts DEF Lines
    <3> QED
      BY <2>1, <3>1, EmittedOnward
  <2>4. Onward(u, w, e)
    <3>1. f.dropped \subseteq u.dropped
      BY <2>2 DEF SameWalk
    <3> QED
      BY <2>2, <2>3, <3>1, StaysOnward, OnwardComposes
  <2>5. x = Handle(u, e, offset, query)
    BY <1>3, <2>1 DEF Visit
  <2>6. /\ x \in Windowed /\ m \in Windowed /\ SameWalk(m, u)
        /\ LeftOut(x, u, e) \/ Repeated(x, u, e) \/ Lined(x, u, m, e)
    BY <2>1, <2>2, <2>5, HandleFacts
  <2>7. CASE LeftOut(x, u, e) \/ Repeated(x, u, e)
    <3>1. SameView(x, u) /\ u.dropped \subseteq x.dropped
      BY <2>7 DEF LeftOut, Repeated
    <3> QED
      BY <2>2, <2>4, <2>6, <3>1, StaysOnward, OnwardComposes
  <2>8. CASE Lined(x, u, m, e)
    <3>1. Onward(m, u, e)
      <4>1. /\ <<e, "own">> \in Lines /\ <<e, "own">>[1] = e /\ Look[e].own \in Nat
        BY LookFacts DEF Lines
      <4> QED
        BY <2>1, <2>2, <4>1, EmittedOnward DEF Own
    <3>2. SameView(x, m) /\ m.dropped \subseteq x.dropped
      BY <2>6, <2>8 DEF Lined, SameWalk
    <3>3. Onward(x, m, e)
      BY <2>6, <3>2, StaysOnward
    <3> QED
      BY <2>4, <3>1, <3>3, OnwardComposes
  <2> QED
    BY <2>6, <2>7, <2>8
<1> QED
  BY <1>1, <1>2, <1>3

\* From the heading h on, where the layout was r, the window is out of step: all that r has of
\* the window is shown, and what else is shown, or lies behind r, belongs to h or comes after it.
LeftAt(r, h, spans) ==
    /\ r \in Laid /\ WellLaid(r) /\ Within(r, spans) /\ h \in Elements
    /\ \A s \in r.spans : ~Before(h, s.line[1])
    /\ \A s \in spans \ r.spans : ~Before(s.line[1], h)

Strays(w, r, h, spans, offset) ==
    /\ w \in Windowed /\ h \in w.dropped /\ Reaches(w, r.produced)
    /\ InWindow(r.spans, offset) # {} /\ InWindow(r.spans, offset) \subseteq w.lines
    /\ \A line \in w.lines \ InWindow(r.spans, offset) : Before(h, line[1])

Strayed(w, spans, offset) ==
    \E r \in Laid, h \in Elements : LeftAt(r, h, spans) /\ Strays(w, r, h, spans, offset)

LEMMA GoesOnStraying ==
    ASSUME NEW w \in Windowed, NEW r \in Laid, NEW h \in Elements, NEW spans, NEW offset,
           Strays(w, r, h, spans, offset), NEW e, Before(h, e), NEW x, Onward(x, w, e)
    PROVE  Strays(x, r, h, spans, offset)
<1>1. r.produced \in Nat
  BY DEF Laid
<1>2. x \in Windowed /\ h \in x.dropped /\ Reaches(x, r.produced)
  BY <1>1 DEF Strays, Onward
<1>3. \A line \in x.lines \ InWindow(r.spans, offset) : Before(h, line[1])
  BY DEF Strays, Onward
<1> QED
  BY <1>2, <1>3 DEF Strays, Onward

\* What such a window shows of the layout.
LEMMA StrayedFacts ==
    ASSUME NEW spans, SpansOK(spans), NEW offset \in Nat, NEW w \in Windowed,
           Strayed(w, spans, offset), \A c, s \in spans : c.line = s.line => c = s
    PROVE  /\ \A s \in spans : s.to > offset => s.line \in w.lines \/ s.line \in OutOfStep(w)
           /\ \A line \in w.lines : \/ line \in OutOfStep(w)
                                    \/ \E s \in spans : /\ s.line = line /\ s.to > offset
                                                        /\ w.truncated => s.to <= w.next
           /\ \A s \in spans : s.line \in w.lines => s.to > offset
           /\ w.truncated => Gains(w, spans, offset)
           /\ w.truncated => w.next > offset
<1>1. PICK r \in Laid, h \in Elements : LeftAt(r, h, spans) /\ Strays(w, r, h, spans, offset)
  BY DEF Strayed
<1>2. /\ h \in w.dropped /\ r.produced <= w.produced /\ (w.truncated => r.produced <= w.next)
      /\ InWindow(r.spans, offset) # {} /\ InWindow(r.spans, offset) \subseteq w.lines
      /\ \A line \in w.lines \ InWindow(r.spans, offset) : Before(h, line[1])
  BY <1>1 DEF Strays, Reaches
<1>3. /\ r.spans \subseteq spans /\ \A s \in spans \ r.spans : s.from >= r.produced
      /\ \A s \in r.spans : s.to <= r.produced
      /\ \A s \in r.spans : ~Before(h, s.line[1])
      /\ \A s \in spans \ r.spans : ~Before(s.line[1], h)
  BY <1>1 DEF LeftAt, Within, WellLaid
<1>4. /\ r.produced \in Nat /\ w.next \in Nat /\ w.lines \subseteq Lines
      /\ \A s \in spans : s.from \in Nat /\ s.to \in Nat /\ s.from < s.to /\ s.line \in Lines
  BY DEF Laid, Windowed, SpansOK, AnySpan
<1>5. \A line \in Lines : ~Before(line[1], h) => line \in OutOfStep(w)
  BY <1>2 DEF OutOfStep
<1>6. \A line \in Lines : Before(h, line[1]) => ~Before(line[1], h)
  <2>1. \A line \in Lines : line[1] \in Elements
    BY DEF Lines
  <2> QED
    BY <2>1, BeforeIsAnOrder
<1>7. \A s \in r.spans : s.to > offset => s.line \in InWindow(r.spans, offset)
  BY DEF InWindow
<1>8. ASSUME NEW line \in InWindow(r.spans, offset)
      PROVE  \E s \in r.spans : s.line = line /\ s.to > offset
  BY <1>8 DEF InWindow
<1>9. PICK t \in r.spans : t.to > offset
  BY <1>2, <1>8
<1>10. r.produced > offset
  BY <1>3, <1>4, <1>9
<1>11. \A s \in spans : s.to > offset => s.line \in w.lines \/ s.line \in OutOfStep(w)
  BY <1>2, <1>3, <1>4, <1>5, <1>7
<1>12. ASSUME NEW line \in w.lines
       PROVE  \/ line \in OutOfStep(w)
              \/ \E s \in spans : s.line = line /\ s.to > offset /\ (w.truncated => s.to <= w.next)
  <2>1. CASE line \in InWindow(r.spans, offset)
    <3>1. PICK s \in r.spans : s.line = line /\ s.to > offset
      BY <1>8, <2>1
    <3>2. s \in spans /\ (w.truncated => s.to <= w.next)
      BY <1>2, <1>3, <1>4, <3>1
    <3> QED
      BY <3>1, <3>2
  <2>2. CASE line \notin InWindow(r.spans, offset)
    BY <1>2, <1>4, <1>5, <1>6, <2>2
  <2> QED
    BY <2>1, <2>2
<1>13. ASSUME NEW s \in spans, s.line \in w.lines
       PROVE  s.to > offset
  <2>1. CASE s.line \in InWindow(r.spans, offset)
    <3>1. PICK c \in r.spans : c.line = s.line /\ c.to > offset
      BY <1>8, <2>1
    <3>2. c = s
      BY <1>3, <3>1
    <3> QED
      BY <3>1, <3>2
  <2>2. CASE s.line \notin InWindow(r.spans, offset)
    <3>1. s \notin r.spans
      BY <1>2, <1>3, <1>13, <2>2
    <3>2. s.from >= r.produced
      BY <1>3, <3>1
    <3> QED
      BY <1>4, <1>10, <3>2
  <2> QED
    BY <2>1, <2>2
<1>14. w.truncated => Gains(w, spans, offset)
  <2>1. t \in spans /\ (w.truncated => t.to <= w.next)
    BY <1>2, <1>3, <1>4, <1>9
  <2> QED
    BY <1>9, <2>1 DEF Gains
<1>15. w.truncated => w.next > offset
  BY <1>2, <1>4, <1>10
<1> QED
  BY <1>11, <1>12, <1>13, <1>14, <1>15

\* Where a heading is left out.
LEMMA DropsStray ==
    ASSUME NEW i \in 1..Len(Order), NEW p \in Laid, \A s \in p.spans : s.line[1] \in Upto(i - 1),
           NEW e, e = Order[i], NEW spans, SpansOK(spans),
           \A s \in spans \ p.spans : \E j \in i..Len(Order) : s.line[1] = Order[j],
           NEW offset \in Nat, NEW r \in Laid, WellLaid(r), Within(r, spans), WithText(r, p, e),
           NEW x, DropsAt(x, r, e, offset)
    PROVE  LeftAt(r, e, spans) /\ Strays(x, r, e, spans, offset)
<1>1. i \in Nat /\ Len(Order) \in Nat /\ i \in Positions /\ e \in Elements
  BY OrderFacts
<1>2. \A j \in i..Len(Order) : ~Before(Order[j], e)
  <2>1. ASSUME NEW j \in i..Len(Order), Before(Order[j], e)
        PROVE  FALSE
    <3>1. PICK k, l \in Positions : k < l /\ Order[k] = Order[j] /\ Order[l] = e
      BY <2>1 DEF Before, Positions
    <3>2. j \in Positions
      BY <1>1, OrderFacts
    <3>3. k = j /\ l = i
      BY <1>1, <3>1, <3>2, OrderFacts
    <3> QED
      BY <1>1, <3>1, <3>3
  <2> QED
    BY <2>1
<1>3. \A d \in Upto(i - 1) : d \in Elements /\ Before(d, e)
  <2>1. ASSUME NEW d \in Upto(i - 1)
        PROVE  d \in Elements /\ Before(d, e)
    <3>1. PICK j \in 1..(i - 1) : d = Order[j]
      BY DEF Upto
    <3>2. j \in Positions /\ j < i
      BY <1>1, OrderFacts
    <3> QED
      BY <1>1, <3>1, <3>2, OrderFacts DEF Before, Positions
  <2> QED
    BY <2>1
<1>4. p.spans \subseteq r.spans /\ \A s \in r.spans \ p.spans : s.line[1] = e
  BY DEF WithText, Adds, LaidLine
<1>5. \A s \in r.spans : ~Before(e, s.line[1])
  <2>1. \A d \in Upto(i - 1) : ~Before(e, d)
    BY <1>1, <1>3, BeforeIsAnOrder
  <2>2. ~Before(e, e)
    BY <1>1, BeforeIsAnOrder
  <2> QED
    BY <1>4, <2>1, <2>2
<1>6. \A s \in spans \ r.spans : ~Before(s.line[1], e)
  BY <1>2, <1>4
<1>7. LeftAt(r, e, spans)
  BY <1>1, <1>5, <1>6 DEF LeftAt
<1>8. Reaches(x, r.produced)
  BY DEF Reaches, DropsAt, Laid
<1>9. Strays(x, r, e, spans, offset)
  BY <1>8 DEF Strays, DropsAt
<1> QED
  BY <1>7, <1>9

\* What a window shows: all lines behind its offset, or those up to where it is cut off, or it
\* strays; unless a line is too long it is cut off further on than it began.
Whole(w, spans, offset) == ~w.truncated /\ w.lines = InWindow(spans, offset)

Shape(w, on, mode, offset) ==
    /\ w \in Windowed
    /\ \/ Whole(w, Spans(on, mode), offset)
       \/ Cut(w, Spans(on, mode), offset)
       \/ Strayed(w, Spans(on, mode), offset)
    /\ Fits(on, mode) /\ w.truncated => Gains(w, Spans(on, mode), offset)

LEMMA SpansFacts ==
    ASSUME NEW on, NEW mode
    PROVE  LET spans == Spans(on, mode)
           IN  /\ SpansOK(spans)
               /\ \A c, s \in spans : c = s \/ c.to <= s.from \/ s.to <= c.from
               /\ \A c, s \in spans : c.line = s.line => c = s
               /\ IsFiniteSet(spans) /\ Cardinality(spans) \in Nat /\ Cardinality(spans) <= Last
<1>1. PICK p : p = Layout(on, mode)
  OBVIOUS
<1>2. IsLayout(p, on, mode)
  BY <1>1, LayoutFacts
<1>3. Len(Order) \in 0..Len(Order)
  BY OrderFacts
<1>4. LayoutAt(p[Len(Order)], Len(Order))
  BY <1>2, <1>3 DEF IsLayout
<1>5. Spans(on, mode) = p[Len(Order)].spans
  BY <1>1 DEF Spans
<1> QED
  BY <1>4, <1>5 DEF LayoutAt, WellLaid, SpansOK, Laid, Last

LEMMA WindowShape ==
    ASSUME NEW on, NEW mode, NEW offset \in Nat
    PROVE  Shape(Window(on, mode, offset, NoQuery), on, mode, offset)
<1>1. PICK p : p = Layout(on, mode)
  OBVIOUS
<1>2. PICK w : w = Walk(on, mode, offset, NoQuery)
  OBVIOUS
<1>3. IsLayout(p, on, mode) /\ IsWalk(w, on, mode, offset, NoQuery)
  BY <1>1, <1>2, LayoutFacts, WalkFacts
<1>4. PICK spans : spans = Spans(on, mode)
  OBVIOUS
<1>5. /\ SpansOK(spans) /\ spans = p[Len(Order)].spans
      /\ \A c, s \in spans : c.line = s.line => c = s
  BY <1>1, <1>4, SpansFacts DEF Spans
<1>6. \A i \in 0..Len(Order) : Behind(p[Len(Order)], p[i], i)
  BY <1>3, LayoutGrows
<1>7. \A i \in 0..Len(Order) : Within(p[i], spans)
  BY <1>5, <1>6 DEF Behind, Within
<1> DEFINE Ended(v) == v \in Windowed /\ Cut(v, spans, offset)
                         /\ (Fits(on, mode) => Gains(v, spans, offset))
<1> DEFINE Lost(v, i) == \E r \in Laid, h \in Upto(i) : /\ LeftAt(r, h, spans)
                                                        /\ Strays(v, r, h, spans, offset)
<1> DEFINE G == {i \in Nat : Follows(w[i], p[i], offset) \/ Ended(w[i]) \/ Lost(w[i], i)}
<1>8. 0 \in G
  <2>1. w[0] = NoWindow /\ p[0] = NoLayout /\ NoWindow \in Windowed
    BY <1>3 DEF IsWalk, IsLayout, NoWindow, Windowed
  <2>2. Follows(NoWindow, NoLayout, offset)
    BY <2>1 DEF Follows, NoWindow, NoLayout, InWindow
  <2> QED
    BY <2>1, <2>2
<1>9. ASSUME NEW i \in 1..Len(Order), i - 1 \in G
      PROVE  i \in G
  <2>1. i \in Nat /\ i - 1 \in 0..Len(Order) /\ i \in 0..Len(Order) /\ (i - 1) + 1 = i
    BY OrderFacts
  <2>2. /\ Order[i] \in Elements /\ Order[i] \notin Upto(i - 1)
        /\ Upto(i) = Upto(i - 1) \union {Order[i]}
    BY UptoFacts
  <2>3. PICK e : e = Order[i]
    OBVIOUS
  <2>4. PICK v, x : v = w[i - 1] /\ x = w[i]
    OBVIOUS
  <2>5. PICK r, q : r = p[i - 1] /\ q = p[i]
    OBVIOUS
  <2>6. /\ x = IF e \notin Walked(on, mode) THEN v ELSE Visit(v, e, offset, NoQuery)
        /\ q = IF e \notin Walked(on, mode) THEN r ELSE LayElement(r, e)
        /\ v \in Windowed
    BY <1>3, <2>1, <2>3, <2>4, <2>5 DEF IsWalk, IsLayout, LayAfter
  <2>7. Follows(v, r, offset) \/ Ended(v) \/ Lost(v, i - 1)
    BY <1>9, <2>4, <2>5
  <2>8. Lost(x, i) => i \in G
    BY <2>1, <2>4
  <2>9. CASE e \notin Walked(on, mode)
    <3>1. x = v /\ q = r
      BY <2>6, <2>9
    <3>2. Lost(v, i - 1) => Lost(x, i)
      BY <2>2, <3>1
    <3> HIDE DEF Lost, Ended
    <3> QED
      BY <2>1, <2>4, <2>5, <2>7, <3>1, <3>2
  <2>10. CASE e \in Walked(on, mode) /\ Ended(v)
    <3>1. x = v
      BY <2>6, <2>10 DEF Visit, Cut
    <3> QED
      BY <2>1, <2>4, <2>10, <3>1
  <2>11. CASE e \in Walked(on, mode) /\ Follows(v, r, offset)
    <3>1. /\ r \in Laid /\ WellLaid(r)
          /\ \A s \in r.spans : s.line[1] # e /\ s.line[1] \in Upto(i - 1)
      BY <1>3, <2>1, <2>2, <2>3, <2>5 DEF IsLayout, LayoutAt
    <3>2. Within(q, spans)
      BY <1>7, <2>1, <2>5
    <3>3. x = Visit(v, e, offset, NoQuery) /\ q = LayElement(r, e) /\ e \in Elements
      BY <2>2, <2>3, <2>6, <2>11
    <3>4. Follows(x, q, offset) \/ Ends(x, spans, offset, e) \/ Drops(x, r, spans, offset, e)
      BY <1>5, <2>11, <3>1, <3>2, <3>3, VisitFollows
    <3>5. Fits(on, mode) => FitsElement(e)
      BY <2>11 DEF Fits, FitsElement
    <3>6. Ends(x, spans, offset, e) => Ended(x)
      BY <3>5 DEF Ends
    <3>7. Drops(x, r, spans, offset, e) => Lost(x, i)
      <4>1. ASSUME NEW t \in Laid, WellLaid(t), Within(t, spans), WithText(t, r, e),
                   DropsAt(x, t, e, offset)
            PROVE  LeftAt(t, e, spans) /\ Strays(x, t, e, spans, offset)
        <5>1. \A s \in spans \ r.spans : \E j \in i..Len(Order) : s.line[1] = Order[j]
          BY <1>5, <1>6, <2>1, <2>5 DEF Behind
        <5> QED
          BY <1>5, <2>3, <3>1, <4>1, <5>1, DropsStray
      <4>2. e \in Upto(i)
        BY <2>2, <2>3
      <4> QED
        BY <4>1, <4>2 DEF Drops
    <3> HIDE DEF Lost, Ended
    <3> QED
      BY <2>1, <2>4, <2>5, <2>8, <3>4, <3>6, <3>7
  <2>12. CASE e \in Walked(on, mode) /\ Lost(v, i - 1)
    <3>1. PICK t \in Laid, h \in Upto(i - 1) : LeftAt(t, h, spans) /\ Strays(v, t, h, spans, offset)
      BY <2>12
    <3>2. x = Visit(v, e, offset, NoQuery) /\ e \in Elements /\ h \in Elements /\ h \in Upto(i)
      BY <2>2, <2>3, <2>6, <2>12, <3>1 DEF LeftAt
    <3>3. Onward(x, v, e)
      BY <2>6, <3>2, VisitOnward
    <3>4. Before(h, e)
      <4>1. PICK j \in 1..(i - 1) : h = Order[j]
        BY <3>1 DEF Upto
      <4>2. j \in Positions /\ i \in Positions /\ j < i
        BY <2>1, OrderFacts
      <4> QED
        BY <2>3, <4>1, <4>2 DEF Before, Positions
    <3>5. Strays(x, t, h, spans, offset)
      BY <2>6, <3>1, <3>2, <3>3, <3>4, GoesOnStraying
    <3>6. Lost(x, i)
      BY <3>1, <3>2, <3>5
    <3> QED
      BY <2>8, <3>6
  <2> QED
    BY <2>7, <2>9, <2>10, <2>11, <2>12
<1>10. Len(Order) \in G
  <2>1. Len(Order) \in Nat /\ Len(Order) \in 0..Len(Order)
    BY OrderFacts
  <2>2. \A i \in 1..Len(Order) : i - 1 \in G => i \in G
    BY <1>9
  <2> HIDE DEF G
  <2>3. 0..Len(Order) \subseteq G
    BY <1>8, <2>1, <2>2, UpTo
  <2> QED
    BY <2>1, <2>3
<1>11. PICK x : x = Window(on, mode, offset, NoQuery)
  OBVIOUS
<1>12. x = w[Len(Order)] /\ x \in Windowed
  <2>1. Len(Order) \in 0..Len(Order)
    BY OrderFacts
  <2> QED
    BY <1>2, <1>3, <1>11, <2>1, WindowIsWalk DEF IsWalk
<1>13. Follows(x, p[Len(Order)], offset) \/ Ended(x) \/ Lost(x, Len(Order))
  BY <1>10, <1>12
<1>14. CASE Follows(x, p[Len(Order)], offset)
  <2>1. ~x.truncated /\ Whole(x, spans, offset)
    BY <1>5, <1>14 DEF Follows, Whole
  <2> QED
    BY <1>4, <1>11, <1>12, <2>1 DEF Shape
<1>15. CASE Ended(x)
  BY <1>4, <1>11, <1>12, <1>15 DEF Shape
<1>16. CASE Lost(x, Len(Order))
  <2>1. Strayed(x, spans, offset)
    <3>1. PICK t \in Laid, h \in Upto(Len(Order)) :
            LeftAt(t, h, spans) /\ Strays(x, t, h, spans, offset)
      BY <1>16
    <3>2. h \in Elements
      BY <3>1 DEF LeftAt
    <3> QED
      BY <3>1, <3>2 DEF Strayed
  <2>2. x.truncated => Gains(x, spans, offset)
    BY <1>5, <1>12, <2>1, StrayedFacts
  <2> QED
    BY <1>4, <1>11, <1>12, <2>1, <2>2 DEF Shape
<1> QED
  BY <1>13, <1>14, <1>15, <1>16

-----------------------------------------------------------------------------
(* Reading a page window after window *)

\* Each window begins where the one before it was cut off.
ReadingOf(ws, on, mode) ==
    /\ DOMAIN ws = 0..Last /\ Last \in Nat
    /\ ws[0].offset = 0
    /\ \A k \in 0..Last : /\ ws[k].offset \in Nat
                          /\ Shape(ws[k].window, on, mode, ws[k].offset)
    /\ \A k \in 1..Last :
         \/ ~ws[k - 1].window.truncated /\ ws[k] = ws[k - 1]
         \/ ws[k - 1].window.truncated /\ ws[k].offset = ws[k - 1].window.next

WindowAt(on, mode, offset) == [offset |-> offset, window |-> Window(on, mode, offset, NoQuery)]
WindowAfter(v, on, mode) == IF ~v.window.truncated THEN v ELSE WindowAt(on, mode, v.window.next)

LEMMA WindowsFacts ==
    ASSUME NEW on, NEW mode
    PROVE  ReadingOf(Windows(on, mode), on, mode)
<1> DEFINE S == [offset : Nat, window : Windowed]
<1> DEFINE Step == [y \in S \X (1..Last) |-> WindowAfter(y[1], on, mode)]
<1> DEFINE Body(g) == [k \in 0..Last |->
                         IF k = 0 THEN WindowAt(on, mode, 0) ELSE WindowAfter(g[k - 1], on, mode)]
<1>1. Last \in Nat
  BY OrderFacts DEF Last
<1>2. \A offset \in Nat : /\ WindowAt(on, mode, offset) \in S
                          /\ WindowAt(on, mode, offset).offset = offset
                          /\ Shape(WindowAt(on, mode, offset).window, on, mode, offset)
  BY WindowShape DEF WindowAt, Shape
<1>3. \A v \in S : WindowAfter(v, on, mode) \in S
  <2>1. \A v \in S : v.window.next \in Nat
    BY DEF Windowed
  <2> HIDE DEF S
  <2> QED
    BY <1>2, <2>1 DEF WindowAfter
<1>4. WindowAt(on, mode, 0) \in S /\ Step \in [S \X (1..Last) -> S]
  BY <1>2, <1>3
<1>5. \A v \in S, k \in 1..Last : Step[<<v, k>>] = WindowAfter(v, on, mode)
  OBVIOUS
<1>6. PICK g \in [0..Last -> S] : Iterates(g, WindowAt(on, mode, 0), Last, Step)
  <2> HIDE DEF Step, S
  <2> QED
    BY <1>1, <1>4, Iteration
<1>7. \A k \in 1..Last : k - 1 \in 0..Last /\ k # 0 /\ k \in 0..Last
  BY <1>1
<1>8. g[0] = WindowAt(on, mode, 0) /\ \A k \in 1..Last : g[k] = WindowAfter(g[k - 1], on, mode)
  <2> HIDE DEF Step, S
  <2> QED
    BY <1>5, <1>6, <1>7 DEF Iterates
<1>9. g = Body(g)
  <2>1. \A k \in 0..Last : k = 0 \/ k \in 1..Last
    BY <1>1
  <2>2. \A k \in 0..Last : g[k] = Body(g)[k]
    BY <1>7, <1>8, <2>1
  <2>3. g = [k \in 0..Last |-> g[k]]
    BY <1>6
  <2> QED
    BY <2>2, <2>3
<1>10. Windows(on, mode) = [k \in 0..Last |-> (CHOOSE h : h = Body(h))[k]]
  BY Zenon DEF Windows, WindowAt, WindowAfter, NoQuery
<1>11. PICK ws : ws = CHOOSE h : h = Body(h)
  OBVIOUS
<1>12. ws = Body(ws)
  BY <1>9, <1>11
<1>13. 0 \in 0..Last
  BY <1>1
<1>14. /\ DOMAIN ws = 0..Last /\ ws[0] = WindowAt(on, mode, 0)
       /\ \A k \in 1..Last : ws[k] = WindowAfter(ws[k - 1], on, mode)
  BY <1>7, <1>12, <1>13
<1> DEFINE Good(v) == v.offset \in Nat /\ Shape(v.window, on, mode, v.offset)
<1>15. \A v : Good(v) => Good(WindowAfter(v, on, mode))
  <2>1. ASSUME NEW v, Good(v), v.window.truncated
        PROVE  Good(WindowAfter(v, on, mode))
    <3>1. v.window.next \in Nat
      BY <2>1 DEF Shape, Windowed
    <3>2. WindowAfter(v, on, mode) = WindowAt(on, mode, v.window.next)
      BY <2>1 DEF WindowAfter
    <3> QED
      BY <1>2, <3>1, <3>2
  <2> QED
    BY <2>1 DEF WindowAfter
<1>16. \A k \in 0..Last : Good(ws[k])
  <2> DEFINE G == {k \in Nat : Good(ws[k])}
  <2>1. 0 \in G
    BY <1>2, <1>14
  <2>2. \A k \in 1..Last : k - 1 \in G => k \in G
    <3> HIDE DEF Good
    <3> QED
      BY <1>1, <1>14, <1>15
  <2> HIDE DEF G, Good
  <2>3. 0..Last \subseteq G
    BY <1>1, <2>1, <2>2, UpTo
  <2> QED
    BY <2>3 DEF G
<1>17. ws[0].offset = 0
  BY <1>2, <1>14
<1>18. ASSUME NEW k \in 1..Last
       PROVE  \/ ~ws[k - 1].window.truncated /\ ws[k] = ws[k - 1]
              \/ ws[k - 1].window.truncated /\ ws[k].offset = ws[k - 1].window.next
  <2>1. ws[k - 1].window.next \in Nat
    BY <1>7, <1>16 DEF Shape, Windowed
  <2> QED
    BY <1>2, <1>14, <2>1 DEF WindowAfter
<1>19. Windows(on, mode) = ws
  <2>1. ws = [k \in 0..Last |-> ws[k]]
    BY <1>12
  <2>2. Windows(on, mode) = [k \in 0..Last |-> ws[k]]
    <3> HIDE DEF Body
    <3> QED
      BY <1>10, <1>11
  <2> QED
    BY <2>1, <2>2
<1> QED
  BY <1>1, <1>14, <1>16, <1>17, <1>18, <1>19 DEF ReadingOf

\* The next window does not go back behind a line that this one had left behind.
LEMMA ShapeGoesForward ==
    ASSUME NEW on, NEW mode, NEW offset \in Nat, NEW w, Shape(w, on, mode, offset), w.truncated,
           NEW s \in Spans(on, mode), s.to <= offset
    PROVE  s.to <= w.next
<1>1. PICK spans : spans = Spans(on, mode)
  OBVIOUS
<1>2. /\ SpansOK(spans)
      /\ \A c, d \in spans : c = d \/ c.to <= d.from \/ d.to <= c.from
      /\ \A c, d \in spans : c.line = d.line => c = d
  BY <1>1, SpansFacts
<1>3. \A c \in spans : c.from \in Nat /\ c.to \in Nat /\ c.from < c.to
  BY <1>2 DEF SpansOK, AnySpan
<1>4. w \in Windowed /\ w.next \in Nat
  BY DEF Shape, Windowed
<1>5. CASE Cut(w, spans, offset)
  <2>1. PICK c \in spans : w.next = c.from /\ c.to > offset
    BY <1>5 DEF Cut
  <2>2. c # s /\ ~(c.to <= s.from)
    BY <1>1, <1>3, <2>1
  <2> QED
    BY <1>1, <1>2, <2>1, <2>2
<1>6. CASE Strayed(w, spans, offset)
  <2>1. w.next > offset
    BY <1>2, <1>4, <1>6, StrayedFacts
  <2> QED
    BY <1>1, <1>3, <1>4, <2>1
<1> QED
  BY <1>1, <1>5, <1>6 DEF Shape, Whole

\* Reading goes forward: a line that a window has left behind, later ones have left behind.
LEMMA ReadingGoesForward ==
    ASSUME NEW on, NEW mode, NEW ws, ReadingOf(ws, on, mode),
           NEW i \in 0..Last, NEW j \in 0..Last, i <= j,
           NEW s \in Spans(on, mode), s.to <= ws[i].offset
    PROVE  s.to <= ws[j].offset
<1>1. Last \in Nat
  BY DEF ReadingOf
<1>2. ASSUME NEW k \in 1..Last, s.to <= ws[k - 1].offset
      PROVE  s.to <= ws[k].offset
  <2>1. k - 1 \in 0..Last
    BY <1>1
  <2>2. ws[k - 1].offset \in Nat /\ Shape(ws[k - 1].window, on, mode, ws[k - 1].offset)
    BY <2>1 DEF ReadingOf
  <2>3. CASE ~ws[k - 1].window.truncated
    BY <1>2, <2>3 DEF ReadingOf
  <2>4. CASE ws[k - 1].window.truncated
    <3>1. ws[k].offset = ws[k - 1].window.next
      BY <2>4 DEF ReadingOf
    <3> QED
      BY <1>2, <2>2, <2>4, <3>1, ShapeGoesForward
  <2> QED
    BY <2>3, <2>4
<1> DEFINE G == {k \in Nat : i <= k => s.to <= ws[k].offset}
<1>3. \A k \in 0..Last : k <= i => k \in G
  BY <1>1
<1>4. ASSUME NEW k \in 1..Last, k - 1 \in G
      PROVE  k \in G
  <2>1. CASE k <= i
    BY <1>1, <1>3, <2>1
  <2>2. CASE i <= k - 1
    BY <1>1, <1>2, <1>4, <2>2
  <2> QED
    BY <1>1, <2>1, <2>2
<1>5. 0..Last \subseteq G
  <2>1. 0 \in G
    BY <1>1, <1>3
  <2> HIDE DEF G
  <2> QED
    BY <1>1, <1>4, <2>1, UpTo
<1>6. j \in G
  BY <1>5
<1> QED
  BY <1>6

\* Once a window is not cut off, the reading is at its end.
LEMMA ReadingStops ==
    ASSUME NEW on, NEW mode, NEW ws, ReadingOf(ws, on, mode), NEW i \in 0..Last, NEW j \in 0..Last,
           i <= j, ~ws[i].window.truncated
    PROVE  ws[j] = ws[i]
<1> DEFINE G == {k \in Nat : i <= k => ws[k] = ws[i]}
<1>1. Last \in Nat
  BY DEF ReadingOf
<1>2. \A k \in 0..Last : k <= i => k \in G
  BY <1>1
<1>3. ASSUME NEW k \in 1..Last, k - 1 \in G
      PROVE  k \in G
  <2>1. CASE k <= i
    BY <1>1, <1>2, <2>1
  <2>2. CASE i <= k - 1
    <3>1. ws[k - 1] = ws[i]
      BY <1>3, <2>2
    <3>2. ws[k] = ws[k - 1]
      BY <3>1 DEF ReadingOf
    <3> QED
      BY <1>1, <3>1, <3>2
  <2> QED
    BY <1>1, <2>1, <2>2
<1>4. 0..Last \subseteq G
  <2>1. 0 \in G
    BY <1>1, <1>2
  <2> HIDE DEF G
  <2> QED
    BY <1>1, <1>3, <2>1, UpTo
<1>5. j \in G
  BY <1>4
<1> QED
  BY <1>5

\* Where a window is cut off, later ones have all behind them that lies before.
LEMMA LaterOffsets ==
    ASSUME NEW on, NEW mode, NEW ws, ReadingOf(ws, on, mode), NEW i \in 0..Last, NEW j \in 0..Last,
           i < j, ws[i].window.truncated,
           NEW s \in Spans(on, mode), s.to <= ws[i].window.next
    PROVE  s.to <= ws[j].offset
<1>1. Last \in Nat
  BY DEF ReadingOf
<1>2. i + 1 \in 1..Last /\ i + 1 \in 0..Last /\ i + 1 <= j /\ (i + 1) - 1 = i
  BY <1>1
<1>3. \A k \in 1..Last : ws[k - 1].window.truncated => ws[k].offset = ws[k - 1].window.next
  BY DEF ReadingOf
<1>4. ws[i + 1].offset = ws[i].window.next
  BY <1>2, <1>3
<1> QED
  BY <1>2, <1>4, ReadingGoesForward

\* Each window that is cut off leaves a line behind that none before it did; there are no more
\* lines than two to an element, so reading ends.
THEOREM ReadingEnds ==
    ASSUME NEW on, NEW mode, Fits(on, mode)
    PROVE  ~Windows(on, mode)[Last].window.truncated
<1> SUFFICES ASSUME Windows(on, mode)[Last].window.truncated
             PROVE  FALSE
  OBVIOUS
<1>1. PICK ws : ws = Windows(on, mode)
  OBVIOUS
<1>2. ReadingOf(ws, on, mode)
  BY <1>1, WindowsFacts
<1>3. PICK spans : spans = Spans(on, mode)
  OBVIOUS
<1>4. /\ IsFiniteSet(spans) /\ Cardinality(spans) \in Nat /\ Cardinality(spans) <= Last
      /\ \A s \in spans : s.to \in Nat
  BY <1>3, SpansFacts DEF SpansOK, AnySpan
<1>5. Last \in Nat /\ Last \in 0..Last /\ \A k \in 0..Last : ws[k].offset \in Nat
  BY <1>2 DEF ReadingOf
<1>6. \A k \in 0..Last : ws[k].window.truncated
  <2>1. ASSUME NEW k \in 0..Last, ~ws[k].window.truncated
        PROVE  FALSE
    <3>1. ws[Last] = ws[k]
      BY <1>2, <1>5, <2>1, ReadingStops
    <3> QED
      BY <1>1, <2>1, <3>1
  <2> QED
    BY <2>1
<1>7. \A k \in 0..Last : \E c \in spans : c.to > ws[k].offset /\ c.to <= ws[k].window.next
  BY <1>2, <1>3, <1>6 DEF ReadingOf, Shape, Gains
<1> DEFINE f == [k \in 0..Last |->
                   CHOOSE c \in spans : c.to > ws[k].offset /\ c.to <= ws[k].window.next]
<1>8. /\ f \in [0..Last -> spans]
      /\ \A k \in 0..Last : f[k].to > ws[k].offset /\ f[k].to <= ws[k].window.next
  BY <1>7
<1>9. \E i, j \in 0..Last : i # j /\ f[i] = f[j]
  <2>1. IsFiniteSet(0..Last) /\ Cardinality(0..Last) = Last + 1
    <3>1. 0 \in Int /\ Last \in Int /\ ~(0 > Last) /\ Last - 0 + 1 = Last + 1
      BY <1>5
    <3> QED
      BY <3>1, FS_Interval
  <2>2. Cardinality(spans) < Cardinality(0..Last)
    BY <1>4, <1>5, <2>1
  <2> HIDE DEF f
  <2> QED
    BY <1>4, <1>8, <2>1, <2>2, FS_PigeonHole
<1> HIDE DEF f
<1>10. ASSUME NEW i \in 0..Last, NEW j \in 0..Last, i < j, f[i] = f[j]
       PROVE  FALSE
  <2>1. f[i] \in spans /\ f[i].to <= ws[i].window.next /\ f[i].to > ws[j].offset
    BY <1>8, <1>10
  <2>2. f[i].to <= ws[j].offset
    BY <1>2, <1>3, <1>6, <1>10, <2>1, LaterOffsets
  <2> QED
    BY <1>4, <1>5, <2>1, <2>2
<1>11. PICK i, j \in 0..Last : i # j /\ f[i] = f[j]
  BY <1>9
<1> QED
  BY <1>5, <1>10, <1>11

\* A line lies in the first window that is followed by one behind the line, or in the last one.
THEOREM ReadingShowsEveryLine ==
    ASSUME NEW on, NEW mode, ~Windows(on, mode)[Last].window.truncated
    PROVE  {s.line : s \in Spans(on, mode)}
             \subseteq LinesOf(Windows(on, mode)) \union Squeezed(Windows(on, mode), Spans(on, mode))
                         \union Astray(Windows(on, mode), Spans(on, mode))
<1>1. PICK ws : ws = Windows(on, mode)
  OBVIOUS
<1>2. PICK spans : spans = Spans(on, mode)
  OBVIOUS
<1>3. ReadingOf(ws, on, mode)
  BY <1>1, WindowsFacts
<1>4. Last \in Nat /\ Last \in 0..Last /\ DOMAIN ws = 0..Last /\ 0 \in 0..Last
  BY <1>3 DEF ReadingOf
<1>5. /\ SpansOK(spans)
      /\ \A c, s \in spans : c.line = s.line => c = s
      /\ \A s \in spans : s.from \in Nat /\ s.to \in Nat /\ s.from < s.to
  BY <1>2, SpansFacts DEF SpansOK, AnySpan
<1> SUFFICES ASSUME NEW s \in spans
             PROVE  s.line \in LinesOf(ws) \union Squeezed(ws, spans) \union Astray(ws, spans)
  BY <1>1, <1>2
<1>6. ASSUME NEW k \in 0..Last, s.line \in ws[k].window.lines
      PROVE  s.line \in LinesOf(ws)
  BY <1>4, <1>6 DEF LinesOf
<1>7. ASSUME NEW k \in 0..Last, Strayed(ws[k].window, spans, ws[k].offset),
             s.to > ws[k].offset, ws[k].window.truncated => s.to <= ws[k].window.next
      PROVE  s.line \in LinesOf(ws) \union Astray(ws, spans)
  <2>1. ws[k].window \in Windowed /\ ws[k].offset \in Nat
    BY <1>3 DEF ReadingOf, Shape
  <2>2. s.line \in ws[k].window.lines \/ s.line \in OutOfStep(ws[k].window)
    BY <1>5, <1>7, <2>1, StrayedFacts
  <2>3. CASE s.line \in OutOfStep(ws[k].window)
    BY <1>4, <1>7, <2>3 DEF Astray
  <2> QED
    BY <1>6, <2>2, <2>3
<1>8. CASE s.to > ws[Last].offset
  <2>1. ~ws[Last].window.truncated /\ Shape(ws[Last].window, on, mode, ws[Last].offset)
    BY <1>1, <1>3, <1>4 DEF ReadingOf
  <2>2. CASE Whole(ws[Last].window, spans, ws[Last].offset)
    <3>1. s.line \in ws[Last].window.lines
      BY <1>8, <2>2 DEF Whole, InWindow
    <3> QED
      BY <1>4, <1>6, <3>1
  <2>3. CASE Strayed(ws[Last].window, spans, ws[Last].offset)
    BY <1>4, <1>7, <1>8, <2>1, <2>3
  <2> QED
    BY <1>2, <2>1, <2>2, <2>3 DEF Shape, Cut
<1>9. CASE ~(s.to > ws[Last].offset)
  <2> DEFINE T == {k \in 0..Last : s.to <= ws[k].offset}
  <2>1. \A k \in 0..Last : ws[k].offset \in Nat
    BY <1>3 DEF ReadingOf
  <2>2. Last \in T /\ T \subseteq Nat
    BY <1>4, <1>5, <1>9, <2>1
  <2>3. PICK k \in T : \A j \in T : k <= j
    <3> HIDE DEF T
    <3> QED
      BY <2>2, LeastNatural
  <2>4. k # 0
    <3>1. ws[0].offset = 0
      BY <1>3 DEF ReadingOf
    <3> QED
      BY <1>5, <2>3, <3>1
  <2>5. k \in 1..Last /\ k - 1 \in 0..Last
    BY <1>4, <2>3, <2>4
  <2>6. k - 1 \notin T
    BY <2>3, <2>5
  <2>7. PICK w, offset : w = ws[k - 1].window /\ offset = ws[k - 1].offset
    OBVIOUS
  <2>8. s.to > offset /\ s.to <= ws[k].offset
    BY <1>5, <2>1, <2>3, <2>5, <2>6, <2>7
  <2>9. w.truncated /\ ws[k].offset = w.next
    <3>1. ws[k] # ws[k - 1]
      BY <1>5, <2>1, <2>3, <2>5, <2>7, <2>8
    <3> QED
      BY <1>3, <2>5, <2>7, <3>1 DEF ReadingOf
  <2>10. Shape(w, on, mode, offset)
    BY <1>3, <2>5, <2>7 DEF ReadingOf
  <2>11. Cut(w, spans, offset) \/ Strayed(w, spans, offset)
    BY <1>2, <2>9, <2>10 DEF Shape, Whole
  <2>12. CASE s.line \in w.lines
    BY <1>6, <2>5, <2>7, <2>12
  <2>13. CASE s.line \notin w.lines /\ Cut(w, spans, offset)
    <3>1. IsSqueezed(s, w, spans)
      BY <2>8, <2>9, <2>13 DEF Cut
    <3>2. PICK m \in spans : m.line = <<s.line[1], "own">> /\ GoesOnAt(m, w)
      BY <3>1 DEF IsSqueezed
    <3>3. s.line[2] = "text"
      BY <3>1 DEF IsSqueezed
    <3>4. k - 1 \in DOMAIN ws
      BY <1>4, <2>5
    <3> QED
      BY <2>7, <2>8, <2>13, <3>2, <3>3, <3>4 DEF Squeezed
  <2>14. CASE Strayed(w, spans, offset)
    BY <1>7, <2>5, <2>7, <2>8, <2>9, <2>14
  <2> QED
    BY <2>11, <2>12, <2>13, <2>14
<1> QED
  BY <1>8, <1>9

\* The lines of a window lie behind its offset.
LEMMA LinesLieBehind ==
    ASSUME NEW on, NEW mode, NEW offset \in Nat, NEW w, Shape(w, on, mode, offset),
           NEW s \in Spans(on, mode), s.line \in w.lines
    PROVE  s.to > offset
<1>1. PICK spans : spans = Spans(on, mode)
  OBVIOUS
<1>2. SpansOK(spans) /\ \A c, d \in spans : c.line = d.line => c = d
  BY <1>1, SpansFacts
<1>3. CASE Whole(w, spans, offset) \/ Cut(w, spans, offset)
  <2>1. PICK c \in spans : c.line = s.line /\ c.to > offset
    BY <1>3 DEF Whole, Cut, InWindow
  <2> QED
    BY <1>1, <1>2, <2>1
<1>4. CASE Strayed(w, spans, offset)
  BY <1>1, <1>2, <1>4, StrayedFacts DEF Shape
<1> QED
  BY <1>1, <1>3, <1>4 DEF Shape

\* The lines of a window lie before the next one, and those of a later one behind where it begins;
\* but for one kept ahead of its text, and those behind a heading that is left out.
THEOREM ReadingRepeatsNoLine ==
    ASSUME NEW on, NEW mode, NEW ws, ws = Windows(on, mode),
           NEW i \in DOMAIN ws, NEW j \in DOMAIN ws, i < j, ws[i].offset # ws[j].offset
    PROVE  ws[i].window.lines \intersect ws[j].window.lines
             \subseteq Jumped(ws, Spans(on, mode)) \union OutOfStep(ws[i].window)
<1>1. ReadingOf(ws, on, mode)
  BY WindowsFacts
<1>2. Last \in Nat /\ i \in 0..Last /\ j \in 0..Last /\ \A k \in 0..Last : ws[k].offset \in Nat
  BY <1>1 DEF ReadingOf
<1>3. PICK spans : spans = Spans(on, mode)
  OBVIOUS
<1>4. /\ SpansOK(spans) /\ \A s \in spans : s.to \in Nat
      /\ \A c, s \in spans : c.line = s.line => c = s
  BY <1>3, SpansFacts DEF SpansOK, AnySpan
<1> SUFFICES ASSUME NEW line, line \in ws[i].window.lines, line \in ws[j].window.lines
             PROVE  line \in Jumped(ws, spans) \union OutOfStep(ws[i].window)
  BY <1>3
<1>5. ws[i].window.truncated
  BY <1>1, <1>2, ReadingStops
<1>6. PICK w, offset : w = ws[i].window /\ offset = ws[i].offset
  OBVIOUS
<1>7. w \in Windowed /\ offset \in Nat /\ Shape(w, on, mode, offset)
  BY <1>1, <1>2, <1>6 DEF ReadingOf, Shape
<1>8. ASSUME NEW s \in spans, s.line = line, s.to <= w.next
      PROVE  FALSE
  <2>1. s.to <= ws[j].offset
    BY <1>1, <1>2, <1>3, <1>5, <1>6, <1>8, LaterOffsets
  <2>2. Shape(ws[j].window, on, mode, ws[j].offset)
    BY <1>1, <1>2 DEF ReadingOf
  <2>3. s.to > ws[j].offset
    BY <1>2, <1>3, <1>8, <2>2, LinesLieBehind
  <2> QED
    BY <1>2, <1>4, <2>1, <2>3
<1>9. CASE Cut(w, spans, offset)
  <2>1. PICK s \in spans : s.line = line /\ (s.to <= w.next \/ IsJumped(s, w, spans))
    BY <1>6, <1>9 DEF Cut
  <2>2. s.line[2] = "own" /\ \E t \in spans : t.line = <<s.line[1], "text">> /\ GoesOnAt(t, w)
    BY <1>8, <2>1 DEF IsJumped
  <2>3. i \in DOMAIN ws /\ s.line \in ws[i].window.lines
    BY <2>1
  <2> QED
    BY <1>6, <2>1, <2>2, <2>3 DEF Jumped
<1>10. CASE Strayed(w, spans, offset)
  <2>1. \/ line \in OutOfStep(w)
        \/ \E s \in spans : s.line = line /\ s.to > offset /\ (w.truncated => s.to <= w.next)
    BY <1>4, <1>6, <1>7, <1>10, StrayedFacts
  <2> QED
    BY <1>5, <1>6, <1>8, <2>1
<1> QED
  BY <1>3, <1>5, <1>6, <1>7, <1>9, <1>10 DEF Shape, Whole
=============================================================================
