------------------------------ MODULE Snapshot ------------------------------
(***************************************************************************)
(* What the content script shows of a page, window by window               *)
(* (perception/snapshot.ts).  A page is a set of elements in a fixed       *)
(* document order; an element stands for the text flushed before it and    *)
(* the line of its own that a control, a heading or a frame that cannot be *)
(* read has.  Lines are known by their length.                             *)
(***************************************************************************)
EXTENDS Naturals, Sequences, FiniteSets, Functions

CONSTANTS Order,        \* the elements, in document order
          Look,         \* what can be seen of each element
          MaxChars,     \* MAX_SNAPSHOT_CHARS
          None

Elements == Range(Order)

\* text: length of the text line before the element; own: length of its own line, if it has one;
\* name: role and accessible name; label: what the marker calls it, or all the text of a heading;
\* detail: text and data attributes; direct: the name is an attribute of the element; href: a
\* link's target; region: where on the page it is; inner: it is in a shadow root or a frame;
\* within: the heading it is in.  What is in a heading fills lines of its own.
ASSUME LookAssumption ==
    /\ Order \in Seq(Elements) /\ IsInjective(Order)
    /\ Look \in [Elements -> [kind : {"text", "control", "heading", "frame"},
                              text : Nat, own : Nat, name : STRING, label : STRING, detail : STRING,
                              direct : BOOLEAN, href : {"", "/"}, region : {"main", "nav", "footer"},
                              inner : BOOLEAN, within : Elements \union {None}]]
    /\ \A e \in Elements : /\ Look[e].kind = "control" => Look[e].own > 0
                           /\ Look[e].kind = "text" => Look[e].own = 0
    /\ MaxChars \in Nat
    /\ None \notin Elements

IsControl(e) == Look[e].kind = "control"

\* d comes before e in the document.
Before(d, e) == \E i, j \in DOMAIN Order : i < j /\ Order[i] = d /\ Order[j] = e

\* What the walk visits of the page `on`: footers never, and in main mode the main region only.
Walked(on, mode) ==
    {e \in on : Look[e].region # "footer" /\ (mode = "main" => Look[e].region = "main")}

-----------------------------------------------------------------------------
(* The walk.  A line is an element's text or its own. *)

Lines == Elements \X {"text", "own"}

NoWindow == [produced |-> 0, output |-> 0, truncated |-> FALSE, next |-> 0,
             lines |-> {}, met |-> {}, walked |-> {}, refs |-> {}, link |-> None,
             last |-> None, dropped |-> {}]

\* A line that does not fit is where the next window has to begin.
StopAfter(w, cost) == [w EXCEPT !.produced = @ + cost, !.truncated = TRUE, !.next = w.produced + cost]
StopRelative(w, cost) == [w EXCEPT !.produced = @ + cost, !.truncated = TRUE, !.next = w.output]
Stop(w, cost) == [w EXCEPT !.produced = @ + cost, !.truncated = TRUE, !.next = w.produced]

Skip(w, cost) == [w EXCEPT !.produced = @ + cost]
Keep(w, line, cost) ==
    [w EXCEPT !.produced = @ + cost, !.output = @ + cost, !.lines = @ \union {line}]

OutsideLate(w, cost, offset) == w.produced + cost < offset
Outside(w, cost, offset) == w.produced + cost <= offset

\* Every line but the first costs a line break.
Cost(w, len) == len + (IF w.produced > 0 THEN 1 ELSE 0)

\* emit: the line, as long as it is in the window.
Emit(w, line, len, offset) ==
    LET cost == Cost(w, len)
    IN  IF Outside(w, cost, offset) THEN Skip(w, cost)
        ELSE IF w.output + cost > MaxChars THEN Stop(w, cost)
        ELSE Keep(w, line, cost)

\* A query keeps the lines that match and pays for no other.
Emitted(w, line, len, offset, query) ==
    IF len = 0 \/ (query # "" /\ ~(line[2] = "own" /\ Look[line[1]].name = query))
    THEN w ELSE Emit(w, line, len, offset)

\* The second of two links in a row with one name and target gets no marker.
SameLink(w, e) == w.link # None /\ Look[e].href # "" /\ Look[w.link].href = Look[e].href
                    /\ Look[w.link].name = Look[e].name

OrdinalOfShown(w, e) == Cardinality({d \in w.walked : Look[d].name = Look[e].name})

\* The ordinal of a control: those of its name that the walk met before, with or without a marker.
Ordinal(w, e) == Cardinality({d \in w.met : Look[d].name = Look[e].name})

LinkAfter(e) == IF Look[e].href # "" THEN e ELSE None

\* flush: text ends the reign of the marker that was last kept (lastRefName).
Flush(w, e, offset, query) ==
    [Emitted(w, <<e, "text">>, Look[e].text, offset, query)
        EXCEPT !.last = IF Look[e].text > 0 THEN None ELSE @]

Own(w, e, offset, query) == Emitted(w, <<e, "own">>, Look[e].own, offset, query)

\* A control that is reached is numbered; a marker that is kept gives a reference.
Marker(w, e, offset, query) ==
    LET v == Own(w, e, offset, query)
        kept == <<e, "own">> \in v.lines
    IN  [v EXCEPT !.walked = @ \union {e},
                  !.refs = IF kept THEN @ \union {<<e, Ordinal(w, e)>>} ELSE @,
                  !.link = LinkAfter(e),
                  !.last = IF kept THEN e ELSE @]

\* handleInteractive
Control(w, e, offset, query) ==
    [(IF SameLink(w, e) THEN w ELSE Marker(w, e, offset, query)) EXCEPT !.met = @ \union {e}]

\* A heading that says what the marker before it says is left out, with all that is in it; but
\* only if that marker was kept.
Repeats(w, e) == w.last # None /\ Look[e].label # "" /\ Look[w.last].label = Look[e].label

LeaveOut(w, e) == [w EXCEPT !.dropped = @ \union {e}]

\* handleHeading
Heading(w, e, offset, query) ==
    [(IF Repeats(w, e) THEN LeaveOut(w, e) ELSE Own(w, e, offset, query)) EXCEPT !.last = None]

\* The line of an element's own is emitted even if there was no room for the text before it.
Handle(w, e, offset, query) ==
    CASE Look[e].kind = "control" -> Control(w, e, offset, query)
      [] Look[e].kind = "heading" -> Heading(w, e, offset, query)
      [] Look[e].kind = "frame" -> Own(w, e, offset, query)
      [] Look[e].kind = "text" -> w

Visit(w, e, offset, query) ==
    IF w.truncated THEN w
    ELSE IF Look[e].within \in w.dropped THEN LeaveOut(w, e)
    ELSE Handle(Flush(w, e, offset, query), e, offset, query)

\* The window as it is behind the i-th element of the document.
Walk(on, mode, offset, query) ==
    LET w[i \in 0..Len(Order)] ==
            IF i = 0 THEN NoWindow
            ELSE IF Order[i] \notin Walked(on, mode) THEN w[i - 1]
            ELSE Visit(w[i - 1], Order[i], offset, query)
    IN  w

\* buildSnapshot.  A search covers the whole page.
Window(on, mode, offset, query) ==
    Walk(on, mode, IF query = "" THEN offset ELSE 0, query)[Len(Order)]

-----------------------------------------------------------------------------
(* The layout of a whole page, were there room for it and no heading left out: where each of its  *)
(* lines begins and ends.                                                                         *)

NoLayout == [produced |-> 0, spans |-> {}, link |-> None]

Lay(p, line, len) ==
    IF len = 0 THEN p
    ELSE LET to == p.produced + Cost(p, len)
         IN  [p EXCEPT !.produced = to,
                       !.spans = @ \union {[line |-> line, from |-> p.produced, to |-> to]}]

LayElement(p, e) ==
    LET q == Lay(p, <<e, "text">>, Look[e].text)
    IN  IF IsControl(e) /\ SameLink(q, e) THEN q
        ELSE [Lay(q, <<e, "own">>, Look[e].own) EXCEPT !.link = IF IsControl(e) THEN LinkAfter(e) ELSE @]

Layout(on, mode) ==
    LET p[i \in 0..Len(Order)] ==
            IF i = 0 THEN NoLayout
            ELSE IF Order[i] \notin Walked(on, mode) THEN p[i - 1]
            ELSE LayElement(p[i - 1], Order[i])
    IN  p

Spans(on, mode) == Layout(on, mode)[Len(Order)].spans

-----------------------------------------------------------------------------
(* Reading a page window after window, with the offset each one names *)

\* There are no more windows than lines; the last one repeats itself.
Last == 2 * Len(Order)

Windows(on, mode) ==
    LET ws[k \in 0..Last] ==
            IF k = 0 THEN [offset |-> 0, window |-> Window(on, mode, 0, "")]
            ELSE LET before == ws[k - 1]
                 IN  IF ~before.window.truncated THEN before
                     ELSE [offset |-> before.window.next,
                           window |-> Window(on, mode, before.window.next, "")]
    IN  [k \in 0..Last |-> ws[k]]

LinesOf(ws) == UNION {ws[k].window.lines : k \in DOMAIN ws}

Fits(on, mode) == \A e \in Walked(on, mode) : Look[e].text < MaxChars /\ Look[e].own < MaxChars

\* The next window begins at line s.
GoesOnAt(s, w) == w.truncated /\ w.next = s.from

\* A text that found no room, nor did the line of its own right behind it, where the next window
\* begins (snapshot.ts:208, 235, 277, 298, 184).
Squeezed(ws, spans) ==
    {s.line : s \in {t \in spans : \E k \in DOMAIN ws, m \in spans :
        /\ t.line[2] = "text" /\ m.line = <<t.line[1], "own">>
        /\ GoesOnAt(m, ws[k].window)
        /\ t.to > ws[k].offset /\ t.line \notin ws[k].window.lines}}

\* An element's own line kept although the text before it found no room: the next window begins
\* at the text.
Jumped(ws, spans) ==
    {s.line : s \in {m \in spans : \E k \in DOMAIN ws, t \in spans :
        /\ m.line[2] = "own" /\ t.line = <<m.line[1], "text">>
        /\ GoesOnAt(t, ws[k].window)
        /\ m.line \in ws[k].window.lines}}

\* From the first heading it leaves out on, a window is out of step with the layout, and with the
\* windows that keep the heading (snapshot.ts:265).
OutOfStep(w) == {line \in Lines : \E h \in w.dropped : ~Before(line[1], h)}

\* The lines that lie in such a part of a window.
Astray(ws, spans) ==
    {s.line : s \in {t \in spans : \E k \in DOMAIN ws :
        /\ t.line \in OutOfStep(ws[k].window)
        /\ t.to > ws[k].offset
        /\ ws[k].window.truncated => t.to <= ws[k].window.next}}
=============================================================================
