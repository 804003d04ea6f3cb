-------------------------- MODULE SiteGrantsProofs --------------------------
(***************************************************************************)
(* Theorems about SiteGrants, for any sites, operations, choices, window   *)
(* and bounds: the types, that the list holds what the user asked for, and *)
(* that the list and Chrome's permissions agree when nothing is under way. *)
(***************************************************************************)
EXTENDS SiteGrants, TLAPS

OpRecords == [does : Deeds, at : Stages, site : Origins \union {None},
              grant : Grants \union {None}, since : 0..MaxTime, list : Lists,
              gone : SUBSET Origins, fresh : BOOLEAN]

\* Stages at which the list an operation has read will still be used.
Holding == {"purge", "release", "save", "ask", "prompt", "undo"}

\* An operation that grants or revokes has taken the site's own grant out of its list.
Exempt(r, s) == /\ r.at \in {"save", "ask", "prompt", "undo"}
                /\ r.does \in {"grant", "revoke"}
                /\ s = r.site

\* What one operation knows of itself.
OpOK(r) ==
    /\ r \in OpRecords
    /\ r.does # "list" => r.site \in Origins
    /\ r.does = "grant" => r.grant \in Grants
    /\ r.at \in {"ask", "prompt", "undo"} => r.does = "grant"
    /\ r.at = "drop" => r.does = "revoke"
    /\ r.at = "save" => r.does \in {"touch", "grant", "revoke"}
    /\ \A s \in Origins : Exempt(r, s) => r.list[s] = None

OpsOK == \A o \in Ops : OpOK(op[o])

\* Grant g is in the spirit of the user's wish w.
Wished(g, w) ==
    /\ g # None => w # None /\ g.tier = w.tier /\ g.idle = w.idle
    /\ w # None /\ w.expiresAt = Never => g = w

ListIsWished == \A s \in Origins : Wished(stored[s], wish[s])

\* As long as nobody has saved since, a list that was read stands for the stored one.
Stands(r, s, g, w) ==
    /\ Wished(r.list[s], w)
    /\ (r.list[s] = None) <=> (g = None \/ (r.at = "purge" /\ s \in r.gone))

UpToDate(r, saved, wanted) ==
    r.at \in Holding /\ r.fresh =>
        \A s \in Origins : Exempt(r, s) \/ Stands(r, s, saved[s], wanted[s])

ListsUpToDate == \A o \in Ops : UpToDate(op[o], stored, wish)

\* A grant without its permission is being asked for or undone,
GrantAwaited(s) ==
    stored[s] # None /\ s \notin held =>
        \/ s \in prompts
        \/ \E o \in Ops : op[o].at \in {"ask", "undo"} /\ op[o].site = s

\* and a permission without its grant, if it is not a required one, is about to be removed.
RemovalDue(s) ==
    s \in held \ Required /\ stored[s] = None =>
        \E o \in Ops : \/ op[o].at = "drop" /\ op[o].site = s
                       \/ op[o].at = "release" /\ s \in op[o].gone

Reasons == Required \subseteq held /\ \A s \in Origins : GrantAwaited(s) /\ RemovalDue(s)

IInv ==
    /\ TypeOK
    /\ OpsOK
    /\ Clean => ListIsWished /\ ListsUpToDate /\ Reasons

-----------------------------------------------------------------------------
(* Operations *)

\* A site has a list entry of its own type.
LEMMA Entries ==
    ASSUME NEW list \in Lists, NEW s \in Origins
    PROVE  /\ list[s] \in Grants \union {None}
           /\ list[s] # None => list[s] \in Grants
  BY DEF Lists

\* The clock can read zero.
LEMMA ZeroOnTheClock == 0 \in 0..MaxTime
  BY GrantsAssumption

\* Nothing is held by an operation that has ended or lists again.
LEMMA RestOK ==
    /\ OpOK(Rest)
    /\ OpOK(Render)
    /\ \A saved, wanted : UpToDate(Rest, saved, wanted) /\ UpToDate(Render, saved, wanted)
  <1>1. NoList \in Lists
    BY DEF NoList, Lists
  <1>2. Rest \in OpRecords /\ Render \in OpRecords
    BY <1>1, ZeroOnTheClock DEF OpRecords, Rest, Render, Deeds, Stages
  <1>3. Rest.does = "list" /\ Rest.at = "idle" /\ Render.does = "list" /\ Render.at = "get"
    BY DEF Rest, Render
  <1>4. QED
    BY <1>2, <1>3 DEF OpOK, Exempt, UpToDate, Holding

\* A list in which one grant is renewed.
LEMMA RenewedOK ==
    ASSUME NEW list \in Lists, NEW s \in Origins, NEW t \in 0..MaxTime, Renewable(list[s])
    PROVE  /\ Renewed(list, s, t) \in Lists
           /\ \A d \in Origins \ {s} : Renewed(list, s, t)[d] = list[d]
           /\ Renewed(list, s, t)[s] # None
           /\ Renewed(list, s, t)[s].tier = list[s].tier
           /\ Renewed(list, s, t)[s].idle = list[s].idle
  <1>1. list[s] \in Grants
    BY Entries DEF Renewable
  <1>2. t + list[s].idle \in 0..(MaxTime + Idle)
    BY <1>1, GrantsAssumption DEF Grants
  <1>3. DEFINE g == [list[s] EXCEPT !.expiresAt = t + list[s].idle]
  <1>4. g \in Grants /\ g.tier = list[s].tier /\ g.idle = list[s].idle
    BY <1>1, <1>2 DEF Grants
  <1>5. Renewed(list, s, t) = [list EXCEPT ![s] = g]
    BY DEF Renewed
  <1> HIDE DEF g
  <1>6. QED
    BY <1>4, <1>5, NoneAssumption DEF Lists

\* A completed listing leaves an operation that knows what it did before.
LEMMA ResumedOK ==
    ASSUME NEW r, OpOK(r), r.at \in {"get", "purge", "release"}, now \in 0..MaxTime
    PROVE  OpOK(Resumed(r))
  <1>1. CASE r.does = "list"
    BY <1>1, RestOK DEF Resumed
  <1>2. CASE r.does = "use"
    <2>1. Resumed(r) = IF Access(r.list, r.site).read
                       THEN [r EXCEPT !.does = "touch", !.at = "get", !.since = now]
                       ELSE Rest
      BY <1>2 DEF Resumed
    <2>2. OpOK([r EXCEPT !.does = "touch", !.at = "get", !.since = now])
      BY <1>2 DEF OpOK, OpRecords, Deeds, Stages, Exempt
    <2>3. QED
      BY <2>1, <2>2, RestOK
  <1>3. CASE r.does = "touch"
    <2>1. r.list \in Lists /\ r.site \in Origins /\ r.since \in 0..MaxTime
      BY <1>3 DEF OpOK, OpRecords
    <2>2. Resumed(r) = IF Renewable(r.list[r.site])
                       THEN [r EXCEPT !.at = "save", !.list = Renewed(r.list, r.site, r.since)]
                       ELSE Rest
      BY <1>3 DEF Resumed, OpOK, OpRecords
    <2>3. CASE Renewable(r.list[r.site])
      <3>1. Renewed(r.list, r.site, r.since) \in Lists
        BY <2>1, <2>3, RenewedOK
      <3>2. QED
        BY <1>3, <2>2, <2>3, <3>1 DEF OpOK, OpRecords, Stages, Exempt
    <2>4. QED
      BY <2>2, <2>3, RestOK
  <1>4. CASE r.does \in {"grant", "revoke"}
    <2>1. r.list \in Lists /\ r.site \in Origins
      BY <1>4 DEF OpOK, OpRecords
    <2>2. Resumed(r) = [r EXCEPT !.at = "save", !.list = [r.list EXCEPT ![r.site] = None]]
      BY <1>4 DEF Resumed, OpOK, OpRecords
    <2>3. [r.list EXCEPT ![r.site] = None] \in Lists
      BY <2>1 DEF Lists
    <2>4. QED
      BY <1>4, <2>1, <2>2, <2>3 DEF OpOK, OpRecords, Stages, Exempt, Lists
  <1>5. QED
    BY <1>1, <1>2, <1>3, <1>4 DEF OpOK, OpRecords, Deeds

\* And the list it goes on with stands for the stored one, if the listing did.
LEMMA ResumedUpToDate ==
    ASSUME NEW r, OpOK(r), r.at \in {"get", "purge", "release"},
           NEW saved, NEW wanted,
           r.fresh => \A s \in Origins : /\ Wished(r.list[s], wanted[s])
                                         /\ (r.list[s] = None) <=> (saved[s] = None)
    PROVE  UpToDate(Resumed(r), saved, wanted)
  <1>1. CASE r.does = "list"
    BY <1>1, RestOK DEF Resumed
  <1>2. CASE r.does = "use"
    <2>1. Resumed(r) \in {[r EXCEPT !.does = "touch", !.at = "get", !.since = now], Rest}
      BY <1>2 DEF Resumed
    <2>2. UpToDate([r EXCEPT !.does = "touch", !.at = "get", !.since = now], saved, wanted)
      BY DEF UpToDate, Holding, OpOK, OpRecords
    <2>3. QED
      BY <2>1, <2>2, RestOK
  <1>3. CASE r.does = "touch"
    <2>1. r.list \in Lists /\ r.site \in Origins /\ r.since \in 0..MaxTime
      BY <1>3 DEF OpOK, OpRecords
    <2>2. Resumed(r) = IF Renewable(r.list[r.site])
                       THEN [r EXCEPT !.at = "save", !.list = Renewed(r.list, r.site, r.since)]
                       ELSE Rest
      BY <1>3 DEF Resumed, OpOK, OpRecords
    <2>3. CASE Renewable(r.list[r.site])
      <3> DEFINE new == Renewed(r.list, r.site, r.since)
                 q == [r EXCEPT !.at = "save", !.list = new]
      <3>1. /\ \A d \in Origins \ {r.site} : new[d] = r.list[d]
            /\ new[r.site] # None
            /\ new[r.site].tier = r.list[r.site].tier
            /\ new[r.site].idle = r.list[r.site].idle
        BY <2>1, <2>3, RenewedOK
      <3>2. r.list[r.site] # None /\ r.list[r.site].expiresAt # Never
        BY <2>3 DEF Renewable
      <3> HIDE DEF new
      <3>3. q.list = new /\ q.at = "save" /\ q.does = "touch" /\ q.fresh = r.fresh
        BY <1>3 DEF OpOK, OpRecords
      <3> HIDE DEF q
      <3>4. ASSUME NEW s \in Origins PROVE q.fresh => Stands(q, s, saved[s], wanted[s])
        <4>1. CASE s = r.site
          BY <4>1, <3>1, <3>2, <3>3 DEF Stands, Wished
        <4>2. CASE s # r.site
          BY <4>2, <3>1, <3>3 DEF Stands
        <4>3. QED
          BY <4>1, <4>2
      <3>5. UpToDate(q, saved, wanted)
        BY <3>4 DEF UpToDate
      <3>6. QED
        BY <2>2, <2>3, <3>5 DEF new, q
    <2>4. QED
      BY <2>2, <2>3, RestOK
  <1>4. CASE r.does \in {"grant", "revoke"}
    <2>1. r.list \in Lists /\ r.site \in Origins
      BY <1>4 DEF OpOK, OpRecords
    <2> DEFINE q == [r EXCEPT !.at = "save", !.list = [r.list EXCEPT ![r.site] = None]]
    <2>2. Resumed(r) = q
      BY <1>4 DEF Resumed, OpOK, OpRecords
    <2>3. /\ q.at = "save" /\ q.does = r.does /\ q.site = r.site /\ q.fresh = r.fresh
          /\ \A s \in Origins \ {r.site} : q.list[s] = r.list[s]
      BY <2>1 DEF OpOK, OpRecords, Lists
    <2> HIDE DEF q
    <2>4. q.fresh => \A s \in Origins : Exempt(q, s) \/ Stands(q, s, saved[s], wanted[s])
      BY <2>3, <1>4 DEF Exempt, Stands
    <2>5. QED
      BY <2>2, <2>4 DEF UpToDate
  <1>5. QED
    BY <1>1, <1>2, <1>3, <1>4 DEF OpOK, OpRecords, Deeds

-----------------------------------------------------------------------------
(* Steps *)

\* What the invariant says of the operations' types.
LEMMA OpsType ==
    ASSUME OpsOK, op \in [Ops -> OpRecords]
    PROVE  /\ op \in [Ops -> [does : Deeds, at : Stages, site : Origins \union {None},
                             grant : Grants \union {None}, since : 0..MaxTime, list : Lists,
                             gone : SUBSET Origins, fresh : BOOLEAN]]
           /\ \A o \in Ops : op[o].does # "list" => op[o].site \in Origins
  BY DEF OpsOK, OpOK, OpRecords

\* A step of one operation that saves nothing keeps every operation in order.
LEMMA QuietOps ==
    ASSUME TypeOK, OpsOK, NEW o \in Ops, NEW r, OpOK(r), op' = [op EXCEPT ![o] = r]
    PROVE  OpsOK' /\ op' \in [Ops -> OpRecords]
  BY DEF TypeOK, OpsOK, OpOK, OpRecords

LEMMA QuietLists ==
    ASSUME TypeOK, ListsUpToDate, NEW o \in Ops, NEW r, op' = [op EXCEPT ![o] = r],
           UNCHANGED <<stored, wish>>, UpToDate(r, stored, wish)
    PROVE  ListsUpToDate'
  BY DEF TypeOK, ListsUpToDate

\* A step that saves keeps them in order too,
LEMMA WrittenOps ==
    ASSUME TypeOK, OpsOK, NEW o \in Ops, NEW r, OpOK(r), op' = Written(o, r)
    PROVE  OpsOK' /\ op' \in [Ops -> OpRecords]
  <1>1. ASSUME NEW q, OpOK(q) PROVE OpOK([q EXCEPT !.fresh = FALSE])
    BY <1>1 DEF OpOK, OpRecords, Exempt
  <1>2. ASSUME NEW p \in Ops PROVE OpOK(op'[p])
    BY <1>1 DEF OpsOK, Written
  <1>3. op' = [p \in Ops |-> op'[p]]
    BY DEF Written
  <1>4. QED
    BY <1>2, <1>3 DEF OpsOK, OpOK

\* but of the lists only its own may still stand for the stored one.
LEMMA WrittenLists ==
    ASSUME TypeOK, NEW o \in Ops, NEW r, op' = Written(o, r), UpToDate(r, stored', wish')
    PROVE  ListsUpToDate'
  <1>1. ASSUME NEW p \in Ops PROVE UpToDate(op'[p], stored', wish')
    <2>1. CASE p = o
      BY <2>1 DEF Written
    <2>2. CASE p # o /\ op[p].at \in Holding
      <3>1. op'[p] = [op[p] EXCEPT !.fresh = FALSE]
        BY <2>2 DEF Written, Holding
      <3>2. op'[p].fresh = FALSE
        BY <3>1 DEF TypeOK
      <3>3. QED
        BY <3>2 DEF UpToDate
    <2>3. CASE p # o /\ op[p].at \notin Holding
      <3>1. op'[p] = op[p]
        BY <2>3 DEF Written, Holding
      <3>2. QED
        BY <2>3, <3>1 DEF UpToDate
    <2>4. QED
      BY <2>1, <2>2, <2>3
  <1>2. QED
    BY <1>1 DEF ListsUpToDate

\* Nobody but the operation that saves comes to another stage, site or set of expired grants.
LEMMA WrittenOthers ==
    ASSUME TypeOK, NEW o \in Ops, NEW r, op' = Written(o, r)
    PROVE  /\ op'[o] = r
           /\ \A p \in Ops \ {o} : /\ op'[p].at = op[p].at
                                   /\ op'[p].site = op[p].site
                                   /\ op'[p].gone = op[p].gone
  BY DEF TypeOK, Written

\* The list of an operation that saves has the right type.
LEMMA ListType ==
    ASSUME TypeOK, NEW o \in Ops
    PROVE  op[o].list \in Lists
  BY DEF TypeOK

LEMMA GetIInv == ASSUME IInv, NEW o \in Ops, Get(o) PROVE IInv'
  <1> DEFINE read == [op[o] EXCEPT !.list = LiveOnly(stored), !.gone = Expired(stored), !.fresh = TRUE]
             r == IF read.gone = {} THEN Resumed(read) ELSE [read EXCEPT !.at = "purge"]
  <1>1. /\ TypeOK /\ OpsOK /\ OpOK(op[o]) /\ now \in 0..MaxTime
        /\ Clean /\ ListIsWished /\ ListsUpToDate /\ Reasons
    BY DEF IInv, OpsOK, TypeOK, Get, At
  <1>2. /\ op[o].at = "get" /\ op' = [op EXCEPT ![o] = r]
        /\ UNCHANGED <<now, stored, held, prompts, clicks, wish, mishaps>>
    BY DEF Get, At
  <1>3. LiveOnly(stored) \in Lists /\ Expired(stored) \subseteq Origins
    BY <1>1 DEF TypeOK, Lists, LiveOnly, Expired
  <1>4. /\ read.list = LiveOnly(stored) /\ read.gone = Expired(stored) /\ read.at = "get"
        /\ OpOK(read)
    BY <1>1, <1>2, <1>3 DEF OpOK, OpRecords, Exempt
  <1>5. \A s \in Origins : /\ Wished(read.list[s], wish[s])
                           /\ (read.list[s] = None) <=> (stored[s] = None \/ s \in read.gone)
    <2> TAKE s \in Origins
    <2>1. read.list[s] = IF Live(stored[s]) THEN stored[s] ELSE None
      BY <1>4 DEF LiveOnly
    <2>2. s \in read.gone <=> (stored[s] # None /\ ~Live(stored[s]))
      BY <1>4 DEF Expired
    <2>3. Wished(stored[s], wish[s])
      BY <1>1 DEF ListIsWished
    <2>4. QED
      BY <2>1, <2>2, <2>3 DEF Live, Wished
  <1> HIDE DEF read
  <1>6. OpOK(r) /\ UpToDate(r, stored, wish)
    <2>6. CASE read.gone = {}
      <3>1. r = Resumed(read)
        BY <2>6
      <3>2. OpOK(r) /\ UpToDate(r, stored, wish)
        BY <1>1, <1>4, <1>5, <2>6, <3>1, ResumedOK, ResumedUpToDate
      <3>3. QED
        BY <3>2
    <2>7. CASE read.gone # {}
      <3> DEFINE q == [read EXCEPT !.at = "purge"]
      <3>1. r = q
        BY <2>7
      <3>2. /\ OpOK(q) /\ q.at = "purge" /\ q.gone = read.gone /\ q.list = read.list
        BY <1>4 DEF OpOK, OpRecords, Stages, Exempt
      <3> HIDE DEF q
      <3>3. UpToDate(q, stored, wish)
        BY <1>5, <3>2 DEF UpToDate, Stands
      <3>4. QED
        BY <3>1, <3>2, <3>3
    <2>8. QED
      BY <2>6, <2>7
  <1> HIDE DEF r
  <1>7. OpsOK' /\ op' \in [Ops -> OpRecords]
    BY <1>1, <1>2, <1>6, QuietOps
  <1>8. TypeOK'
    BY <1>1, <1>2, <1>7, OpsType DEF TypeOK, OpsOK, OpOK, OpRecords
  <1>9. ListsUpToDate'
    BY <1>1, <1>2, <1>6, QuietLists
  <1>10. Reasons'
    <2>1. \A p \in Ops : op[p].at \in {"ask", "undo", "drop", "release"} => op'[p] = op[p]
      BY <1>1, <1>2 DEF TypeOK
    <2>2. QED
      BY <1>1, <1>2, <2>1 DEF Reasons, GrantAwaited, RemovalDue
  <1>11. QED
    BY <1>1, <1>2, <1>7, <1>8, <1>9, <1>10 DEF IInv, ListIsWished

\* What a save that spoils nothing says: the list it saves stood for the stored one.
LEMMA FreshList ==
    ASSUME IInv, NEW o \in Ops, op[o].at \in Holding,
           StaleWrite(o) \subseteq mishaps', mishaps \subseteq mishaps', Clean'
    PROVE  \A s \in Origins : Exempt(op[o], s) \/ Stands(op[o], s, stored[s], wish[s])
  <1>1. Clean /\ op[o].fresh
    BY DEF Clean, StaleWrite
  <1>2. QED
    BY <1>1 DEF IInv, ListsUpToDate, UpToDate

LEMMA PurgeIInv == ASSUME IInv, NEW o \in Ops, Purge(o) PROVE IInv'
  <1> DEFINE r == [op[o] EXCEPT !.at = "release"]
  <1>1. TypeOK /\ OpsOK /\ OpOK(op[o])
    BY DEF IInv, OpsOK
  <1>2. /\ op[o].at = "purge" /\ op[o].at \in Holding
        /\ stored' = op[o].list /\ op' = Written(o, r) /\ mishaps' = mishaps \union StaleWrite(o)
        /\ UNCHANGED <<now, held, prompts, clicks, wish>>
    BY DEF Purge, At, Write, Holding
  <1>3. /\ OpOK(r) /\ r.at = "release" /\ r.list = op[o].list /\ r.gone = op[o].gone
    BY <1>1, <1>2 DEF OpOK, OpRecords, Stages, Exempt
  <1> HIDE DEF r
  <1>4. OpsOK' /\ op' \in [Ops -> OpRecords]
    BY <1>1, <1>2, <1>3, WrittenOps
  <1>5. TypeOK'
    BY <1>1, <1>2, <1>4, ListType DEF TypeOK, OpsOK, OpOK, OpRecords, StaleWrite, Mishaps
  <1>6. ASSUME Clean' PROVE ListIsWished' /\ ListsUpToDate' /\ Reasons'
    <2>1. \A s \in Origins : Stands(op[o], s, stored[s], wish[s])
      BY <1>2, <1>6, FreshList DEF Exempt
    <2>2. \A s \in Origins : /\ Wished(stored'[s], wish'[s])
                             /\ (stored'[s] = None) <=> (stored[s] = None \/ s \in op[o].gone)
      BY <1>2, <2>1 DEF Stands
    <2>3. UpToDate(r, stored', wish')
      BY <1>2, <1>3, <2>2 DEF UpToDate, Stands
    <2>4. ListsUpToDate'
      BY <1>1, <1>2, <2>3, WrittenLists
    <2>5. Reasons
      BY <1>2, <1>6 DEF IInv, Clean
    <2>6. Reasons'
      BY <1>1, <1>2, <1>3, <2>2, <2>5, WrittenOthers DEF Reasons, GrantAwaited, RemovalDue
    <2>7. QED
      BY <2>2, <2>4, <2>6 DEF ListIsWished
  <1>7. QED
    BY <1>4, <1>5, <1>6 DEF IInv

LEMMA ReleaseIInv == ASSUME IInv, NEW o \in Ops, Release(o) PROVE IInv'
  <1>1. /\ TypeOK /\ OpsOK /\ OpOK(op[o]) /\ now \in 0..MaxTime
        /\ Clean /\ ListIsWished /\ ListsUpToDate /\ Reasons
    BY DEF IInv, OpsOK, TypeOK, Release, At
  <1>2. PICK s \in op[o].gone \ Required :
            LET left == [op[o] EXCEPT !.gone = op[o].gone \ {s}]
            IN  /\ Remove(s)
                /\ op' = [op EXCEPT ![o] = IF left.gone = {} THEN Resumed(left) ELSE left]
    BY DEF Release
  <1> DEFINE left == [op[o] EXCEPT !.gone = op[o].gone \ {s}]
             r == IF left.gone = {} THEN Resumed(left) ELSE left
  <1>3. /\ op[o].at = "release" /\ Remove(s) /\ op' = [op EXCEPT ![o] = r]
        /\ UNCHANGED <<now, stored, prompts, clicks, wish>>
    BY <1>2 DEF Release, At
  <1>4. /\ OpOK(left) /\ left.at = "release" /\ left.list = op[o].list
        /\ left.gone = op[o].gone \ {s} /\ left.fresh = op[o].fresh
    BY <1>1, <1>3 DEF OpOK, OpRecords, Exempt
  <1>5. left.fresh => \A d \in Origins : /\ Wished(left.list[d], wish[d])
                                         /\ (left.list[d] = None) <=> (stored[d] = None)
    <2>1. UpToDate(op[o], stored, wish)
      BY <1>1 DEF ListsUpToDate
    <2>2. QED
      BY <1>3, <1>4, <2>1 DEF UpToDate, Holding, Exempt, Stands
  <1> HIDE DEF left
  <1>6. OpOK(r) /\ UpToDate(r, stored, wish)
    <2>1. CASE left.gone = {}
      BY <1>1, <1>4, <1>5, <2>1, ResumedOK, ResumedUpToDate
    <2>2. CASE left.gone # {}
      BY <1>4, <1>5, <2>2 DEF UpToDate, Stands
    <2>3. QED
      BY <2>1, <2>2
  <1>7. left.gone = {} \/ r = left
    OBVIOUS
  <1> HIDE DEF r
  <1>8. OpsOK' /\ op' \in [Ops -> OpRecords]
    BY <1>1, <1>3, <1>6, QuietOps
  <1>9. TypeOK'
    BY <1>1, <1>3, <1>8 DEF TypeOK, OpsOK, OpOK, OpRecords, Remove, Mishaps
  <1>10. ListsUpToDate'
    BY <1>1, <1>3, <1>6, QuietLists
  <1>11. ASSUME Clean' PROVE Reasons'
    <2>1. stored[s] = None /\ held' = held \ {s}
      BY <1>3, <1>11 DEF Remove, Clean
    <2>2. /\ op'[o] = r
          /\ \A p \in Ops \ {o} : op'[p] = op[p]
      BY <1>1, <1>3 DEF TypeOK
    <2>3. ASSUME NEW d \in Origins PROVE GrantAwaited(d)'
      BY <1>1, <1>3, <2>1, <2>2 DEF Reasons, GrantAwaited
    <2>4. ASSUME NEW d \in Origins PROVE RemovalDue(d)'
      <3>1. SUFFICES ASSUME d \in held \ Required, d # s, stored[d] = None PROVE RemovalDue(d)'
        BY <1>3, <2>1 DEF RemovalDue
      <3>2. PICK p \in Ops : \/ op[p].at = "drop" /\ op[p].site = d
                             \/ op[p].at = "release" /\ d \in op[p].gone
        BY <1>1, <3>1 DEF Reasons, RemovalDue
      <3>3. CASE p = o
        BY <1>3, <1>4, <1>7, <2>2, <3>1, <3>2, <3>3 DEF RemovalDue
      <3>4. CASE p # o
        BY <2>2, <3>2, <3>4 DEF RemovalDue
      <3>5. QED
        BY <3>3, <3>4
    <2>5. QED
      BY <1>1, <1>3, <2>1, <2>3, <2>4 DEF Reasons
  <1>12. QED
    BY <1>1, <1>3, <1>8, <1>9, <1>10, <1>11 DEF IInv, ListIsWished

LEMMA ReleaseRejectedIInv == ASSUME IInv, NEW o \in Ops, ReleaseRejected(o) PROVE IInv'
  <1>1. /\ TypeOK /\ OpsOK /\ Clean /\ ListIsWished /\ ListsUpToDate /\ Reasons
        /\ op[o].at = "release" /\ op' = [op EXCEPT ![o] = Rest]
        /\ mishaps' = mishaps \union
              (IF op[o].gone \subseteq Required THEN {} ELSE {"aborted clean-up"})
        /\ UNCHANGED <<now, stored, held, prompts, clicks, wish>>
    BY DEF IInv, ReleaseRejected, At
  <1>2. OpsOK' /\ op' \in [Ops -> OpRecords]
    BY <1>1, RestOK, QuietOps
  <1>3. TypeOK'
    BY <1>1, <1>2 DEF TypeOK, OpsOK, OpOK, OpRecords, Mishaps
  <1>4. ListsUpToDate'
    BY <1>1, RestOK, QuietLists
  <1>5. ASSUME Clean' PROVE Reasons'
    <2>1. op[o].gone \subseteq Required
      BY <1>1, <1>5 DEF Clean
    <2>2. \A p \in Ops \ {o} : op'[p] = op[p]
      BY <1>1 DEF TypeOK
    <2>3. QED
      BY <1>1, <2>1, <2>2 DEF Reasons, GrantAwaited, RemovalDue
  <1>6. QED
    BY <1>1, <1>2, <1>3, <1>4, <1>5 DEF IInv, ListIsWished

LEMMA TouchSavesIInv == ASSUME IInv, NEW o \in Ops, TouchSaves(o) PROVE IInv'
  <1>1. TypeOK /\ OpsOK /\ OpOK(op[o])
    BY DEF IInv, OpsOK
  <1>2. /\ op[o].at = "save" /\ op[o].does = "touch" /\ op[o].at \in Holding
        /\ stored' = op[o].list /\ op' = Written(o, Rest) /\ mishaps' = mishaps \union StaleWrite(o)
        /\ UNCHANGED <<now, held, prompts, clicks, wish>>
    BY DEF TouchSaves, At, Write, Holding
  <1>3. OpsOK' /\ op' \in [Ops -> OpRecords]
    BY <1>1, <1>2, RestOK, WrittenOps
  <1>4. TypeOK'
    BY <1>1, <1>2, <1>3, ListType DEF TypeOK, OpsOK, OpOK, OpRecords, StaleWrite, Mishaps
  <1>5. ASSUME Clean' PROVE ListIsWished' /\ ListsUpToDate' /\ Reasons'
    <2>1. \A s \in Origins : Stands(op[o], s, stored[s], wish[s])
      BY <1>2, <1>5, FreshList DEF Exempt
    <2>2. \A s \in Origins : Wished(stored'[s], wish'[s]) /\ (stored'[s] = None <=> stored[s] = None)
      BY <1>2, <2>1 DEF Stands
    <2>3. ListsUpToDate'
      BY <1>1, <1>2, RestOK, WrittenLists
    <2>4. Reasons
      BY <1>2, <1>5 DEF IInv, Clean
    <2>5. Reasons'
      BY <1>1, <1>2, <2>2, <2>4, WrittenOthers DEF Reasons, GrantAwaited, RemovalDue
    <2>6. QED
      BY <2>2, <2>3, <2>5 DEF ListIsWished
  <1>6. QED
    BY <1>3, <1>4, <1>5 DEF IInv

LEMMA GrantSavesIInv == ASSUME IInv, NEW o \in Ops, GrantSaves(o) PROVE IInv'
  <1> DEFINE site == op[o].site
             grant == op[o].grant
             r == [op[o] EXCEPT !.at = "ask"]
  <1>1. TypeOK /\ OpsOK /\ OpOK(op[o])
    BY DEF IInv, OpsOK
  <1>2. /\ op[o].at = "save" /\ op[o].does = "grant" /\ op[o].at \in Holding
        /\ stored' = [op[o].list EXCEPT ![site] = grant] /\ op' = Written(o, r)
        /\ wish' = [wish EXCEPT ![site] = grant]
        /\ mishaps' = mishaps \union StaleWrite(o)
        /\ UNCHANGED <<now, held, prompts, clicks>>
    BY DEF GrantSaves, At, Write, Holding
  <1>3. /\ OpOK(r) /\ r.at = "ask" /\ r.does = "grant" /\ r.list = op[o].list /\ r.site = site
    BY <1>1, <1>2 DEF OpOK, OpRecords, Stages, Exempt
  <1>4. site \in Origins /\ grant \in Grants /\ grant # None
    BY <1>1, <1>2, NoneAssumption DEF OpOK
  <1> HIDE DEF r, grant
  <1>5. OpsOK' /\ op' \in [Ops -> OpRecords]
    BY <1>1, <1>2, <1>3, WrittenOps
  <1>6. /\ stored' \in Lists /\ wish' \in Lists
        /\ stored'[site] = grant /\ wish'[site] = grant
        /\ \A s \in Origins \ {site} : stored'[s] = op[o].list[s] /\ wish'[s] = wish[s]
    BY <1>1, <1>2, <1>4, ListType DEF TypeOK, Lists
  <1>7. TypeOK'
    BY <1>1, <1>2, <1>5, <1>6 DEF TypeOK, OpsOK, OpOK, OpRecords, StaleWrite, Mishaps
  <1>8. ASSUME Clean' PROVE ListIsWished' /\ ListsUpToDate' /\ Reasons'
    <2>1. \A s \in Origins \ {site} : Stands(op[o], s, stored[s], wish[s])
      BY <1>2, <1>8, FreshList DEF Exempt
    <2>2. \A s \in Origins \ {site} : /\ Wished(stored'[s], wish'[s])
                                      /\ stored'[s] = None <=> stored[s] = None
      BY <1>2, <1>6, <2>1 DEF Stands
    <2>3. ListIsWished'
      BY <1>4, <1>6, <2>2 DEF ListIsWished, Wished
    <2>4. UpToDate(r, stored', wish')
      BY <1>3, <1>6, <2>2 DEF UpToDate, Exempt, Stands
    <2>5. ListsUpToDate'
      BY <1>1, <1>2, <2>4, WrittenLists
    <2>6. Reasons
      BY <1>2, <1>8 DEF IInv, Clean
    <2>7. ASSUME NEW s \in Origins PROVE GrantAwaited(s)' /\ RemovalDue(s)'
      <3>1. CASE s = site
        BY <1>1, <1>2, <1>3, <1>4, <1>6, <3>1, WrittenOthers DEF GrantAwaited, RemovalDue
      <3>2. CASE s # site
        BY <1>1, <1>2, <2>2, <2>6, <3>2, WrittenOthers DEF Reasons, GrantAwaited, RemovalDue
      <3>3. QED
        BY <3>1, <3>2
    <2>8. QED
      BY <1>2, <2>3, <2>5, <2>6, <2>7 DEF Reasons
  <1>9. QED
    BY <1>5, <1>7, <1>8 DEF IInv

LEMMA AskGrantedIInv == ASSUME IInv, NEW o \in Ops, AskGranted(o) PROVE IInv'
  <1>1. /\ TypeOK /\ OpsOK /\ Clean /\ ListIsWished /\ ListsUpToDate /\ Reasons
        /\ op[o].at = "ask" /\ op[o].site \in held /\ op' = [op EXCEPT ![o] = Render]
        /\ UNCHANGED <<now, stored, held, prompts, clicks, wish, mishaps>>
    BY DEF IInv, AskGranted, At
  <1>2. OpsOK' /\ op' \in [Ops -> OpRecords]
    BY <1>1, RestOK, QuietOps
  <1>3. TypeOK'
    BY <1>1, <1>2 DEF TypeOK, OpsOK, OpOK, OpRecords
  <1>4. ListsUpToDate'
    BY <1>1, RestOK, QuietLists
  <1>5. Reasons'
    <2>1. \A p \in Ops \ {o} : op'[p] = op[p]
      BY <1>1 DEF TypeOK
    <2>2. QED
      BY <1>1, <2>1 DEF Reasons, GrantAwaited, RemovalDue
  <1>6. QED
    BY <1>1, <1>2, <1>3, <1>4, <1>5 DEF IInv, ListIsWished

\* A rejected request of a permission that Chrome has does no harm.
LEMMA AskRejectedIInv == ASSUME IInv, NEW o \in Ops, AskRejected(o) PROVE IInv'
  <1>1. /\ TypeOK /\ OpsOK /\ Clean /\ ListIsWished /\ ListsUpToDate /\ Reasons
        /\ op[o].at = "ask" /\ op' = [op EXCEPT ![o] = Rest]
        /\ mishaps' = mishaps \union (IF op[o].site \in held THEN {} ELSE {"rejected request"})
        /\ UNCHANGED <<now, stored, held, prompts, clicks, wish>>
    BY DEF IInv, AskRejected, At
  <1>2. OpsOK' /\ op' \in [Ops -> OpRecords]
    BY <1>1, RestOK, QuietOps
  <1>3. TypeOK'
    BY <1>1, <1>2 DEF TypeOK, OpsOK, OpOK, OpRecords, Mishaps
  <1>4. ListsUpToDate'
    BY <1>1, RestOK, QuietLists
  <1>5. ASSUME Clean' PROVE Reasons'
    <2>1. op[o].site \in held
      BY <1>1, <1>5 DEF Clean
    <2>2. \A p \in Ops \ {o} : op'[p] = op[p]
      BY <1>1 DEF TypeOK
    <2>3. QED
      BY <1>1, <2>1, <2>2 DEF Reasons, GrantAwaited, RemovalDue
  <1>6. QED
    BY <1>1, <1>2, <1>3, <1>4, <1>5 DEF IInv, ListIsWished

\* The closing popup loses nothing unless an operation of it was between two writes.
LEMMA AskPromptsIInv == ASSUME IInv, NEW o \in Ops, AskPrompts(o) PROVE IInv'
  <1> DEFINE closed == IF o \in PopupOps THEN PopupOps ELSE {}
             cut == {p \in closed \ {o} : op[p].at \in Halfway}
             r == [op[o] EXCEPT !.at = "prompt"]
  <1>1. /\ TypeOK /\ OpsOK /\ OpOK(op[o])
        /\ Clean /\ ListIsWished /\ ListsUpToDate /\ Reasons
    BY DEF IInv, OpsOK, AskPrompts, At
  <1>2. /\ op[o].at = "ask" /\ op[o].site \notin held
        /\ prompts' = prompts \union {op[o].site}
        /\ op' = [p \in Ops |-> IF p \in closed THEN Rest ELSE IF p = o THEN r ELSE op[p]]
        /\ mishaps' = mishaps \union (IF cut = {} THEN {} ELSE {"interrupted"})
        /\ UNCHANGED <<now, stored, held, clicks, wish>>
    BY DEF AskPrompts, At
  <1>3. op[o].does = "grant" /\ op[o].site \in Origins
    BY <1>1, <1>2 DEF OpOK
  <1>4. /\ OpOK(r) /\ r.at = "prompt" /\ r.does = op[o].does /\ r.site = op[o].site
        /\ r.list = op[o].list /\ r.gone = op[o].gone /\ r.fresh = op[o].fresh
    BY <1>1, <1>2 DEF OpOK, OpRecords, Stages, Exempt
  <1>5. UpToDate(r, stored, wish)
    <2>1. UpToDate(op[o], stored, wish)
      BY <1>1 DEF ListsUpToDate
    <2> HIDE DEF r
    <2>2. QED
      BY <1>2, <1>4, <2>1 DEF UpToDate, Holding, Exempt, Stands
  <1> HIDE DEF r, closed
  <1>6. \A p \in Ops : OpOK(op'[p]) /\ UpToDate(op'[p], stored, wish)
    BY <1>1, <1>2, <1>4, <1>5, RestOK DEF OpsOK, ListsUpToDate
  <1>7. OpsOK' /\ op' \in [Ops -> OpRecords]
    BY <1>2, <1>6 DEF OpsOK, OpOK
  <1>8. TypeOK'
    BY <1>1, <1>2, <1>3, <1>7 DEF TypeOK, OpsOK, OpOK, OpRecords, Mishaps
  <1>9. ListsUpToDate'
    BY <1>2, <1>6 DEF ListsUpToDate
  <1>10. ASSUME Clean' PROVE Reasons'
    <2>1. cut = {}
      BY <1>2, <1>10 DEF Clean
    <2>2. \A p \in Ops \ {o} : op[p].at \in Halfway => op'[p] = op[p]
      BY <1>2, <2>1
    <2> HIDE DEF cut
    <2>3. QED
      BY <1>1, <1>2, <2>2 DEF Reasons, GrantAwaited, RemovalDue, Halfway
  <1>11. QED
    BY <1>1, <1>2, <1>7, <1>8, <1>9, <1>10 DEF IInv, ListIsWished

LEMMA PromptAcceptedIInv == ASSUME IInv, NEW s \in Origins, PromptAccepted(s) PROVE IInv'
  <1>1. /\ TypeOK /\ OpsOK /\ ListIsWished /\ ListsUpToDate /\ Reasons
        /\ prompts' = prompts \ {s} /\ held' = held \union {s}
        /\ op' = [o \in Ops |-> IF o \in Asking(s) THEN Render ELSE op[o]]
        /\ mishaps' = mishaps \union (IF stored[s] = None THEN {"late answer"} ELSE {})
        /\ UNCHANGED <<now, stored, clicks, wish>>
    BY DEF IInv, PromptAccepted
  <1>2. \A o \in Ops : OpOK(op'[o]) /\ UpToDate(op'[o], stored, wish)
    BY <1>1, RestOK DEF OpsOK, ListsUpToDate
  <1>3. OpsOK' /\ op' \in [Ops -> OpRecords]
    BY <1>1, <1>2 DEF OpsOK, OpOK
  <1>4. TypeOK'
    BY <1>1, <1>3 DEF TypeOK, OpsOK, OpOK, OpRecords, Mishaps
  <1>5. ListsUpToDate'
    BY <1>1, <1>2 DEF ListsUpToDate
  <1>6. ASSUME Clean' PROVE Reasons'
    <2>1. stored[s] # None
      BY <1>1, <1>6 DEF Clean
    <2>2. \A o \in Ops : op[o].at # "prompt" => op'[o] = op[o]
      BY <1>1 DEF Asking
    <2>3. QED
      BY <1>1, <2>1, <2>2 DEF Reasons, GrantAwaited, RemovalDue
  <1>7. QED
    BY <1>1, <1>3, <1>4, <1>5, <1>6 DEF IInv, ListIsWished

LEMMA PromptDeclinedIInv == ASSUME IInv, NEW s \in Origins, PromptDeclined(s) PROVE IInv'
  <1>1. /\ TypeOK /\ OpsOK /\ ListIsWished /\ ListsUpToDate /\ Reasons
        /\ prompts' = prompts \ {s}
        /\ op' = [o \in Ops |-> IF o \in Asking(s) THEN [op[o] EXCEPT !.at = "undo"] ELSE op[o]]
        /\ mishaps' = mishaps \union (IF Asking(s) = {} THEN {"unheard decline"} ELSE {})
        /\ UNCHANGED <<now, stored, held, clicks, wish>>
    BY DEF IInv, PromptDeclined
  <1>2. ASSUME NEW o \in Asking(s)
        PROVE  /\ op'[o].at = "undo" /\ op'[o].site = s
               /\ OpOK(op'[o]) /\ UpToDate(op'[o], stored, wish)
    <2> DEFINE r == [op[o] EXCEPT !.at = "undo"]
    <2>1. /\ o \in Ops /\ op[o].at = "prompt" /\ op[o].site = s /\ op'[o] = r
          /\ OpOK(op[o]) /\ UpToDate(op[o], stored, wish)
      BY <1>1 DEF Asking, OpsOK, ListsUpToDate
    <2>2. /\ OpOK(r) /\ r.at = "undo" /\ r.does = op[o].does /\ r.site = s
          /\ r.list = op[o].list /\ r.gone = op[o].gone /\ r.fresh = op[o].fresh
      BY <2>1 DEF OpOK, OpRecords, Stages, Exempt
    <2> HIDE DEF r
    <2>3. UpToDate(r, stored, wish)
      BY <2>1, <2>2 DEF UpToDate, Holding, Exempt, Stands
    <2>4. QED
      BY <2>1, <2>2, <2>3
  <1>3. \A o \in Ops : OpOK(op'[o]) /\ UpToDate(op'[o], stored, wish)
    BY <1>1, <1>2 DEF OpsOK, ListsUpToDate
  <1>4. OpsOK' /\ op' \in [Ops -> OpRecords]
    BY <1>1, <1>3 DEF OpsOK, OpOK
  <1>5. TypeOK'
    BY <1>1, <1>4 DEF TypeOK, OpsOK, OpOK, OpRecords, Mishaps
  <1>6. ListsUpToDate'
    BY <1>1, <1>3 DEF ListsUpToDate
  <1>7. ASSUME Clean' PROVE Reasons'
    <2>1. PICK o \in Asking(s) : TRUE
      BY <1>1, <1>7 DEF Clean
    <2>2. o \in Ops /\ op'[o].at = "undo" /\ op'[o].site = s
      BY <1>2, <2>1 DEF Asking
    <2>3. \A p \in Ops : op[p].at # "prompt" => op'[p] = op[p]
      BY <1>1 DEF Asking
    <2>4. ASSUME NEW d \in Origins PROVE GrantAwaited(d)' /\ RemovalDue(d)'
      <3>1. GrantAwaited(d) /\ RemovalDue(d)
        BY <1>1 DEF Reasons
      <3>2. RemovalDue(d)'
        BY <1>1, <2>3, <3>1 DEF RemovalDue
      <3>3. CASE d = s
        BY <2>2, <3>2, <3>3 DEF GrantAwaited
      <3>4. CASE d # s
        <4>1. GrantAwaited(d)'
          BY <1>1, <2>3, <3>1, <3>4 DEF GrantAwaited
        <4>2. QED
          BY <3>2, <4>1
      <3>5. QED
        BY <3>3, <3>4
    <2>5. QED
      BY <1>1, <2>4 DEF Reasons
  <1>8. QED
    BY <1>1, <1>4, <1>5, <1>6, <1>7 DEF IInv, ListIsWished

LEMMA UndoIInv == ASSUME IInv, NEW o \in Ops, Undo(o) PROVE IInv'
  <1> DEFINE site == op[o].site
  <1>1. TypeOK /\ OpsOK /\ OpOK(op[o])
    BY DEF IInv, OpsOK
  <1>2. /\ op[o].at = "undo" /\ op[o].at \in Holding
        /\ stored' = op[o].list /\ op' = Written(o, Rest)
        /\ mishaps' = mishaps \union StaleWrite(o)
                       \union (IF site \in held THEN {"late answer"} ELSE {})
        /\ wish' = [wish EXCEPT ![site] = None]
        /\ UNCHANGED <<now, held, prompts, clicks>>
    BY DEF Undo, At, Holding
  <1>3. site \in Origins /\ op[o].does = "grant" /\ op[o].list[site] = None
    BY <1>1, <1>2 DEF OpOK, Exempt
  <1>4. OpsOK' /\ op' \in [Ops -> OpRecords]
    BY <1>1, <1>2, RestOK, WrittenOps
  <1>5. /\ stored'[site] = None /\ wish'[site] = None /\ wish' \in Lists
        /\ \A s \in Origins \ {site} : stored'[s] = op[o].list[s] /\ wish'[s] = wish[s]
    BY <1>1, <1>2, <1>3 DEF TypeOK, Lists
  <1>6. TypeOK'
    BY <1>1, <1>2, <1>4, <1>5, ListType DEF TypeOK, OpsOK, OpOK, OpRecords, StaleWrite, Mishaps
  <1>7. ASSUME Clean' PROVE ListIsWished' /\ ListsUpToDate' /\ Reasons'
    <2>1. /\ StaleWrite(o) \subseteq mishaps' /\ mishaps \subseteq mishaps'
          /\ site \notin held /\ mishaps = {}
      BY <1>2, <1>7 DEF Clean
    <2>2. \A s \in Origins \ {site} : Stands(op[o], s, stored[s], wish[s])
      BY <1>2, <1>7, <2>1, FreshList DEF Exempt
    <2>3. \A s \in Origins \ {site} : /\ Wished(stored'[s], wish'[s])
                                      /\ stored'[s] = None <=> stored[s] = None
      BY <1>2, <1>5, <2>2 DEF Stands
    <2>4. ListIsWished'
      BY <1>5, <2>3 DEF ListIsWished, Wished
    <2>5. ListsUpToDate'
      BY <1>1, <1>2, RestOK, WrittenLists
    <2>6. Reasons
      BY <2>1 DEF IInv, Clean
    <2>7. ASSUME NEW s \in Origins PROVE GrantAwaited(s)' /\ RemovalDue(s)'
      <3>1. CASE s = site
        <4>1. stored'[s] = None /\ s \notin held'
          BY <1>2, <1>5, <2>1, <3>1
        <4>2. QED
          BY <4>1 DEF GrantAwaited, RemovalDue
      <3>2. CASE s # site
        <4>1. \A p \in Ops \ {o} : op'[p].at = op[p].at /\ op'[p].site = op[p].site
                                                      /\ op'[p].gone = op[p].gone
          BY <1>1, <1>2, WrittenOthers
        <4>2. GrantAwaited(s) /\ RemovalDue(s)
          BY <2>6 DEF Reasons
        <4>3. /\ held' = held /\ prompts' = prompts /\ (stored'[s] = None <=> stored[s] = None)
              /\ op[o].at = "undo" /\ op[o].site # s
          BY <1>2, <2>3, <3>2
        <4>4. GrantAwaited(s)'
          BY <4>1, <4>2, <4>3 DEF GrantAwaited
        <4>5. RemovalDue(s)'
          BY <4>1, <4>2, <4>3 DEF RemovalDue
        <4>6. QED
          BY <4>4, <4>5
      <3>3. QED
        BY <3>1, <3>2
    <2>8. QED
      BY <1>2, <2>4, <2>5, <2>6, <2>7 DEF Reasons
  <1>8. QED
    BY <1>4, <1>6, <1>7 DEF IInv

LEMMA RevokeSavesIInv == ASSUME IInv, NEW o \in Ops, RevokeSaves(o) PROVE IInv'
  <1> DEFINE site == op[o].site
             r == [op[o] EXCEPT !.at = "drop"]
  <1>1. TypeOK /\ OpsOK /\ OpOK(op[o])
    BY DEF IInv, OpsOK
  <1>2. /\ op[o].at = "save" /\ op[o].does = "revoke" /\ op[o].at \in Holding
        /\ stored' = op[o].list /\ op' = Written(o, r) /\ mishaps' = mishaps \union StaleWrite(o)
        /\ wish' = [wish EXCEPT ![site] = None]
        /\ UNCHANGED <<now, held, prompts, clicks>>
    BY DEF RevokeSaves, At, Write, Holding
  <1>3. site \in Origins /\ op[o].list[site] = None
    BY <1>1, <1>2 DEF OpOK, Exempt
  <1>4. OpOK(r) /\ r.at = "drop" /\ r.site = site
    BY <1>1, <1>2 DEF OpOK, OpRecords, Stages, Exempt
  <1> HIDE DEF r
  <1>5. OpsOK' /\ op' \in [Ops -> OpRecords]
    BY <1>1, <1>2, <1>4, WrittenOps
  <1>6. /\ stored'[site] = None /\ wish'[site] = None /\ wish' \in Lists
        /\ \A s \in Origins \ {site} : stored'[s] = op[o].list[s] /\ wish'[s] = wish[s]
    BY <1>1, <1>2, <1>3 DEF TypeOK, Lists
  <1>7. TypeOK'
    BY <1>1, <1>2, <1>5, <1>6, ListType DEF TypeOK, OpsOK, OpOK, OpRecords, StaleWrite, Mishaps
  <1>8. ASSUME Clean' PROVE ListIsWished' /\ ListsUpToDate' /\ Reasons'
    <2>1. \A s \in Origins \ {site} : Stands(op[o], s, stored[s], wish[s])
      BY <1>2, <1>8, FreshList DEF Exempt
    <2>2. \A s \in Origins \ {site} : /\ Wished(stored'[s], wish'[s])
                                      /\ stored'[s] = None <=> stored[s] = None
      BY <1>2, <1>6, <2>1 DEF Stands
    <2>3. ListIsWished'
      BY <1>6, <2>2 DEF ListIsWished, Wished
    <2>4. UpToDate(r, stored', wish')
      BY <1>4 DEF UpToDate, Holding
    <2>5. ListsUpToDate'
      BY <1>1, <1>2, <2>4, WrittenLists
    <2>6. Reasons
      BY <1>2, <1>8 DEF IInv, Clean
    <2>7. ASSUME NEW s \in Origins PROVE GrantAwaited(s)' /\ RemovalDue(s)'
      <3>1. CASE s = site
        BY <1>1, <1>2, <1>4, <1>6, <3>1, WrittenOthers DEF GrantAwaited, RemovalDue
      <3>2. CASE s # site
        BY <1>1, <1>2, <2>2, <2>6, <3>2, WrittenOthers DEF Reasons, GrantAwaited, RemovalDue
      <3>3. QED
        BY <3>1, <3>2
    <2>8. QED
      BY <1>2, <2>3, <2>5, <2>6, <2>7 DEF Reasons
  <1>9. QED
    BY <1>5, <1>7, <1>8 DEF IInv

LEMMA RevokeDropsIInv == ASSUME IInv, NEW o \in Ops, RevokeDrops(o) PROVE IInv'
  <1>1. /\ TypeOK /\ OpsOK /\ ListIsWished /\ ListsUpToDate /\ Reasons
        /\ op[o].at = "drop" /\ op' = [op EXCEPT ![o] = Render]
        /\ op[o].site \notin Required /\ Remove(op[o].site)
        /\ UNCHANGED <<now, stored, prompts, clicks, wish>>
    BY DEF IInv, RevokeDrops, At
  <1>2. OpsOK' /\ op' \in [Ops -> OpRecords]
    BY <1>1, RestOK, QuietOps
  <1>3. TypeOK'
    BY <1>1, <1>2 DEF TypeOK, OpsOK, OpOK, OpRecords, Remove, Mishaps
  <1>4. ListsUpToDate'
    BY <1>1, RestOK, QuietLists
  <1>5. ASSUME Clean' PROVE Reasons'
    <2>1. stored[op[o].site] = None /\ held' = held \ {op[o].site}
      BY <1>1, <1>5 DEF Remove, Clean
    <2>2. \A p \in Ops \ {o} : op'[p] = op[p]
      BY <1>1 DEF TypeOK
    <2>3. QED
      BY <1>1, <2>1, <2>2 DEF Reasons, GrantAwaited, RemovalDue
  <1>6. QED
    BY <1>1, <1>2, <1>3, <1>4, <1>5 DEF IInv, ListIsWished

LEMMA RevokeRejectedIInv == ASSUME IInv, NEW o \in Ops, RevokeRejected(o) PROVE IInv'
  <1>1. /\ TypeOK /\ OpsOK /\ Clean /\ ListIsWished /\ ListsUpToDate /\ Reasons
        /\ op[o].at = "drop" /\ op[o].site \in Required /\ op' = [op EXCEPT ![o] = Rest]
        /\ UNCHANGED <<now, stored, held, prompts, clicks, wish, mishaps>>
    BY DEF IInv, RevokeRejected, At
  <1>2. OpsOK' /\ op' \in [Ops -> OpRecords]
    BY <1>1, RestOK, QuietOps
  <1>3. TypeOK'
    BY <1>1, <1>2 DEF TypeOK, OpsOK, OpOK, OpRecords
  <1>4. ListsUpToDate'
    BY <1>1, RestOK, QuietLists
  <1>5. Reasons'
    <2>1. \A p \in Ops \ {o} : op'[p] = op[p]
      BY <1>1 DEF TypeOK
    <2>2. QED
      BY <1>1, <2>1 DEF Reasons, GrantAwaited, RemovalDue
  <1>6. QED
    BY <1>1, <1>2, <1>3, <1>4, <1>5 DEF IInv, ListIsWished

\* An operation that starts has read nothing.
LEMMA StartIInv ==
    ASSUME IInv, NEW o \in Ops, NEW does \in {"list", "use", "grant", "revoke"},
           NEW s \in Origins \union {None}, NEW g \in Grants \union {None},
           does # "list" => s \in Origins, does = "grant" => g \in Grants,
           Start(o, does, s, g), clicks' \in Nat, clicks' <= MaxClicks
    PROVE  IInv'
  <1> DEFINE r == [Rest EXCEPT !.does = does, !.at = "get", !.site = s, !.grant = g]
  <1>1. /\ TypeOK /\ OpsOK /\ Clean /\ ListIsWished /\ ListsUpToDate /\ Reasons
        /\ op[o].at = "idle" /\ op' = [op EXCEPT ![o] = r]
        /\ UNCHANGED <<now, stored, held, prompts, wish, mishaps>>
    BY DEF IInv, Start, At
  <1>2. OpOK(r) /\ UpToDate(r, stored, wish)
    <2>1. NoList \in Lists
      BY DEF NoList, Lists
    <2>2. r \in OpRecords
      BY <2>1, ZeroOnTheClock DEF OpRecords, Rest, Deeds, Stages
    <2>3. r.does = does /\ r.at = "get" /\ r.site = s /\ r.grant = g
      BY DEF Rest
    <2>4. QED
      BY <2>2, <2>3 DEF OpOK, Exempt, UpToDate, Holding
  <1> HIDE DEF r
  <1>3. OpsOK' /\ op' \in [Ops -> OpRecords]
    BY <1>1, <1>2, QuietOps
  <1>4. TypeOK'
    BY <1>1, <1>3 DEF TypeOK, OpsOK, OpOK, OpRecords
  <1>5. ListsUpToDate'
    BY <1>1, <1>2, QuietLists
  <1>6. Reasons'
    <2>1. \A p \in Ops \ {o} : op'[p] = op[p]
      BY <1>1 DEF TypeOK
    <2>2. QED
      BY <1>1, <2>1 DEF Reasons, GrantAwaited, RemovalDue
  <1>7. QED
    BY <1>1, <1>3, <1>4, <1>5, <1>6 DEF IInv, ListIsWished

\* What the worker starts, and what the user's clicks start.
LEMMA StartsIInv ==
    ASSUME IInv,
           \/ WorkerLists
           \/ \E s \in Origins : WorkerUses(s) \/ ClickGrant(s) \/ ClickRevoke(s)
    PROVE  IInv'
  <1>1. TypeOK
    BY DEF IInv
  <1>2. CASE WorkerLists
    BY <1>1, <1>2, StartIInv DEF WorkerLists, Ops, TypeOK
  <1>3. ASSUME NEW s \in Origins, WorkerUses(s) PROVE IInv'
    BY <1>1, <1>3, StartIInv DEF WorkerUses, Ops, TypeOK
  <1>4. ASSUME NEW s \in Origins, ClickGrant(s) PROVE IInv'
    <2>1. PICK o \in PopupOps \union OptionsOps, c \in Choices :
              Click(o, "grant", s, [tier |-> c.tier,
                                    expiresAt |-> IF c.timed THEN now + Idle ELSE Never,
                                    idle |-> IF c.timed THEN Idle ELSE 0])
      BY <1>4 DEF ClickGrant
    <2> DEFINE g == [tier |-> c.tier,
                     expiresAt |-> IF c.timed THEN now + Idle ELSE Never,
                     idle |-> IF c.timed THEN Idle ELSE 0]
    <2>2. g \in Grants
      BY <1>1, GrantsAssumption DEF Grants, TypeOK
    <2> HIDE DEF g
    <2>3. Start(o, "grant", s, g) /\ clicks < MaxClicks /\ clicks' = clicks + 1
      BY <2>1 DEF Click, g
    <2>4. clicks' \in Nat /\ clicks' <= MaxClicks
      BY <1>1, <2>3, GrantsAssumption DEF TypeOK
    <2>5. o \in Ops
      BY DEF Ops
    <2>6. QED
      BY <2>2, <2>3, <2>4, <2>5, StartIInv
  <1>5. ASSUME NEW s \in Origins, ClickRevoke(s) PROVE IInv'
    <2>1. PICK o \in PopupOps \union OptionsOps : Click(o, "revoke", s, None)
      BY <1>5 DEF ClickRevoke
    <2>2. Start(o, "revoke", s, None) /\ clicks < MaxClicks /\ clicks' = clicks + 1 /\ o \in Ops
      BY <2>1 DEF Click, Ops
    <2>3. clicks' \in Nat /\ clicks' <= MaxClicks
      BY <1>1, <2>2, GrantsAssumption DEF TypeOK
    <2>4. QED
      BY <2>2, <2>3, StartIInv
  <1>6. QED
    BY <1>2, <1>3, <1>4, <1>5

LEMMA ContextEndsIInv == ASSUME IInv, ContextEnds PROVE IInv'
  <1>1. PICK context \in {WorkerOps, PopupOps, OptionsOps} :
            /\ op' = [o \in Ops |-> IF o \in context THEN Rest ELSE op[o]]
            /\ mishaps' = mishaps \union
                  (IF \E o \in context : op[o].at \in Halfway THEN {"interrupted"} ELSE {})
    BY DEF ContextEnds
  <1>2. /\ TypeOK /\ OpsOK /\ ListIsWished /\ ListsUpToDate /\ Reasons
        /\ UNCHANGED <<now, stored, held, prompts, clicks, wish>>
    BY DEF IInv, ContextEnds
  <1>3. \A o \in Ops : OpOK(op'[o]) /\ UpToDate(op'[o], stored, wish)
    BY <1>1, <1>2, RestOK DEF OpsOK, ListsUpToDate
  <1>4. OpsOK' /\ op' \in [Ops -> OpRecords]
    BY <1>1, <1>3 DEF OpsOK, OpOK
  <1>5. TypeOK'
    BY <1>1, <1>2, <1>4 DEF TypeOK, OpsOK, OpOK, OpRecords, Mishaps
  <1>6. ListsUpToDate'
    BY <1>2, <1>3 DEF ListsUpToDate
  <1>7. ASSUME Clean' PROVE Reasons'
    <2>1. \A o \in context : op[o].at \notin Halfway
      BY <1>1, <1>7 DEF Clean
    <2>2. \A o \in Ops : op[o].at \in Halfway => op'[o] = op[o]
      BY <1>1, <2>1
    <2>3. QED
      BY <1>2, <2>2 DEF Reasons, GrantAwaited, RemovalDue, Halfway
  <1>8. QED
    BY <1>2, <1>4, <1>5, <1>6, <1>7 DEF IInv, ListIsWished

\* Time makes grants expire, but whether a grant has expired is decided when it is read.
LEMMA TickIInv == ASSUME IInv, Tick PROVE IInv'
  <1>1. /\ TypeOK /\ OpsOK /\ Clean /\ ListIsWished /\ ListsUpToDate /\ Reasons
        /\ now' = now + 1 /\ now < MaxTime
        /\ UNCHANGED <<stored, held, op, prompts, clicks, wish, mishaps>>
    BY DEF IInv, Tick
  <1>2. TypeOK'
    BY <1>1, GrantsAssumption DEF TypeOK
  <1>3. OpsOK' /\ ListIsWished' /\ ListsUpToDate' /\ Reasons'
    BY <1>1 DEF OpsOK, ListIsWished, ListsUpToDate, Reasons, GrantAwaited, RemovalDue
  <1>4. QED
    BY <1>2, <1>3 DEF IInv

LEMMA InitIInv == ASSUME Init PROVE IInv
  <1> DEFINE old == [tier |-> "full", expiresAt |-> 1, idle |-> 0]
  <1>1. old \in Grants
    BY GrantsAssumption DEF Grants, Tiers
  <1> HIDE DEF old
  <1>2. stored \in [Origins -> {None, old}] /\ wish = stored
    BY Zenon DEF Init, old
  <1>3. stored \in Lists /\ wish \in Lists
    BY <1>1, <1>2 DEF Lists
  <1>4. /\ held = Required \union {s \in Origins : stored[s] # None} /\ op = [o \in Ops |-> Rest]
        /\ now = 0 /\ prompts = {} /\ clicks = 0 /\ mishaps = {}
    BY DEF Init
  <1>5. OpsOK /\ op \in [Ops -> OpRecords] /\ ListsUpToDate
    BY <1>4, RestOK DEF OpsOK, OpOK, ListsUpToDate
  <1>6. TypeOK
    BY <1>3, <1>4, <1>5, OpsType, GrantsAssumption DEF TypeOK
  <1>7. ListIsWished /\ Reasons
    BY <1>2, <1>4 DEF ListIsWished, Wished, Reasons, GrantAwaited, RemovalDue
  <1>8. QED
    BY <1>5, <1>6, <1>7 DEF IInv

LEMMA NextIInv == ASSUME IInv, [Next]_vars PROVE IInv'
  <1>1. ASSUME NEW o \in Ops, Step(o) PROVE IInv'
    BY <1>1, GetIInv, PurgeIInv, ReleaseIInv, ReleaseRejectedIInv, TouchSavesIInv, GrantSavesIInv,
       AskGrantedIInv, AskRejectedIInv, AskPromptsIInv, UndoIInv, RevokeSavesIInv, RevokeDropsIInv,
       RevokeRejectedIInv DEF Step
  <1>2. ASSUME NEW s \in Origins, PromptAccepted(s) \/ PromptDeclined(s) PROVE IInv'
    BY <1>2, PromptAcceptedIInv, PromptDeclinedIInv
  <1>3. CASE UNCHANGED vars
    BY <1>3 DEF vars, IInv, TypeOK, OpsOK, Clean, ListIsWished, ListsUpToDate, Reasons,
               GrantAwaited, RemovalDue
  <1>4. QED
    BY <1>1, <1>2, <1>3, StartsIInv, ContextEndsIInv, TickIInv DEF Next

-----------------------------------------------------------------------------
(* Theorems *)

LEMMA Invariance == Spec => []IInv
  <1>1. Init => IInv
    BY InitIInv
  <1>2. IInv /\ [Next]_vars => IInv'
    BY NextIInv
  <1>3. QED
    BY <1>1, <1>2, PTL DEF Spec

\* Every step keeps every variable in its set, whatever the interleaving.
THEOREM TypeCorrect == Spec => []TypeOK
  <1>1. IInv => TypeOK
    BY DEF IInv
  <1>2. QED
    BY <1>1, Invariance, PTL

\* Whatever the service worker, the popup and the options page do at the same time, the list holds
\* what the user asked for last until one of the named mishaps happens.
THEOREM WishKept == Spec => []ListKeepsTheUsersWish
  <1>1. IInv => ListKeepsTheUsersWish
    BY DEF IInv, ListKeepsTheUsersWish, ListIsWished, Wished
  <1>2. QED
    BY <1>1, Invariance, PTL

\* And with nothing under way, Chrome has the permissions of the sites with a grant, those that are
\* required, and no others.
THEOREM PermissionsAgree == Spec => []GrantsAndPermissionsAgree
  <1>1. ASSUME IInv, Clean, Quiet
               PROVE held = Required \union {s \in Origins : stored[s] # None}
    <2>1. Reasons /\ held \subseteq Origins /\ prompts = {} /\ \A o \in Ops : op[o].at = "idle"
      BY <1>1 DEF IInv, TypeOK, Quiet
    <2>2. QED
      BY <2>1, GrantsAssumption DEF Reasons, GrantAwaited, RemovalDue
  <1>2. IInv => GrantsAndPermissionsAgree
    BY <1>1 DEF GrantsAndPermissionsAgree
  <1>3. QED
    BY <1>2, Invariance, PTL

=============================================================================
