---------------------------- MODULE ClientProofs ----------------------------
(***************************************************************************)
(* Theorems about what a browser keeps of individuals, for any number of   *)
(* tabs, individuals, contents and failing calls.                          *)
(***************************************************************************)
EXTENDS Client, FiniteSetTheorems, WellFoundedInduction, TLAPS

(* A tab and the drafts on disk, with contents of the set V.               *)
Obj(V)   == [u: Uris, v: V, base: V, new: BOOLEAN, sync: BOOLEAN]
Pages(V) == [open: BOOLEAN, objs: Seq(Obj(V)), cache: [Uris -> Nat], dr: [Uris -> Nat],
             page: Nat, edit: BOOLEAN, ready: BOOLEAN, told: V]
State(V) == [c: Pages(V), d: [Uris -> V]]

\* References lead to objects of the same individual.
Pointers(c) ==
  /\ c.page \in 0 .. Len(c.objs)
  /\ \A u \in Uris : c.cache[u] \in 0 .. Len(c.objs) /\ c.dr[u] \in 0 .. Len(c.objs)
  /\ \A u \in Uris : /\ c.cache[u] # 0 => c.objs[c.cache[u]].u = u
                     /\ c.dr[u] # 0 => c.objs[c.dr[u]].u = u

\* A draft is unsaved; the object e is looked at later.
Drafts(c, e) == \A u \in Uris : c.dr[u] \in {0, e} \/ ~c.objs[c.dr[u]].sync

\* The object of the page, and the one of a draft, is the object of the cache.
Links(c) ==
  /\ \A u \in Uris : c.dr[u] \in {0, c.cache[u]}
  /\ c.page # 0 => c.cache[c.objs[c.page].u] = c.page

\* A content that is not settled is a draft, but for the object e.
Held(c, ok, e) ==
  \A k \in 1 .. Len(c.objs) :
    k = e \/ c.objs[k].v \in ok \/ (~c.objs[k].sync /\ c.dr[c.objs[k].u] = k)

\* The disk has the drafts, but for the one that is e.
OnDisk(s, e) ==
  \A u \in Uris :
    \/ s.d[u] = IF s.c.dr[u] = 0 THEN 0 ELSE s.c.objs[s.c.dr[u]].v
    \/ e # 0 /\ s.c.dr[u] = e /\ s.c.objs[e].v # 0

\* What holds of a tab: s has contents of V, and those of ok are settled.
ThingsOf(g) == g.thing /\ "refused" \notin g.errors /\ g.logouts = 0
SoleOf(g)   == ThingsOf(g) /\ \E t \in Tabs : g.tabs = {t}

Good(g, s, V, ok, e) ==
  /\ s \in State(V) /\ Pointers(s.c) /\ Drafts(s.c, e)
  /\ g.logouts = 0 => Links(s.c)
  /\ ThingsOf(g) => Held(s.c, ok, e)
  /\ SoleOf(g) /\ s.c.open => OnDisk(s, e)

\* What is typed in a page before it is ready is not a draft yet.
Exempt(c) == IF c.edit /\ ~c.ready THEN c.page ELSE 0

Fine(g, s, V, ok) ==
  /\ Good(g, s, V, ok, Exempt(s.c)) /\ Drafts(s.c, 0)
  /\ ThingsOf(g) /\ Exempt(s.c) # 0 /\ s.c.objs[Exempt(s.c)].sync =>
       s.c.objs[Exempt(s.c)].v \in ok

Settled == stored \cup given \cup {0}

\* The content x is one of an object of the tab, or on disk.
Somewhere(c, d, x) ==
  \/ c.open /\ \E k \in 1 .. Len(c.objs) : c.objs[k].v = x
  \/ ~c.open /\ \E u \in Uris : d[u] = x

World ==
  /\ setting \in Settings /\ last \in Nat \ {0} /\ stored \subseteq Content /\ given \subseteq Content
  /\ db \in [Uris -> Content] /\ DOMAIN tab = Tabs
  /\ \A u \in Uris : db[u] \in Settled

Inv ==
  /\ World /\ disk \in [Uris -> Content]
  /\ \A t \in Tabs : Fine(setting, In(t), Content, Settled)
  /\ \A t \in Tabs : ~tab[t].open \/ t \notin setting.tabs => tab[t] = Closed
  /\ SoleOf(setting) => \A t \in setting.tabs : \A x \in 1 .. last :
       x \in Settled \/ Somewhere(tab[t], disk, x)
-----------------------------------------------------------------------------
(***************************************************************************)
(* Sequences and records.                                                  *)
(***************************************************************************)

\* A sequence of a larger set.
LEMMA SeqGrows ==
  ASSUME NEW A, NEW B, A \subseteq B, NEW q \in Seq(A)
  PROVE  q \in Seq(B)
OBVIOUS

\* A sequence with one element replaced.
LEMMA ReplaceFacts ==
  ASSUME NEW S, NEW q \in Seq(S), NEW o \in 1 .. Len(q), NEW z \in S
  PROVE  /\ [q EXCEPT ![o] = z] \in Seq(S) /\ Len([q EXCEPT ![o] = z]) = Len(q)
         /\ [q EXCEPT ![o] = z][o] = z
         /\ \A k \in 1 .. Len(q) : k # o => [q EXCEPT ![o] = z][k] = q[k]
OBVIOUS

\* Some natural numbers have a smallest one.
LEMMA MinExists ==
  ASSUME NEW T, T \subseteq Nat, T # {}
  PROVE  \E x \in T : \A y \in T : x <= y
<1> DEFINE R == OpToRel(<, Nat)
<1>1. IsWellFoundedOn(R, Nat)
  BY NatLessThanWellFounded
<1>2. \A x, y \in Nat : x < y => <<x, y>> \in R
  BY DEF OpToRel
<1> HIDE DEF R
<1>3. PICK x \in T : \A y \in T : ~(<<y, x>> \in R)
  BY <1>1, WFMin
<1>4. ASSUME NEW y \in T PROVE x <= y
  <2>1. x \in Nat /\ y \in Nat
    OBVIOUS
  <2>2. ~(y < x)
    BY <1>2, <1>3, <2>1
  <2> QED
    BY <2>1, <2>2
<1> QED
  BY <1>4

\* The fields of a tab.
LEMMA StateFacts ==
  ASSUME NEW V, NEW s \in State(V)
  PROVE  /\ s.c.open \in BOOLEAN /\ s.c.objs \in Seq(Obj(V)) /\ s.c.cache \in [Uris -> Nat]
         /\ s.c.dr \in [Uris -> Nat] /\ s.c.page \in Nat /\ s.c.edit \in BOOLEAN
         /\ s.c.ready \in BOOLEAN /\ s.c.told \in V /\ s.d \in [Uris -> V]
         /\ Len(s.c.objs) \in Nat /\ s.c \in Pages(V)
         /\ \A k \in 1 .. Len(s.c.objs) : s.c.objs[k] \in Obj(V)
<1>1. s.c \in Pages(V) /\ s.d \in [Uris -> V]
  BY DEF State
<1>2. /\ s.c.open \in BOOLEAN /\ s.c.objs \in Seq(Obj(V)) /\ s.c.cache \in [Uris -> Nat]
      /\ s.c.dr \in [Uris -> Nat] /\ s.c.page \in Nat /\ s.c.edit \in BOOLEAN
      /\ s.c.ready \in BOOLEAN /\ s.c.told \in V
  BY <1>1 DEF Pages
<1>3. Len(s.c.objs) \in Nat /\ \A k \in 1 .. Len(s.c.objs) : s.c.objs[k] \in Obj(V)
  BY <1>2
<1> QED
  BY <1>1, <1>2, <1>3

\* A tab from its fields.
LEMMA StateMade ==
  ASSUME NEW V, NEW op \in BOOLEAN, NEW ob \in Seq(Obj(V)), NEW ca \in [Uris -> Nat],
         NEW dr \in [Uris -> Nat], NEW pa \in Nat, NEW ed \in BOOLEAN, NEW re \in BOOLEAN,
         NEW to \in V, NEW d \in [Uris -> V]
  PROVE  [c |-> [open |-> op, objs |-> ob, cache |-> ca, dr |-> dr, page |-> pa, edit |-> ed,
                 ready |-> re, told |-> to], d |-> d] \in State(V)
BY DEF State, Pages

\* A page with other objects, with another cache, with other drafts.
LEMMA PageObjs ==
  ASSUME NEW V, NEW c \in Pages(V), NEW q \in Seq(Obj(V)), NEW x, x = [c EXCEPT !.objs = q]
  PROVE  /\ x \in Pages(V) /\ x.objs = q
         /\ x.open = c.open /\ x.cache = c.cache /\ x.dr = c.dr
         /\ x.page = c.page /\ x.edit = c.edit /\ x.ready = c.ready /\ x.told = c.told
BY DEF Pages

\* The same for the cache.
LEMMA PageCache ==
  ASSUME NEW V, NEW c \in Pages(V), NEW q \in [Uris -> Nat], NEW x, x = [c EXCEPT !.cache = q]
  PROVE  /\ x \in Pages(V) /\ x.cache = q
         /\ x.open = c.open /\ x.objs = c.objs /\ x.dr = c.dr
         /\ x.page = c.page /\ x.edit = c.edit /\ x.ready = c.ready /\ x.told = c.told
BY DEF Pages

\* The same for the drafts.
LEMMA PageDr ==
  ASSUME NEW V, NEW c \in Pages(V), NEW q \in [Uris -> Nat], NEW x, x = [c EXCEPT !.dr = q]
  PROVE  /\ x \in Pages(V) /\ x.dr = q
         /\ x.open = c.open /\ x.objs = c.objs /\ x.cache = c.cache
         /\ x.page = c.page /\ x.edit = c.edit /\ x.ready = c.ready /\ x.told = c.told
BY DEF Pages

\* A tab with another page or another disk.
LEMMA PairFacts ==
  ASSUME NEW V, NEW s \in State(V)
  PROVE  /\ \A c \in Pages(V) : /\ [s EXCEPT !.c = c] \in State(V) /\ [s EXCEPT !.c = c].c = c
                                /\ [s EXCEPT !.c = c].d = s.d
         /\ \A d \in [Uris -> V] : /\ [s EXCEPT !.d = d] \in State(V) /\ [s EXCEPT !.d = d].d = d
                                   /\ [s EXCEPT !.d = d].c = s.c
<1>1. ASSUME NEW c \in Pages(V) PROVE /\ [s EXCEPT !.c = c] \in State(V) /\ [s EXCEPT !.c = c].c = c
                                      /\ [s EXCEPT !.c = c].d = s.d
  BY DEF State
<1>2. ASSUME NEW d \in [Uris -> V] PROVE /\ [s EXCEPT !.d = d] \in State(V) /\ [s EXCEPT !.d = d].d = d
                                         /\ [s EXCEPT !.d = d].c = s.c
  BY DEF State
<1> QED
  BY <1>1, <1>2

Rest(x, s) ==
  /\ x.c.open = s.c.open /\ x.c.cache = s.c.cache /\ x.c.page = s.c.page
  /\ x.c.edit = s.c.edit /\ x.c.ready = s.c.ready /\ x.c.told = s.c.told
  /\ Len(x.c.objs) = Len(s.c.objs)

\* An object with new fields.
LEMMA WithFacts ==
  ASSUME NEW V, NEW s \in State(V), NEW o \in 1 .. Len(s.c.objs), NEW z \in Obj(V),
         NEW x, x = With(s, o, z)
  PROVE  /\ x \in State(V) /\ Rest(x, s) /\ x.c.dr = s.c.dr /\ x.d = s.d
         /\ x.c.objs[o] = z /\ \A k \in 1 .. Len(s.c.objs) : k # o => x.c.objs[k] = s.c.objs[k]
<1>1. s.c \in Pages(V) /\ s.c.objs \in Seq(Obj(V))
  BY StateFacts
<1>2. PICK q : q = [s.c.objs EXCEPT ![o] = z]
  OBVIOUS
<1>3. /\ q \in Seq(Obj(V)) /\ Len(q) = Len(s.c.objs) /\ q[o] = z
      /\ \A k \in 1 .. Len(s.c.objs) : k # o => q[k] = s.c.objs[k]
  BY <1>1, <1>2, ReplaceFacts
<1>4. x = [s EXCEPT !.c = [s.c EXCEPT !.objs = q]]
  BY <1>2 DEF With, State, Pages
<1>5. PICK c : c = [s.c EXCEPT !.objs = q]
  OBVIOUS
<1>6. /\ c \in Pages(V) /\ c.objs = q /\ c.open = s.c.open /\ c.cache = s.c.cache /\ c.dr = s.c.dr
      /\ c.page = s.c.page /\ c.edit = s.c.edit /\ c.ready = s.c.ready /\ c.told = s.c.told
  BY <1>1, <1>3, <1>5, PageObjs
<1>7. x = [s EXCEPT !.c = c]
  BY <1>4, <1>5
<1>8. x \in State(V) /\ x.c = c /\ x.d = s.d
  BY <1>6, <1>7, PairFacts
<1> QED
  BY <1>3, <1>6, <1>8 DEF Rest

\* The draft of an individual.
LEMMA KeepsFacts ==
  ASSUME NEW V, NEW s \in State(V), NEW u \in Uris, NEW n \in Nat,
         NEW x, x = Keeps(s, u, n)
  PROVE  /\ x \in State(V) /\ Rest(x, s) /\ x.c.objs = s.c.objs /\ x.d = s.d
         /\ x.c.dr = [s.c.dr EXCEPT ![u] = n]
<1>1. s.c \in Pages(V) /\ s.c.dr \in [Uris -> Nat]
  BY StateFacts
<1>2. PICK f : f = [s.c.dr EXCEPT ![u] = n]
  OBVIOUS
<1>3. f \in [Uris -> Nat]
  BY <1>1, <1>2
<1>4. x = [s EXCEPT !.c = [s.c EXCEPT !.dr = f]]
  BY <1>2 DEF Keeps, State, Pages
<1>5. PICK c : c = [s.c EXCEPT !.dr = f]
  OBVIOUS
<1>6. /\ c \in Pages(V) /\ c.dr = f /\ c.open = s.c.open /\ c.cache = s.c.cache /\ c.objs = s.c.objs
      /\ c.page = s.c.page /\ c.edit = s.c.edit /\ c.ready = s.c.ready /\ c.told = s.c.told
  BY <1>1, <1>3, <1>5, PageDr
<1>7. x = [s EXCEPT !.c = c]
  BY <1>4, <1>5
<1>8. x \in State(V) /\ x.c = c /\ x.d = s.d
  BY <1>6, <1>7, PairFacts
<1> QED
  BY <1>2, <1>6, <1>8 DEF Rest

Exact(s) == \A u \in Uris : s.d[u] = IF s.c.dr[u] = 0 THEN 0 ELSE s.c.objs[s.c.dr[u]].v

\* localStorage is written.
LEMMA WrittenFacts ==
  ASSUME NEW V, 0 \in V, NEW s \in State(V), Pointers(s.c), NEW x, x = Written(s)
  PROVE  x \in State(V) /\ x.c = s.c /\ Exact(x)
<1>1. PICK d : d = [u \in Uris |-> IF s.c.dr[u] = 0 THEN 0 ELSE s.c.objs[s.c.dr[u]].v]
  OBVIOUS
<1>2. ASSUME NEW u \in Uris PROVE d[u] \in V
  <2>1. CASE s.c.dr[u] = 0
    BY <1>1, <2>1
  <2>2. CASE s.c.dr[u] # 0
    <3>1. s.c.dr[u] \in 1 .. Len(s.c.objs)
      BY <2>2, StateFacts DEF Pointers
    <3>2. s.c.objs[s.c.dr[u]] \in Obj(V)
      BY <3>1, StateFacts
    <3> QED
      BY <1>1, <2>2, <3>2 DEF Obj
  <2> QED
    BY <2>1, <2>2
<1>3. d \in [Uris -> V]
  BY <1>1, <1>2
<1>4. x = [s EXCEPT !.d = d]
  BY <1>1 DEF Written
<1>5. x \in State(V) /\ x.c = s.c /\ x.d = d
  BY <1>3, <1>4, PairFacts
<1> QED
  BY <1>1, <1>5 DEF Exact

\* The objects keep all but the flags, and the tab all but objects and drafts.
Alike(x, s) ==
  /\ Rest(x, s)
  /\ \A k \in 1 .. Len(s.c.objs) :
       /\ x.c.objs[k].u = s.c.objs[k].u /\ x.c.objs[k].v = s.c.objs[k].v
       /\ x.c.objs[k].base = s.c.objs[k].base /\ x.c.objs[k].new = s.c.objs[k].new

\* A draft is changed to an object of its individual.
Redrafted(x, s, u, n) ==
  /\ Rest(x, s) /\ \A k \in 1 .. Len(s.c.objs) : x.c.objs[k].u = s.c.objs[k].u
  /\ n \in 0 .. Len(s.c.objs) /\ (n # 0 => s.c.objs[n].u = u)
  /\ \A w \in Uris : x.c.dr[w] = IF w = u THEN n ELSE s.c.dr[w]

\* Pointers are kept by that.
LEMMA PointersKept ==
  ASSUME NEW V, NEW s \in State(V), Pointers(s.c), NEW x \in State(V),
         NEW u \in Uris, NEW n, Redrafted(x, s, u, n)
  PROVE  Pointers(x.c)
<1>0. /\ x.c.page = s.c.page /\ x.c.cache = s.c.cache /\ Len(x.c.objs) = Len(s.c.objs)
      /\ Len(s.c.objs) \in Nat
  BY StateFacts DEF Rest, Redrafted
<1>1. x.c.page \in 0 .. Len(x.c.objs)
  BY <1>0 DEF Pointers
<1>2. ASSUME NEW w \in Uris
      PROVE  /\ x.c.cache[w] \in 0 .. Len(x.c.objs) /\ x.c.dr[w] \in 0 .. Len(x.c.objs)
             /\ x.c.cache[w] # 0 => x.c.objs[x.c.cache[w]].u = w
             /\ x.c.dr[w] # 0 => x.c.objs[x.c.dr[w]].u = w
  <2>1. /\ s.c.cache[w] \in 0 .. Len(s.c.objs) /\ s.c.dr[w] \in 0 .. Len(s.c.objs)
        /\ s.c.cache[w] # 0 => s.c.objs[s.c.cache[w]].u = w
        /\ s.c.dr[w] # 0 => s.c.objs[s.c.dr[w]].u = w
    BY DEF Pointers
  <2>2. /\ x.c.dr[w] = IF w = u THEN n ELSE s.c.dr[w]
        /\ n \in 0 .. Len(s.c.objs) /\ (n # 0 => s.c.objs[n].u = u)
        /\ \A k \in 1 .. Len(s.c.objs) : x.c.objs[k].u = s.c.objs[k].u
    BY DEF Redrafted
  <2>3. x.c.cache[w] \in 0 .. Len(x.c.objs) /\ (x.c.cache[w] # 0 => x.c.objs[x.c.cache[w]].u = w)
    <3>1. CASE s.c.cache[w] = 0
      BY <1>0, <2>1, <3>1
    <3>2. CASE s.c.cache[w] # 0
      <4>1. s.c.cache[w] \in 1 .. Len(s.c.objs) /\ x.c.cache[w] = s.c.cache[w]
        BY <1>0, <2>1, <3>2
      <4>2. x.c.objs[s.c.cache[w]].u = s.c.objs[s.c.cache[w]].u
        BY <2>2, <4>1
      <4> QED
        BY <1>0, <2>1, <3>2, <4>1, <4>2
    <3> QED
      BY <3>1, <3>2
  <2>4. x.c.dr[w] \in 0 .. Len(x.c.objs) /\ (x.c.dr[w] # 0 => x.c.objs[x.c.dr[w]].u = w)
    <3>1. PICK m : m = IF w = u THEN n ELSE s.c.dr[w]
      OBVIOUS
    <3>2. m \in 0 .. Len(s.c.objs) /\ (m # 0 => s.c.objs[m].u = w)
      BY <2>1, <2>2, <3>1
    <3>3. CASE m = 0
      BY <1>0, <2>2, <3>1, <3>3
    <3>4. CASE m # 0
      <4>1. m \in 1 .. Len(s.c.objs) /\ x.c.dr[w] = m
        BY <1>0, <2>2, <3>1, <3>2, <3>4
      <4>2. x.c.objs[m].u = s.c.objs[m].u
        BY <2>2, <4>1
      <4> QED
        BY <1>0, <3>2, <3>4, <4>1, <4>2
    <3> QED
      BY <3>3, <3>4
  <2> QED
    BY <2>3, <2>4
<1> QED
  BY <1>1, <1>2 DEF Pointers

\* draft(): the object is the draft of its individual, unsaved and on disk.
LEMMA DraftFacts ==
  ASSUME NEW V, 0 \in V, NEW s \in State(V), Pointers(s.c), NEW o \in 1 .. Len(s.c.objs),
         NEW x, x = draft(s, o)
  PROVE  /\ x \in State(V) /\ Alike(x, s) /\ Exact(x) /\ Pointers(x.c)
         /\ s.c.objs[o].u \in Uris /\ ~x.c.objs[o].sync
         /\ \A k \in 1 .. Len(s.c.objs) : k # o => x.c.objs[k] = s.c.objs[k]
         /\ \A w \in Uris : x.c.dr[w] = IF w = s.c.objs[o].u THEN o ELSE s.c.dr[w]
<1>1. s.c.objs[o] \in Obj(V) /\ s.c.dr \in [Uris -> Nat] /\ Len(s.c.objs) \in Nat
  BY StateFacts
<1>2. PICK z : z = [s.c.objs[o] EXCEPT !.sync = FALSE]
  OBVIOUS
<1>3. /\ z \in Obj(V) /\ ~z.sync /\ z.u = s.c.objs[o].u /\ z.v = s.c.objs[o].v
      /\ z.base = s.c.objs[o].base /\ z.new = s.c.objs[o].new
  BY <1>1, <1>2 DEF Obj
<1>4. s.c.objs[o].u \in Uris
  BY <1>1 DEF Obj
<1>5. PICK u : u = s.c.objs[o].u
  OBVIOUS
<1>6. PICK y : y = With(s, o, z)
  OBVIOUS
<1>7. /\ y \in State(V) /\ Rest(y, s) /\ y.c.dr = s.c.dr /\ y.c.objs[o] = z
      /\ \A k \in 1 .. Len(s.c.objs) : k # o => y.c.objs[k] = s.c.objs[k]
  BY <1>3, <1>6, WithFacts
<1>8. PICK w : w = Keeps(y, u, o)
  OBVIOUS
<1>9. /\ w \in State(V) /\ Rest(w, y) /\ w.c.objs = y.c.objs
      /\ w.c.dr = [y.c.dr EXCEPT ![u] = o]
  BY <1>4, <1>5, <1>7, <1>8, KeepsFacts
<1>10. x = Written(w)
  BY <1>2, <1>5, <1>6, <1>8 DEF draft
<1>11. \A v \in Uris : w.c.dr[v] = IF v = u THEN o ELSE s.c.dr[v]
  BY <1>1, <1>4, <1>5, <1>7, <1>9
<1>12. Rest(w, s) /\ \A k \in 1 .. Len(s.c.objs) : w.c.objs[k].u = s.c.objs[k].u
  BY <1>3, <1>7, <1>9 DEF Rest
<1>13. Pointers(w.c)
  <2>1. Redrafted(w, s, u, o) /\ u \in Uris
    BY <1>1, <1>4, <1>5, <1>11, <1>12 DEF Redrafted
  <2> QED
    BY <1>9, <2>1, PointersKept
<1>14. x \in State(V) /\ x.c = w.c /\ Exact(x)
  BY <1>9, <1>10, <1>13, WrittenFacts
<1>15. Alike(x, s)
  <2>1. Rest(x, s)
    BY <1>12, <1>14 DEF Rest
  <2>2. ASSUME NEW k \in 1 .. Len(s.c.objs)
        PROVE  /\ x.c.objs[k].u = s.c.objs[k].u /\ x.c.objs[k].v = s.c.objs[k].v
               /\ x.c.objs[k].base = s.c.objs[k].base /\ x.c.objs[k].new = s.c.objs[k].new
    <3>1. x.c.objs[k] = y.c.objs[k]
      BY <1>9, <1>14
    <3> QED
      BY <1>3, <1>7, <3>1
  <2> QED
    BY <2>1, <2>2 DEF Alike
<1>16. ~x.c.objs[o].sync /\ \A k \in 1 .. Len(s.c.objs) : k # o => x.c.objs[k] = s.c.objs[k]
  <2>1. x.c.objs = y.c.objs
    BY <1>9, <1>14
  <2> QED
    BY <1>3, <1>7, <2>1
<1>17. Pointers(x.c) /\ \A v \in Uris : x.c.dr[v] = IF v = s.c.objs[o].u THEN o ELSE s.c.dr[v]
  BY <1>5, <1>11, <1>13, <1>14
<1> QED
  BY <1>4, <1>14, <1>15, <1>16, <1>17

\* undraft(): there is no draft of the individual, and its object is synced.
LEMMA UndraftFacts ==
  ASSUME NEW V, 0 \in V, NEW s \in State(V), Pointers(s.c), NEW u \in Uris,
         NEW x, x = undraft(s, u)
  PROVE  /\ x \in State(V) /\ Alike(x, s) /\ Pointers(x.c) /\ (x = s \/ Exact(x))
         /\ \A k \in 1 .. Len(s.c.objs) : k # s.c.dr[u] => x.c.objs[k] = s.c.objs[k]
         /\ \A w \in Uris : x.c.dr[w] = IF w = u THEN 0 ELSE s.c.dr[w]
<1>1. CASE s.c.dr[u] = 0
  <2>1. x = s
    BY <1>1 DEF undraft
  <2> QED
    BY <1>1, <2>1 DEF Alike, Rest
<1>2. CASE s.c.dr[u] # 0
  <2>1. PICK o : o = s.c.dr[u]
    OBVIOUS
  <2>2. o \in 1 .. Len(s.c.objs)
    BY <1>2, <2>1, StateFacts DEF Pointers
  <2>3. s.c.objs[o] \in Obj(V) /\ s.c.dr \in [Uris -> Nat] /\ Len(s.c.objs) \in Nat
    BY <2>2, StateFacts
  <2>4. PICK z : z = [s.c.objs[o] EXCEPT !.sync = TRUE]
    OBVIOUS
  <2>5. /\ z \in Obj(V) /\ z.u = s.c.objs[o].u /\ z.v = s.c.objs[o].v
        /\ z.base = s.c.objs[o].base /\ z.new = s.c.objs[o].new
    BY <2>3, <2>4 DEF Obj
  <2>6. PICK y : y = With(s, o, z)
    OBVIOUS
  <2>7. /\ y \in State(V) /\ Rest(y, s) /\ y.c.dr = s.c.dr /\ y.c.objs[o] = z
        /\ \A k \in 1 .. Len(s.c.objs) : k # o => y.c.objs[k] = s.c.objs[k]
    BY <2>2, <2>5, <2>6, WithFacts
  <2>8. PICK w : w = Keeps(y, u, 0)
    OBVIOUS
  <2>9. /\ w \in State(V) /\ Rest(w, y) /\ w.c.objs = y.c.objs
        /\ w.c.dr = [y.c.dr EXCEPT ![u] = 0]
    BY <2>7, <2>8, KeepsFacts
  <2>10. x = Written(w)
    BY <1>2, <2>1, <2>4, <2>6, <2>8 DEF undraft
  <2>11. \A v \in Uris : w.c.dr[v] = IF v = u THEN 0 ELSE s.c.dr[v]
    BY <2>3, <2>7, <2>9
  <2>12. Rest(w, s) /\ \A k \in 1 .. Len(s.c.objs) : w.c.objs[k].u = s.c.objs[k].u
    BY <2>5, <2>7, <2>9 DEF Rest
  <2>13. Pointers(w.c)
    <3>1. Redrafted(w, s, u, 0)
      BY <2>3, <2>11, <2>12 DEF Redrafted
    <3> QED
      BY <2>9, <3>1, PointersKept
  <2>14. x \in State(V) /\ x.c = w.c /\ Exact(x)
    BY <2>9, <2>10, <2>13, WrittenFacts
  <2>15. Alike(x, s)
    <3>1. Rest(x, s)
      BY <2>12, <2>14 DEF Rest
    <3>2. ASSUME NEW k \in 1 .. Len(s.c.objs)
          PROVE  /\ x.c.objs[k].u = s.c.objs[k].u /\ x.c.objs[k].v = s.c.objs[k].v
                 /\ x.c.objs[k].base = s.c.objs[k].base /\ x.c.objs[k].new = s.c.objs[k].new
      <4>1. x.c.objs[k] = y.c.objs[k]
        BY <2>9, <2>14
      <4> QED
        BY <2>5, <2>7, <4>1
    <3> QED
      BY <3>1, <3>2 DEF Alike
  <2>16. \A k \in 1 .. Len(s.c.objs) : k # s.c.dr[u] => x.c.objs[k] = s.c.objs[k]
    <3>1. x.c.objs = y.c.objs
      BY <2>9, <2>14
    <3> QED
      BY <2>1, <2>7, <3>1
  <2>17. Pointers(x.c) /\ \A v \in Uris : x.c.dr[v] = IF v = u THEN 0 ELSE s.c.dr[v]
    BY <2>11, <2>13, <2>14
  <2> QED
    BY <2>14, <2>15, <2>16, <2>17
<1> QED
  BY <1>1, <1>2
-----------------------------------------------------------------------------
(***************************************************************************)
(* What the functions keep of a tab.                                       *)
(***************************************************************************)

\* An object may be looked at later if no draft is wrong.
LEMMA Shift ==
  ASSUME NEW g, NEW V, NEW ok, NEW s, NEW e, NEW o, Good(g, s, V, ok, e), Drafts(s.c, 0),
         e \in {0, o} \/ ~ThingsOf(g)
  PROVE  Good(g, s, V, ok, o)
<1>1. Drafts(s.c, o)
  BY DEF Drafts
<1>2. ThingsOf(g) => Held(s.c, ok, o)
  <2> SUFFICES ASSUME ThingsOf(g), NEW k \in 1 .. Len(s.c.objs), k # o
               PROVE  s.c.objs[k].v \in ok \/ (~s.c.objs[k].sync /\ s.c.dr[s.c.objs[k].u] = k)
    BY DEF Held
  <2>1. Held(s.c, ok, e) /\ e \in {0, o}
    BY DEF Good
  <2>2. s \in State(V)
    BY DEF Good
  <2>3. k # e
    BY <2>1, <2>2, StateFacts
  <2> QED
    BY <2>1, <2>3 DEF Held
<1>3. SoleOf(g) /\ s.c.open => OnDisk(s, o)
  <2> SUFFICES ASSUME SoleOf(g), s.c.open, NEW u \in Uris
               PROVE  \/ s.d[u] = IF s.c.dr[u] = 0 THEN 0 ELSE s.c.objs[s.c.dr[u]].v
                      \/ o # 0 /\ s.c.dr[u] = o /\ s.c.objs[o].v # 0
    BY DEF OnDisk
  <2>1. OnDisk(s, e) /\ e \in {0, o}
    BY DEF Good, SoleOf
  <2> QED
    BY <2>1 DEF OnDisk
<1> QED
  BY <1>1, <1>2, <1>3 DEF Good

\* More contents, and more of them settled.
LEMMA Grows ==
  ASSUME NEW g, NEW V, NEW ok, NEW s, NEW e, Good(g, s, V, ok, e),
         NEW W, V \subseteq W, NEW more, ok \subseteq more
  PROVE  Good(g, s, W, more, e)
<1>1. s \in State(W)
  <2>1. s \in State(V)
    BY DEF Good
  <2>2. Obj(V) \subseteq Obj(W)
    BY DEF Obj
  <2>3. Seq(Obj(V)) \subseteq Seq(Obj(W))
    BY <2>2, SeqGrows
  <2>4. Pages(V) \subseteq Pages(W)
    BY <2>3 DEF Pages
  <2>5. [Uris -> V] \subseteq [Uris -> W]
    OBVIOUS
  <2> QED
    BY <2>1, <2>4, <2>5 DEF State
<1>2. ThingsOf(g) => Held(s.c, more, e)
  BY DEF Good, Held
<1> QED
  BY <1>1, <1>2 DEF Good

\* An object is no longer looked at when its content is settled.
LEMMA Whole ==
  ASSUME NEW g, NEW V, NEW ok, NEW s, NEW o, Good(g, s, V, ok, o), Drafts(s.c, 0),
         ThingsOf(g) => s.c.objs[o].v \in ok,
         ThingsOf(g) => s.c.objs[o].v = 0 \/ \A u \in Uris : s.c.dr[u] # o
  PROVE  Good(g, s, V, ok, 0)
<1>1. ThingsOf(g) => Held(s.c, ok, 0)
  <2> SUFFICES ASSUME ThingsOf(g), NEW k \in 1 .. Len(s.c.objs)
               PROVE  s.c.objs[k].v \in ok \/ (~s.c.objs[k].sync /\ s.c.dr[s.c.objs[k].u] = k)
    BY DEF Held
  <2>1. Held(s.c, ok, o)
    BY DEF Good
  <2> QED
    BY <2>1 DEF Held
<1>2. SoleOf(g) /\ s.c.open => OnDisk(s, 0)
  <2> SUFFICES ASSUME SoleOf(g), s.c.open, NEW u \in Uris
               PROVE  s.d[u] = IF s.c.dr[u] = 0 THEN 0 ELSE s.c.objs[s.c.dr[u]].v
    BY DEF OnDisk
  <2>1. OnDisk(s, o) /\ ThingsOf(g)
    BY DEF Good, SoleOf
  <2> QED
    BY <2>1 DEF OnDisk
<1> QED
  BY <1>1, <1>2 DEF Good

\* An object is in the cache, unless there was a logout.
Cached(g, s, o) ==
  /\ o \in 1 .. Len(s.c.objs)
  /\ g.logouts = 0 => s.c.cache[s.c.objs[o].u] = o

\* draft() leaves nothing to be looked at.
LEMMA GoodDraft ==
  ASSUME NEW g, NEW V, 0 \in V, NEW ok, NEW s, NEW o, Good(g, s, V, ok, o), Cached(g, s, o),
         NEW x, x = draft(s, o)
  PROVE  Good(g, x, V, ok, 0) /\ Alike(x, s)
<1>1. s \in State(V) /\ Pointers(s.c) /\ Drafts(s.c, o) /\ o \in 1 .. Len(s.c.objs)
  BY DEF Good, Cached
<1>2. /\ x \in State(V) /\ Alike(x, s) /\ Exact(x) /\ Pointers(x.c)
      /\ s.c.objs[o].u \in Uris /\ ~x.c.objs[o].sync
      /\ \A k \in 1 .. Len(s.c.objs) : k # o => x.c.objs[k] = s.c.objs[k]
      /\ \A w \in Uris : x.c.dr[w] = IF w = s.c.objs[o].u THEN o ELSE s.c.dr[w]
  BY <1>1, DraftFacts
<1>3. Len(x.c.objs) = Len(s.c.objs) /\ Len(s.c.objs) \in Nat /\ x.c.cache = s.c.cache
      /\ x.c.page = s.c.page
  BY <1>1, <1>2, StateFacts DEF Alike, Rest
<1>4. Drafts(x.c, 0)
  <2> SUFFICES ASSUME NEW w \in Uris PROVE x.c.dr[w] = 0 \/ ~x.c.objs[x.c.dr[w]].sync
    BY DEF Drafts
  <2>1. CASE w = s.c.objs[o].u
    BY <1>2, <2>1
  <2>2. CASE w # s.c.objs[o].u
    <3>1. x.c.dr[w] = s.c.dr[w]
      BY <1>2, <2>2
    <3>2. s.c.dr[w] # o
      BY <1>1, <1>3, <2>2 DEF Pointers
    <3>3. CASE s.c.dr[w] # 0
      <4>1. s.c.dr[w] \in 1 .. Len(s.c.objs)
        BY <1>1, <1>3, <3>3 DEF Pointers
      <4>2. x.c.objs[s.c.dr[w]] = s.c.objs[s.c.dr[w]]
        BY <1>2, <3>2, <4>1
      <4> QED
        BY <1>1, <3>1, <3>2, <3>3, <4>2 DEF Drafts
    <3> QED
      BY <3>1, <3>3
  <2> QED
    BY <2>1, <2>2
<1>5. ASSUME g.logouts = 0 PROVE Links(x.c)
  <2>1. Links(s.c) /\ s.c.cache[s.c.objs[o].u] = o
    BY <1>5 DEF Good, Cached
  <2>2. ASSUME NEW w \in Uris PROVE x.c.dr[w] \in {0, x.c.cache[w]}
    BY <1>2, <1>3, <2>1 DEF Links
  <2>3. ASSUME x.c.page # 0 PROVE x.c.cache[x.c.objs[x.c.page].u] = x.c.page
    <3>1. s.c.page \in 1 .. Len(s.c.objs)
      BY <1>1, <1>3, <2>3 DEF Pointers
    <3>2. x.c.objs[s.c.page].u = s.c.objs[s.c.page].u
      BY <1>2, <3>1 DEF Alike
    <3> QED
      BY <1>3, <2>1, <2>3, <3>2 DEF Links
  <2> QED
    BY <2>2, <2>3 DEF Links
<1>6. ASSUME ThingsOf(g) PROVE Held(x.c, ok, 0)
  <2> SUFFICES ASSUME NEW k \in 1 .. Len(x.c.objs)
               PROVE  x.c.objs[k].v \in ok \/ (~x.c.objs[k].sync /\ x.c.dr[x.c.objs[k].u] = k)
    BY DEF Held
  <2>0. /\ k \in 1 .. Len(s.c.objs) /\ x.c.objs[k].u = s.c.objs[k].u
        /\ x.c.objs[k].v = s.c.objs[k].v
    BY <1>2, <1>3 DEF Alike
  <2>1. CASE k = o
    BY <1>2, <2>0, <2>1
  <2>2. CASE k # o
    <3>1. s.c.objs[k].v \in ok \/ (~s.c.objs[k].sync /\ s.c.dr[s.c.objs[k].u] = k)
      BY <1>6, <2>0, <2>2 DEF Good, Held
    <3>2. ASSUME ~s.c.objs[k].sync, s.c.dr[s.c.objs[k].u] = k
          PROVE  ~x.c.objs[k].sync /\ x.c.dr[x.c.objs[k].u] = k
      <4>1. Links(s.c) /\ s.c.cache[s.c.objs[o].u] = o
        BY <1>6 DEF Good, Cached, ThingsOf
      <4>2. s.c.objs[k].u \in Uris
        BY <1>1, <2>0, StateFacts DEF Obj
      <4>3. s.c.objs[k].u # s.c.objs[o].u
        BY <1>3, <2>0, <2>2, <3>2, <4>1, <4>2 DEF Links
      <4> QED
        BY <1>2, <2>0, <2>2, <3>2, <4>2, <4>3
    <3> QED
      BY <2>0, <3>1, <3>2
  <2> QED
    BY <2>1, <2>2
<1>7. OnDisk(x, 0)
  BY <1>2 DEF OnDisk, Exact
<1> QED
  BY <1>2, <1>4, <1>5, <1>6, <1>7 DEF Good

\* The cache, the page and the individuals of the objects are the same.
Places(x, s) ==
  /\ Rest(x, s)
  /\ \A k \in 1 .. Len(s.c.objs) : x.c.objs[k].u = s.c.objs[k].u

\* Places are kept by a function and the next one.
LEMMA PlacesFacts ==
  ASSUME NEW V, NEW s \in State(V)
  PROVE  /\ Places(s, s)
         /\ \A x : Alike(x, s) => Places(x, s)
         /\ \A x : Places(x, s) => \A y : Places(y, x) => Places(y, s)
BY DEF Places, Alike, Rest

\* An object stays in the cache.
LEMMA CachedKept ==
  ASSUME NEW g, NEW s, NEW o, Cached(g, s, o), NEW x, Places(x, s)
  PROVE  Cached(g, x, o)
BY DEF Cached, Places, Rest

\* Objects and drafts are linked when fewer are drafts.
LEMMA LinksKept ==
  ASSUME NEW V, NEW s \in State(V), Pointers(s.c), Links(s.c), NEW x, Places(x, s),
         \A w \in Uris : x.c.dr[w] \in {0, s.c.dr[w]}
  PROVE  Links(x.c)
<1>1. x.c.cache = s.c.cache /\ x.c.page = s.c.page /\ Len(s.c.objs) \in Nat
  BY StateFacts DEF Places, Rest
<1>2. ASSUME NEW w \in Uris PROVE x.c.dr[w] \in {0, x.c.cache[w]}
  BY <1>1 DEF Links
<1>3. ASSUME x.c.page # 0 PROVE x.c.cache[x.c.objs[x.c.page].u] = x.c.page
  <2>1. s.c.page \in 1 .. Len(s.c.objs)
    BY <1>1, <1>3 DEF Pointers
  <2>2. x.c.objs[s.c.page].u = s.c.objs[s.c.page].u
    BY <2>1 DEF Places
  <2> QED
    BY <1>1, <1>3, <2>2 DEF Links
<1> QED
  BY <1>2, <1>3 DEF Links

\* undraft() of the object that is looked at, or of a settled content.
LEMMA GoodUndraft ==
  ASSUME NEW g, NEW V, 0 \in V, NEW ok, NEW s, NEW o, Good(g, s, V, ok, o), NEW u \in Uris,
         ThingsOf(g) => s.c.dr[u] \in {0, o},
         NEW x, x = undraft(s, u)
  PROVE  /\ Good(g, x, V, ok, o) /\ Alike(x, s)
         /\ \A w \in Uris : x.c.dr[w] = IF w = u THEN 0 ELSE s.c.dr[w]
<1>1. s \in State(V) /\ Pointers(s.c) /\ Drafts(s.c, o)
  BY DEF Good
<1>2. /\ x \in State(V) /\ Alike(x, s) /\ Pointers(x.c) /\ (x = s \/ Exact(x))
      /\ \A k \in 1 .. Len(s.c.objs) : k # s.c.dr[u] => x.c.objs[k] = s.c.objs[k]
      /\ \A w \in Uris : x.c.dr[w] = IF w = u THEN 0 ELSE s.c.dr[w]
  BY <1>1, UndraftFacts
<1>3. Len(x.c.objs) = Len(s.c.objs) /\ Len(s.c.objs) \in Nat
  BY <1>1, <1>2, StateFacts DEF Alike, Rest
<1>4. Drafts(x.c, o)
  <2> SUFFICES ASSUME NEW w \in Uris PROVE x.c.dr[w] \in {0, o} \/ ~x.c.objs[x.c.dr[w]].sync
    BY DEF Drafts
  <2>1. CASE w = u \/ s.c.dr[w] = 0
    BY <1>2, <2>1
  <2>2. CASE w # u /\ s.c.dr[w] # 0
    <3>1. x.c.dr[w] = s.c.dr[w] /\ s.c.dr[w] \in 1 .. Len(s.c.objs)
      BY <1>1, <1>2, <1>3, <2>2 DEF Pointers
    <3>2. s.c.dr[w] # s.c.dr[u]
      BY <1>1, <2>2 DEF Pointers
    <3>3. x.c.objs[s.c.dr[w]] = s.c.objs[s.c.dr[w]]
      BY <1>2, <3>1, <3>2
    <3> QED
      BY <1>1, <3>1, <3>3 DEF Drafts
  <2> QED
    BY <2>1, <2>2
<1>5. ASSUME g.logouts = 0 PROVE Links(x.c)
  <2>1. Places(x, s) /\ Links(s.c)
    BY <1>1, <1>2, <1>5, PlacesFacts DEF Good
  <2>2. \A w \in Uris : x.c.dr[w] \in {0, s.c.dr[w]}
    BY <1>2
  <2> QED
    BY <1>1, <2>1, <2>2, LinksKept
<1>6. ASSUME ThingsOf(g) PROVE Held(x.c, ok, o)
  <2> SUFFICES ASSUME NEW k \in 1 .. Len(x.c.objs), k # o
               PROVE  x.c.objs[k].v \in ok \/ (~x.c.objs[k].sync /\ x.c.dr[x.c.objs[k].u] = k)
    BY DEF Held
  <2>1. /\ k \in 1 .. Len(s.c.objs) /\ x.c.objs[k].u = s.c.objs[k].u
        /\ x.c.objs[k].v = s.c.objs[k].v /\ s.c.objs[k].u \in Uris
    BY <1>1, <1>2, <1>3, StateFacts DEF Alike, Obj
  <2>2. s.c.objs[k].v \in ok \/ (~s.c.objs[k].sync /\ s.c.dr[s.c.objs[k].u] = k)
    BY <1>6, <2>1 DEF Good, Held
  <2>3. ASSUME ~s.c.objs[k].sync, s.c.dr[s.c.objs[k].u] = k
        PROVE  ~x.c.objs[k].sync /\ x.c.dr[x.c.objs[k].u] = k
    <3>1. s.c.dr[u] \in {0, o} /\ k # 0
      BY <1>3, <1>6, <2>1
    <3>2. k # s.c.dr[u]
      BY <3>1
    <3>3. s.c.objs[k].u # u
      BY <2>3, <3>2
    <3> QED
      BY <1>2, <2>1, <2>3, <3>2, <3>3
  <2> QED
    BY <2>1, <2>2, <2>3
<1>7. ASSUME SoleOf(g), x.c.open PROVE OnDisk(x, o)
  <2>1. CASE x = s
    BY <1>7, <2>1 DEF Good
  <2>2. CASE Exact(x)
    BY <2>2 DEF OnDisk, Exact
  <2> QED
    BY <1>2, <2>1, <2>2
<1> QED
  BY <1>2, <1>4, <1>5, <1>6, <1>7 DEF Good

\* An object of the same individual, with its content or another than 0.
Fits(z, y) == z.u = y.u /\ (z.v # 0 \/ z.v = y.v)

\* An object that is looked at may change.
LEMMA GoodWith ==
  ASSUME NEW g, NEW V, NEW ok, NEW s, NEW o, Good(g, s, V, ok, o), o \in 1 .. Len(s.c.objs),
         NEW z \in Obj(V), Fits(z, s.c.objs[o]), NEW x, x = With(s, o, z)
  PROVE  /\ Good(g, x, V, ok, o) /\ Places(x, s) /\ x.c.dr = s.c.dr /\ x.d = s.d
         /\ x.c.objs[o] = z /\ \A k \in 1 .. Len(s.c.objs) : k # o => x.c.objs[k] = s.c.objs[k]
<1>0. z.u = s.c.objs[o].u /\ (z.v # 0 \/ z.v = s.c.objs[o].v)
  BY DEF Fits
<1>1. s \in State(V) /\ Pointers(s.c) /\ Drafts(s.c, o)
  BY DEF Good
<1>2. /\ x \in State(V) /\ Rest(x, s) /\ x.c.dr = s.c.dr /\ x.d = s.d
      /\ x.c.objs[o] = z /\ \A k \in 1 .. Len(s.c.objs) : k # o => x.c.objs[k] = s.c.objs[k]
  BY <1>1, WithFacts
<1>3. Places(x, s)
  BY <1>0, <1>2 DEF Places
<1>4. /\ Len(x.c.objs) = Len(s.c.objs) /\ Len(s.c.objs) \in Nat
      /\ \A k \in 1 .. Len(s.c.objs) : x.c.objs[k].u = s.c.objs[k].u
  BY <1>1, <1>3, StateFacts DEF Places, Rest
<1>5. Pointers(x.c)
  <2>1. s.c.objs[o].u \in Uris
    BY <1>1, StateFacts DEF Obj
  <2>2. PICK u \in Uris : u = s.c.objs[o].u
    BY <2>1
  <2>3. PICK n : n = s.c.dr[u]
    OBVIOUS
  <2>4. n \in 0 .. Len(s.c.objs) /\ (n # 0 => s.c.objs[n].u = u)
    BY <1>1, <2>2, <2>3 DEF Pointers
  <2>5. \A w \in Uris : x.c.dr[w] = IF w = u THEN n ELSE s.c.dr[w]
    BY <1>2, <2>3
  <2>6. Redrafted(x, s, u, n)
    BY <1>2, <1>4, <2>4, <2>5 DEF Redrafted
  <2> QED
    BY <1>1, <1>2, <2>6, PointersKept
<1>6. Drafts(x.c, o)
  <2> SUFFICES ASSUME NEW w \in Uris PROVE x.c.dr[w] \in {0, o} \/ ~x.c.objs[x.c.dr[w]].sync
    BY DEF Drafts
  <2>1. CASE s.c.dr[w] \in {0, o}
    BY <1>2, <2>1
  <2>2. CASE s.c.dr[w] \notin {0, o}
    <3>1. s.c.dr[w] \in 1 .. Len(s.c.objs)
      BY <1>1, <1>4, <2>2 DEF Pointers
    <3>2. x.c.objs[s.c.dr[w]] = s.c.objs[s.c.dr[w]]
      BY <1>2, <2>2, <3>1
    <3> QED
      BY <1>1, <1>2, <2>2, <3>2 DEF Drafts
  <2> QED
    BY <2>1, <2>2
<1>7. ASSUME g.logouts = 0 PROVE Links(x.c)
  <2>1. Links(s.c) /\ \A w \in Uris : x.c.dr[w] \in {0, s.c.dr[w]}
    BY <1>2, <1>7 DEF Good
  <2> QED
    BY <1>1, <1>3, <2>1, LinksKept
<1>8. ASSUME ThingsOf(g) PROVE Held(x.c, ok, o)
  <2> SUFFICES ASSUME NEW k \in 1 .. Len(x.c.objs), k # o
               PROVE  x.c.objs[k].v \in ok \/ (~x.c.objs[k].sync /\ x.c.dr[x.c.objs[k].u] = k)
    BY DEF Held
  <2>1. k \in 1 .. Len(s.c.objs) /\ x.c.objs[k] = s.c.objs[k]
    BY <1>2, <1>4
  <2> QED
    BY <1>2, <1>8, <2>1 DEF Good, Held
<1>9. ASSUME SoleOf(g), x.c.open PROVE OnDisk(x, o)
  <2> SUFFICES ASSUME NEW u \in Uris
               PROVE  \/ x.d[u] = IF x.c.dr[u] = 0 THEN 0 ELSE x.c.objs[x.c.dr[u]].v
                      \/ o # 0 /\ x.c.dr[u] = o /\ x.c.objs[o].v # 0
    BY DEF OnDisk
  <2>1. /\ OnDisk(s, o) /\ x.d = s.d /\ x.c.dr[u] = s.c.dr[u] /\ o # 0
    BY <1>2, <1>4, <1>9 DEF Good, Rest
  <2>2. \/ s.d[u] = IF s.c.dr[u] = 0 THEN 0 ELSE s.c.objs[s.c.dr[u]].v
        \/ o # 0 /\ s.c.dr[u] = o /\ s.c.objs[o].v # 0
    BY <2>1 DEF OnDisk
  <2>3. CASE s.c.dr[u] = 0
    BY <2>1, <2>2, <2>3
  <2>4. CASE s.c.dr[u] = o
    <3>1. CASE z.v # 0
      BY <1>2, <2>1, <2>4, <3>1
    <3>2. CASE z.v = s.c.objs[o].v
      BY <1>2, <2>1, <2>2, <2>4, <3>2
    <3> QED
      BY <1>0, <3>1, <3>2
  <2>5. CASE s.c.dr[u] \notin {0, o}
    <3>1. s.c.dr[u] \in 1 .. Len(s.c.objs)
      BY <1>1, <1>4, <2>5 DEF Pointers
    <3>2. x.c.objs[s.c.dr[u]] = s.c.objs[s.c.dr[u]]
      BY <1>2, <2>5, <3>1
    <3> QED
      BY <2>1, <2>2, <2>5, <3>2
  <2> QED
    BY <2>3, <2>4, <2>5
<1> QED
  BY <1>2, <1>3, <1>5, <1>6, <1>7, <1>8, <1>9 DEF Good

\* The draft of an individual is the object in the cache.
LEMMA OwnDraft ==
  ASSUME NEW g, NEW V, NEW ok, NEW s, NEW e, NEW o, Good(g, s, V, ok, e), Cached(g, s, o)
  PROVE  /\ s.c.objs[o] \in Obj(V) /\ s.c.objs[o].u \in Uris
         /\ ThingsOf(g) => s.c.dr[s.c.objs[o].u] \in {0, o}
<1>1. s.c.objs[o] \in Obj(V)
  BY StateFacts DEF Good, Cached
<1>2. s.c.objs[o].u \in Uris
  BY <1>1 DEF Obj
<1>3. ThingsOf(g) => s.c.dr[s.c.objs[o].u] \in {0, o}
  BY <1>2 DEF Good, Cached, Links, ThingsOf
<1> QED
  BY <1>1, <1>2, <1>3

\* An object is no draft when its individual has none.
LEMMA Loose ==
  ASSUME NEW g, NEW V, NEW ok, NEW s, NEW o, Good(g, s, V, ok, o), o \in 1 .. Len(s.c.objs),
         s.c.dr[s.c.objs[o].u] = 0
  PROVE  Drafts(s.c, 0) /\ \A u \in Uris : s.c.dr[u] # o
<1>1. s \in State(V) /\ Pointers(s.c) /\ Drafts(s.c, o) /\ o # 0
  BY StateFacts DEF Good
<1>2. \A u \in Uris : s.c.dr[u] # o
  BY <1>1 DEF Pointers
<1>3. Drafts(s.c, 0)
  BY <1>1, <1>2 DEF Drafts
<1> QED
  BY <1>2, <1>3

\* localStorage is written.
LEMMA GoodWritten ==
  ASSUME NEW g, NEW V, 0 \in V, NEW ok, NEW s, NEW e, Good(g, s, V, ok, e),
         NEW x, x = Written(s)
  PROVE  Good(g, x, V, ok, e) /\ x.c = s.c
<1>1. s \in State(V) /\ Pointers(s.c)
  BY DEF Good
<1>2. x \in State(V) /\ x.c = s.c /\ Exact(x)
  BY <1>1, WrittenFacts
<1>3. OnDisk(x, e)
  BY <1>2 DEF OnDisk, Exact
<1> QED
  BY <1>2, <1>3 DEF Good

Contents(x, s) == \A k \in 1 .. Len(s.c.objs) : x.c.objs[k].v = s.c.objs[k].v

\* isDraftHandler() makes the object of the page a draft, or changes nothing.
LEMMA GoodHandler ==
  ASSUME NEW V, 0 \in V, NEW ok, NEW s, NEW o, Good(setting, s, V, ok, o), Cached(setting, s, o),
         NEW x, x = isDraftHandler(s, o)
  PROVE  /\ Good(setting, x, V, ok, o) /\ Alike(x, s)
         /\ x = s \/ Good(setting, x, V, ok, 0)
         /\ Good(setting, s, V, ok, 0) => Good(setting, x, V, ok, 0)
<1>1. CASE x = s
  <2>1. Alike(s, s)
    BY DEF Alike, Rest
  <2> QED
    BY <1>1, <2>1
<1>2. CASE x = draft(s, o)
  <2>1. Good(setting, x, V, ok, 0) /\ Alike(x, s)
    BY <1>2, GoodDraft
  <2>2. Drafts(x.c, 0)
    BY <2>1 DEF Good
  <2>3. Good(setting, x, V, ok, o)
    BY <2>1, <2>2, Shift
  <2> QED
    BY <2>1, <2>3
<1> QED
  BY <1>1, <1>2 DEF isDraftHandler

\* save() leaves nothing to be looked at: the content is stored, or a draft.
LEMMA GoodSave ==
  ASSUME NEW V, 0 \in V, NEW ok, NEW s, NEW o, Good(setting, s, V, ok, o), Cached(setting, s, o),
         Saves(s, o), NEW answer, ThingsOf(setting) => answer # "refused",
         ThingsOf(setting) /\ answer = "ok" => s.c.objs[o].v \in ok,
         NEW x, x = save(s, o, answer)
  PROVE  Good(setting, x, V, ok, 0) /\ Places(x, s) /\ Contents(x, s)
<1>1. s \in State(V) /\ o \in 1 .. Len(s.c.objs) /\ Len(s.c.objs) \in Nat
  BY StateFacts DEF Good, Cached
<1>2. PICK u : u = s.c.objs[o].u
  OBVIOUS
<1>3. PICK h : h = isDraftHandler(s, o)
  OBVIOUS
<1>4. PICK b : b = undraft(h, u)
  OBVIOUS
<1>5. PICK a : a = IF answer = "ok" THEN With(b, o, [b.c.objs[o] EXCEPT !.new = FALSE, !.sync = TRUE])
                   ELSE IF setting.thing /\ answer # "refused" THEN draft(b, o) ELSE b
  OBVIOUS
<1>6. x = isDraftHandler(a, o)
  BY <1>2, <1>3, <1>4, <1>5 DEF save
<1>7. Good(setting, h, V, ok, o) /\ Alike(h, s)
  BY <1>3, GoodHandler
<1>8. Places(h, s) /\ Cached(setting, h, o) /\ h.c.objs[o].u = u /\ Contents(h, s)
      /\ Len(h.c.objs) = Len(s.c.objs)
  BY <1>1, <1>2, <1>7, PlacesFacts, CachedKept DEF Places, Contents, Alike, Rest
<1>9. u \in Uris /\ (ThingsOf(setting) => h.c.dr[u] \in {0, o})
  BY <1>7, <1>8, OwnDraft
<1>10. Good(setting, b, V, ok, o) /\ Alike(b, h) /\ b.c.dr[u] = 0
  BY <1>4, <1>7, <1>9, GoodUndraft
<1>11. h \in State(V) /\ b \in State(V)
  BY <1>7, <1>10 DEF Good
<1>12. Places(b, h) /\ Cached(setting, b, o)
  BY <1>8, <1>10, <1>11, PlacesFacts, CachedKept
<1>13. /\ Places(b, s) /\ b.c.objs[o].u = u /\ Contents(b, s) /\ o \in 1 .. Len(b.c.objs)
       /\ Len(b.c.objs) = Len(s.c.objs)
  <2>1. Places(b, s)
    BY <1>1, <1>8, <1>12, PlacesFacts
  <2>2. Contents(b, s)
    BY <1>8, <1>10 DEF Contents, Alike
  <2> QED
    BY <1>1, <1>2, <2>1, <2>2 DEF Places, Rest
<1>14. b.c.objs[o] \in Obj(V)
  BY <1>12, <1>10, OwnDraft
<1>15. Good(setting, a, V, ok, 0) /\ Places(a, b) /\ Contents(a, b)
  <2>1. CASE answer = "ok"
    <3>1. PICK z : z = [b.c.objs[o] EXCEPT !.new = FALSE, !.sync = TRUE]
      OBVIOUS
    <3>2. z \in Obj(V) /\ z.u = b.c.objs[o].u /\ z.v = b.c.objs[o].v /\ Fits(z, b.c.objs[o])
      BY <1>14, <3>1 DEF Obj, Fits
    <3>3. a = With(b, o, z)
      BY <1>5, <2>1, <3>1
    <3>10. Good(setting, b, V, ok, o) /\ o \in 1 .. Len(b.c.objs)
      BY <1>10, <1>13
    <3>4. /\ Good(setting, a, V, ok, o) /\ Places(a, b) /\ a.c.dr = b.c.dr /\ a.c.objs[o] = z
          /\ \A k \in 1 .. Len(b.c.objs) : k # o => a.c.objs[k] = b.c.objs[k]
      BY <3>10, <3>2, <3>3, GoodWith
    <3>5. Contents(a, b)
      BY <3>2, <3>4 DEF Contents
    <3>6. /\ a.c.dr[a.c.objs[o].u] = 0 /\ o \in 1 .. Len(a.c.objs)
          /\ a.c.objs[o].v = s.c.objs[o].v
      BY <1>1, <1>10, <1>13, <3>2, <3>4 DEF Places, Rest, Contents
    <3>7. Drafts(a.c, 0) /\ \A w \in Uris : a.c.dr[w] # o
      BY <3>4, <3>6, Loose
    <3>8. Good(setting, a, V, ok, 0)
      BY <2>1, <3>4, <3>6, <3>7, Whole
    <3> QED
      BY <3>4, <3>5, <3>8
  <2>2. CASE answer # "ok" /\ setting.thing /\ answer # "refused"
    <3>1. a = draft(b, o)
      BY <1>5, <2>2
    <3>2. Good(setting, a, V, ok, 0) /\ Alike(a, b)
      BY <1>10, <1>12, <3>1, GoodDraft
    <3> QED
      BY <1>11, <3>2, PlacesFacts DEF Contents, Alike
  <2>3. CASE answer # "ok" /\ ~(setting.thing /\ answer # "refused")
    <3>1. a = b /\ ~ThingsOf(setting)
      BY <1>5, <2>3 DEF ThingsOf
    <3>2. Drafts(b.c, 0)
      BY <1>10, <1>13, Loose
    <3>3. Good(setting, b, V, ok, 0)
      BY <1>10, <3>1, <3>2, Whole
    <3> QED
      BY <1>11, <3>1, <3>3, PlacesFacts DEF Contents
  <2> QED
    BY <2>1, <2>2, <2>3
<1>16. Places(a, s) /\ Contents(a, s)
  <2>1. Places(a, s)
    BY <1>1, <1>13, <1>15, PlacesFacts
  <2> QED
    BY <1>13, <1>15, <2>1 DEF Contents
<1>17. Good(setting, a, V, ok, o) /\ Cached(setting, a, o) /\ a \in State(V)
  <2>1. Drafts(a.c, 0) /\ a \in State(V)
    BY <1>15 DEF Good
  <2> QED
    BY <1>12, <1>15, <2>1, Shift, CachedKept
<1>18. Good(setting, x, V, ok, 0) /\ Alike(x, a)
  BY <1>6, <1>15, <1>17, GoodHandler
<1>19. Places(x, s)
  BY <1>1, <1>16, <1>17, <1>18, PlacesFacts
<1>20. Contents(x, s)
  BY <1>16, <1>18 DEF Contents, Alike, Places, Rest
<1> QED
  BY <1>18, <1>19, <1>20

Others(x, s, o) == \A k \in 1 .. Len(s.c.objs) : k # o => x.c.objs[k].v = s.c.objs[k].v

\* The part of reset() that takes over what the server has.
Fetched(s, o, n) ==
  IF s.c.objs[o].v = n THEN s
  ELSE isDraftHandler(With(s, o, [s.c.objs[o] EXCEPT !.v = n]), o)
Synced(a, o, n) == With(a, o, [a.c.objs[o] EXCEPT !.new = FALSE, !.sync = TRUE, !.base = n])

\* It leaves the object to be looked at.
LEMMA GoodUpdate ==
  ASSUME NEW V, 0 \in V, NEW ok, NEW s, NEW o, Good(setting, s, V, ok, o), Cached(setting, s, o),
         NEW n \in V, n # 0,
         NEW a, a = Fetched(s, o, n), NEW b, b = Synced(a, o, n)
  PROVE  /\ Good(setting, b, V, ok, o) /\ Places(b, s) /\ Others(b, s, o) /\ b.c.objs[o].v = n
<1>1. s \in State(V) /\ o \in 1 .. Len(s.c.objs) /\ s.c.objs[o] \in Obj(V)
  BY OwnDraft DEF Good, Cached
<1>2. Good(setting, a, V, ok, o) /\ Places(a, s) /\ Others(a, s, o) /\ a.c.objs[o].v = n
  <2>1. CASE s.c.objs[o].v = n
    BY <1>1, <2>1, PlacesFacts DEF Others, Fetched
  <2>2. CASE s.c.objs[o].v # n
    <3>1. PICK z : z = [s.c.objs[o] EXCEPT !.v = n]
      OBVIOUS
    <3>2. z \in Obj(V) /\ Fits(z, s.c.objs[o]) /\ z.v = n
      BY <1>1, <3>1 DEF Obj, Fits
    <3>3. PICK y : y = With(s, o, z)
      OBVIOUS
    <3>4. /\ Good(setting, y, V, ok, o) /\ Places(y, s) /\ y.c.objs[o] = z
          /\ \A k \in 1 .. Len(s.c.objs) : k # o => y.c.objs[k] = s.c.objs[k]
      BY <1>1, <3>2, <3>3, GoodWith
    <3>5. Cached(setting, y, o) /\ a = isDraftHandler(y, o) /\ y \in State(V)
      BY <2>2, <3>1, <3>3, <3>4, CachedKept DEF Good, Fetched
    <3>6. Good(setting, a, V, ok, o) /\ Alike(a, y)
      BY <3>4, <3>5, GoodHandler
    <3>7. Places(a, y)
      BY <3>5, <3>6, PlacesFacts
    <3>8. Places(a, s)
      BY <1>1, <3>4, <3>7, PlacesFacts
    <3>9. Len(y.c.objs) = Len(s.c.objs)
      BY <3>4 DEF Places, Rest
    <3>10. a.c.objs[o].v = n
      BY <1>1, <3>2, <3>4, <3>6, <3>9 DEF Alike
    <3>11. Others(a, s, o)
      <4>1. \A k \in 1 .. Len(s.c.objs) : a.c.objs[k].v = y.c.objs[k].v
        BY <3>6, <3>9 DEF Alike
      <4> QED
        BY <3>4, <4>1 DEF Others
    <3> QED
      BY <3>6, <3>8, <3>10, <3>11
  <2> QED
    BY <2>1, <2>2
<1>3. Cached(setting, a, o)
  BY <1>2, CachedKept
<1>4. a \in State(V) /\ o \in 1 .. Len(a.c.objs) /\ a.c.objs[o] \in Obj(V)
  <2>1. a \in State(V) /\ o \in 1 .. Len(a.c.objs)
    BY <1>2, <1>3 DEF Good, Cached
  <2> QED
    BY <2>1, StateFacts
<1>5. PICK z : z = [a.c.objs[o] EXCEPT !.new = FALSE, !.sync = TRUE, !.base = n]
  OBVIOUS
<1>6. z \in Obj(V) /\ Fits(z, a.c.objs[o]) /\ z.v = a.c.objs[o].v
  BY <1>4, <1>5 DEF Obj, Fits
<1>7. b = With(a, o, z)
  BY <1>5 DEF Synced
<1>8. /\ Good(setting, b, V, ok, o) /\ Places(b, a) /\ b.c.objs[o] = z
      /\ \A k \in 1 .. Len(a.c.objs) : k # o => b.c.objs[k] = a.c.objs[k]
  BY <1>2, <1>4, <1>6, <1>7, GoodWith
<1>9. Places(b, s)
  BY <1>1, <1>2, <1>8, PlacesFacts
<1>10. Len(a.c.objs) = Len(s.c.objs)
  BY <1>2 DEF Places, Rest
<1>11. Others(b, s, o) /\ b.c.objs[o].v = n
  BY <1>2, <1>6, <1>8, <1>10 DEF Others
<1> QED
  BY <1>8, <1>9, <1>11

\* reset() leaves nothing to be looked at, if what the object had is settled.
LEMMA GoodReset ==
  ASSUME NEW V, 0 \in V, NEW ok, NEW s, NEW o, Good(setting, s, V, ok, o), Cached(setting, s, o),
         ThingsOf(setting) => s.c.objs[o].v \in ok,
         db[s.c.objs[o].u] \in V \cap ok, NEW answer,
         NEW x, x = reset(s, o, answer)
  PROVE  Good(setting, x, V, ok, 0) /\ Places(x, s) /\ Others(x, s, o)
<1>1. s \in State(V) /\ o \in 1 .. Len(s.c.objs) /\ s.c.objs[o].u \in Uris
  BY OwnDraft DEF Good, Cached
<1>2. PICK u \in Uris : u = s.c.objs[o].u
  BY <1>1
<1>3. PICK n : n = db[u]
  OBVIOUS
<1>4. PICK a : a = Fetched(s, o, n)
  OBVIOUS
<1>5. PICK b : b = Synced(a, o, n)
  OBVIOUS
<1>6. PICK y : y = IF ~s.c.objs[o].new /\ answer = "ok" /\ n # 0 THEN b ELSE s
  OBVIOUS
<1>7. PICK w : w = undraft(y, u)
  OBVIOUS
<1>8. x = isDraftHandler(w, o)
  BY <1>2, <1>3, <1>4, <1>5, <1>6, <1>7 DEF reset, Fetched, Synced
<1>9. n \in V /\ n \in ok
  BY <1>2, <1>3
<1>10. /\ Good(setting, y, V, ok, o) /\ Places(y, s) /\ Others(y, s, o)
       /\ (ThingsOf(setting) => y.c.objs[o].v \in ok)
  <2>1. CASE y = s
    BY <1>1, <2>1, PlacesFacts DEF Others
  <2>2. CASE y = b /\ n # 0
    <3>1. /\ Good(setting, b, V, ok, o) /\ Places(b, s) /\ Others(b, s, o) /\ b.c.objs[o].v = n
      BY <1>4, <1>5, <1>9, <2>2, GoodUpdate
    <3> QED
      BY <1>9, <2>2, <3>1
  <2> QED
    BY <1>6, <2>1, <2>2
<1>11. Cached(setting, y, o) /\ y \in State(V) /\ y.c.objs[o].u = u
  BY <1>1, <1>2, <1>10, CachedKept DEF Good, Places
<1>12. ThingsOf(setting) => y.c.dr[u] \in {0, o}
  BY <1>10, <1>11, OwnDraft
<1>13. Good(setting, w, V, ok, o) /\ Alike(w, y) /\ w.c.dr[u] = 0
  BY <1>7, <1>10, <1>12, GoodUndraft
<1>14. Places(w, y) /\ Cached(setting, w, o) /\ w \in State(V)
  BY <1>11, <1>13, PlacesFacts, CachedKept DEF Good
<1>15. o \in 1 .. Len(y.c.objs) /\ o \in 1 .. Len(w.c.objs)
  BY <1>11, <1>14 DEF Cached
<1>16. w.c.objs[o].u = u /\ w.c.objs[o].v = y.c.objs[o].v
  BY <1>11, <1>13, <1>15 DEF Alike
<1>17. Drafts(w.c, 0) /\ \A v \in Uris : w.c.dr[v] # o
  BY <1>13, <1>15, <1>16, Loose
<1>18. Good(setting, w, V, ok, 0)
  BY <1>10, <1>13, <1>16, <1>17, Whole
<1>19. Good(setting, x, V, ok, 0) /\ Alike(x, w)
  BY <1>8, <1>13, <1>14, <1>18, GoodHandler
<1>20. Places(x, w)
  BY <1>14, <1>19, PlacesFacts
<1>21. Places(x, y)
  BY <1>11, <1>14, <1>20, PlacesFacts
<1>22. Places(x, s)
  BY <1>1, <1>10, <1>21, PlacesFacts
<1>23. Others(x, s, o)
  <2>1. Len(w.c.objs) = Len(s.c.objs) /\ Len(y.c.objs) = Len(s.c.objs)
    BY <1>10, <1>14 DEF Places, Rest
  <2> QED
    BY <1>10, <1>13, <1>19, <2>1 DEF Others, Alike
<1> QED
  BY <1>19, <1>22, <1>23

\* There is a place that nothing refers to.
Free(c, k) == k \in (1 .. Len(c.objs) + 1) \ Used(c) /\ \A j \in 1 .. (k - 1) : j \in Used(c)

\* The numbers up to n are no more than n: one more place than objects is enough.
LEMMA PlaceFacts ==
  ASSUME NEW V, NEW s \in State(V), Pointers(s.c), NEW k,
         k = CHOOSE i \in (1 .. Len(s.c.objs) + 1) \ Used(s.c) :
               \A j \in 1 .. (i - 1) : j \in Used(s.c)
  PROVE  Free(s.c, k)
<1>1. Len(s.c.objs) \in Nat /\ Used(s.c) \subseteq 1 .. Len(s.c.objs)
  <2>1. Len(s.c.objs) \in Nat
    BY StateFacts
  <2> QED
    BY <2>1 DEF Used, Pointers
<1>2. PICK T : T = (1 .. Len(s.c.objs) + 1) \ Used(s.c)
  OBVIOUS
<1>3. T \subseteq Nat /\ T # {}
  <2>1. Len(s.c.objs) + 1 \in T
    BY <1>1, <1>2
  <2> QED
    BY <1>1, <1>2, <2>1
<1>4. PICK i \in T : \A j \in T : i <= j
  BY <1>3, MinExists
<1>5. \A j \in 1 .. (i - 1) : j \in Used(s.c)
  BY <1>1, <1>2, <1>3, <1>4
<1>6. \E m \in (1 .. Len(s.c.objs) + 1) \ Used(s.c) : \A j \in 1 .. (m - 1) : j \in Used(s.c)
  BY <1>2, <1>5
<1> QED
  BY <1>6 DEF Free

\* A sequence with an element at a place of it, or one more.
LEMMA PlacedFacts ==
  ASSUME NEW S, NEW q \in Seq(S), NEW k \in 1 .. Len(q) + 1, NEW z \in S,
         NEW r, r = IF k > Len(q) THEN Append(q, z) ELSE [q EXCEPT ![k] = z]
  PROVE  /\ r \in Seq(S) /\ r[k] = z /\ Len(r) \in {Len(q), Len(q) + 1}
         /\ k \in 1 .. Len(r) /\ \A j \in 1 .. Len(r) : j = k \/ j \in 1 .. Len(q)
         /\ \A j \in 1 .. Len(q) : j # k => r[j] = q[j]
<1>1. CASE k > Len(q)
  <2>1. r = Append(q, z) /\ k = Len(q) + 1 /\ Len(q) \in Nat
    BY <1>1
  <2> QED
    BY <2>1
<1>2. CASE ~(k > Len(q))
  <2>1. r = [q EXCEPT ![k] = z] /\ k \in 1 .. Len(q)
    BY <1>2
  <2> QED
    BY <2>1
<1> QED
  BY <1>1, <1>2

\* x is s with the object z at the place k.
MadeAt(x, s, z, k) ==
  /\ Free(s.c, k) /\ x.c.objs[k] = z /\ k \in 1 .. Len(x.c.objs)
  /\ Len(x.c.objs) \in {Len(s.c.objs), Len(s.c.objs) + 1}
  /\ \A j \in 1 .. Len(x.c.objs) : j = k \/ j \in 1 .. Len(s.c.objs)
  /\ \A j \in 1 .. Len(s.c.objs) : j # k => x.c.objs[j] = s.c.objs[j]
  /\ \A w \in Uris : x.c.cache[w] = IF w = z.u THEN k ELSE s.c.cache[w]
  /\ x.c.dr = s.c.dr /\ x.c.page = s.c.page /\ x.c.open = s.c.open /\ x.c.edit = s.c.edit
  /\ x.c.ready = s.c.ready /\ x.c.told = s.c.told /\ x.d = s.d

\* A new object is at a place that nothing refers to.
LEMMA MadeFacts ==
  ASSUME NEW V, NEW s \in State(V), Pointers(s.c), NEW z \in Obj(V),
         NEW x, x = Made(s, z)
  PROVE  x \in State(V) /\ \E k \in Nat : MadeAt(x, s, z, k)
<1>1. s.c \in Pages(V) /\ s.c.objs \in Seq(Obj(V)) /\ s.c.cache \in [Uris -> Nat] /\ z.u \in Uris
  BY StateFacts DEF Obj
<1>2. PICK k : k = CHOOSE i \in (1 .. Len(s.c.objs) + 1) \ Used(s.c) :
                     \A j \in 1 .. (i - 1) : j \in Used(s.c)
  OBVIOUS
<1>3. Free(s.c, k)
  BY <1>2, PlaceFacts
<1>4. k \in 1 .. Len(s.c.objs) + 1 /\ Len(s.c.objs) \in Nat
  BY <1>3, StateFacts DEF Free
<1>5. PICK q : q = IF k > Len(s.c.objs) THEN Append(s.c.objs, z) ELSE [s.c.objs EXCEPT ![k] = z]
  OBVIOUS
<1>6. PICK f : f = [s.c.cache EXCEPT ![z.u] = k]
  OBVIOUS
<1>7. /\ q \in Seq(Obj(V)) /\ q[k] = z /\ Len(q) \in {Len(s.c.objs), Len(s.c.objs) + 1}
      /\ k \in 1 .. Len(q) /\ \A j \in 1 .. Len(q) : j = k \/ j \in 1 .. Len(s.c.objs)
      /\ \A j \in 1 .. Len(s.c.objs) : j # k => q[j] = s.c.objs[j]
  BY <1>1, <1>4, <1>5, PlacedFacts
<1>8. f \in [Uris -> Nat] /\ \A w \in Uris : f[w] = IF w = z.u THEN k ELSE s.c.cache[w]
  BY <1>1, <1>4, <1>6
<1>9. x = [s EXCEPT !.c = [s.c EXCEPT !.objs = q, !.cache = f]]
  BY <1>2, <1>5, <1>6 DEF Made
<1>10. PICK c : c = [s.c EXCEPT !.objs = q, !.cache = f]
  OBVIOUS
<1>11. /\ c \in Pages(V) /\ c.objs = q /\ c.cache = f
       /\ c.open = s.c.open /\ c.dr = s.c.dr /\ c.page = s.c.page /\ c.edit = s.c.edit
       /\ c.ready = s.c.ready /\ c.told = s.c.told
  BY <1>1, <1>7, <1>8, <1>10 DEF Pages
<1>12. x = [s EXCEPT !.c = c]
  BY <1>9, <1>10
<1>13. x \in State(V) /\ x.c = c /\ x.d = s.d
  BY <1>11, <1>12, PairFacts
<1>14. MadeAt(x, s, z, k)
  BY <1>3, <1>7, <1>8, <1>11, <1>13 DEF MadeAt
<1> QED
  BY <1>4, <1>13, <1>14

\* A content of an object is settled, or is still there.
Moves(x, s, ok) ==
  \A j \in 1 .. Len(s.c.objs) :
    s.c.objs[j].v \in ok \/ (j \in 1 .. Len(x.c.objs) /\ x.c.objs[j].v = s.c.objs[j].v)

\* A new object: it has a settled content, or is looked at.
LEMMA GoodMade ==
  ASSUME NEW g, NEW V, NEW ok, NEW s, NEW e, Good(g, s, V, ok, e), e \in {0, s.c.page},
         NEW z \in Obj(V), g.logouts = 0 => s.c.cache[z.u] = 0,
         NEW x \in State(V), NEW k \in Nat, MadeAt(x, s, z, k)
  PROVE  /\ (ThingsOf(g) => z.v \in ok) => Good(g, x, V, ok, e)
         /\ e = 0 => Good(g, x, V, ok, k)
         /\ Drafts(s.c, 0) => Drafts(x.c, 0)
         /\ ThingsOf(g) => Moves(x, s, ok)
<1>1. s \in State(V) /\ Pointers(s.c) /\ Len(s.c.objs) \in Nat /\ Len(x.c.objs) \in Nat
  BY StateFacts DEF Good
<1>2. /\ k # 0 /\ k # s.c.page /\ \A w \in Uris : k # s.c.cache[w] /\ k # s.c.dr[w]
  BY DEF MadeAt, Free, Used
<1>3. /\ x.c.objs[k] = z /\ k \in 1 .. Len(x.c.objs)
      /\ \A j \in 1 .. Len(x.c.objs) : j = k \/ j \in 1 .. Len(s.c.objs)
      /\ \A j \in 1 .. Len(s.c.objs) : j # k => x.c.objs[j] = s.c.objs[j]
      /\ \A w \in Uris : x.c.cache[w] = IF w = z.u THEN k ELSE s.c.cache[w]
      /\ x.c.dr = s.c.dr /\ x.c.page = s.c.page /\ x.c.open = s.c.open /\ x.d = s.d
  BY DEF MadeAt
<1>4. 1 .. Len(s.c.objs) \subseteq 1 .. Len(x.c.objs)
  BY <1>1 DEF MadeAt
<1>5. \A w \in Uris : s.c.dr[w] # 0 =>
        /\ s.c.dr[w] \in 1 .. Len(s.c.objs) /\ s.c.objs[s.c.dr[w]].u = w
        /\ x.c.objs[s.c.dr[w]] = s.c.objs[s.c.dr[w]]
  <2> SUFFICES ASSUME NEW w \in Uris, s.c.dr[w] # 0
               PROVE  /\ s.c.dr[w] \in 1 .. Len(s.c.objs) /\ s.c.objs[s.c.dr[w]].u = w
                      /\ x.c.objs[s.c.dr[w]] = s.c.objs[s.c.dr[w]]
    OBVIOUS
  <2>1. s.c.dr[w] \in 0 .. Len(s.c.objs) /\ s.c.objs[s.c.dr[w]].u = w
    BY <1>1 DEF Pointers
  <2>2. s.c.dr[w] \in 1 .. Len(s.c.objs) /\ s.c.dr[w] # k
    BY <1>1, <1>2, <2>1
  <2> QED
    BY <1>3, <2>1, <2>2
<1>6. s.c.page # 0 => s.c.page \in 1 .. Len(s.c.objs) /\ x.c.objs[s.c.page] = s.c.objs[s.c.page]
  <2>1. s.c.page \in 0 .. Len(s.c.objs)
    BY <1>1 DEF Pointers
  <2>2. s.c.page # 0 => s.c.page \in 1 .. Len(s.c.objs)
    BY <1>1, <2>1
  <2> QED
    BY <1>2, <1>3, <2>2
<1>7. Pointers(x.c)
  <2>1. x.c.page \in 0 .. Len(x.c.objs)
    BY <1>1, <1>3, <1>4, <1>6
  <2>2. ASSUME NEW w \in Uris
        PROVE  x.c.dr[w] \in 0 .. Len(x.c.objs) /\ (x.c.dr[w] # 0 => x.c.objs[x.c.dr[w]].u = w)
    <3>1. x.c.dr[w] = s.c.dr[w]
      BY <1>3
    <3>2. CASE s.c.dr[w] = 0
      BY <1>1, <3>1, <3>2
    <3>3. CASE s.c.dr[w] # 0
      <4>1. /\ s.c.dr[w] \in 1 .. Len(s.c.objs) /\ s.c.objs[s.c.dr[w]].u = w
            /\ x.c.objs[s.c.dr[w]] = s.c.objs[s.c.dr[w]]
        BY <1>5, <3>3
      <4> QED
        BY <1>1, <1>4, <3>1, <4>1
    <3> QED
      BY <3>2, <3>3
  <2>3. ASSUME NEW w \in Uris
        PROVE  /\ x.c.cache[w] \in 0 .. Len(x.c.objs)
               /\ x.c.cache[w] # 0 => x.c.objs[x.c.cache[w]].u = w
    <3>1. CASE w = z.u
      BY <1>3, <3>1
    <3>2. CASE w # z.u
      <4>1. x.c.cache[w] = s.c.cache[w] /\ s.c.cache[w] \in 0 .. Len(s.c.objs)
        BY <1>1, <1>3, <3>2 DEF Pointers
      <4>2. CASE s.c.cache[w] = 0
        BY <1>1, <4>1, <4>2
      <4>3. CASE s.c.cache[w] # 0
        <5>1. s.c.cache[w] \in 1 .. Len(s.c.objs) /\ s.c.objs[s.c.cache[w]].u = w
          BY <1>1, <4>1, <4>3 DEF Pointers
        <5>2. x.c.objs[s.c.cache[w]] = s.c.objs[s.c.cache[w]]
          BY <1>2, <1>3, <5>1
        <5> QED
          BY <1>1, <1>4, <4>1, <5>1, <5>2
      <4> QED
        BY <4>2, <4>3
    <3> QED
      BY <3>1, <3>2
  <2> QED
    BY <2>1, <2>2, <2>3 DEF Pointers
<1>8. ASSUME NEW f, Drafts(s.c, f) PROVE Drafts(x.c, f)
  <2> SUFFICES ASSUME NEW w \in Uris PROVE x.c.dr[w] \in {0, f} \/ ~x.c.objs[x.c.dr[w]].sync
    BY DEF Drafts
  <2>1. x.c.dr[w] = s.c.dr[w] /\ (s.c.dr[w] \in {0, f} \/ ~s.c.objs[s.c.dr[w]].sync)
    BY <1>3, <1>8 DEF Drafts
  <2>2. CASE s.c.dr[w] = 0
    BY <2>1, <2>2
  <2>3. CASE s.c.dr[w] # 0
    <3>1. x.c.objs[s.c.dr[w]] = s.c.objs[s.c.dr[w]]
      BY <1>5, <2>3
    <3> QED
      BY <2>1, <3>1
  <2> QED
    BY <2>2, <2>3
<1>9. ASSUME g.logouts = 0 PROVE Links(x.c)
  <2>1. Links(s.c) /\ s.c.cache[z.u] = 0 /\ z.u \in Uris
    BY <1>9 DEF Good, Obj
  <2>2. ASSUME NEW w \in Uris PROVE x.c.dr[w] \in {0, x.c.cache[w]}
    BY <1>3, <2>1 DEF Links
  <2>3. ASSUME x.c.page # 0 PROVE x.c.cache[x.c.objs[x.c.page].u] = x.c.page
    <3>1. s.c.page \in 1 .. Len(s.c.objs) /\ x.c.objs[s.c.page] = s.c.objs[s.c.page]
      BY <1>3, <1>6, <2>3
    <3>2. s.c.objs[s.c.page].u \in Uris
      BY <1>1, <3>1, StateFacts DEF Obj
    <3>3. s.c.cache[s.c.objs[s.c.page].u] = s.c.page
      BY <1>3, <2>1, <2>3 DEF Links
    <3>4. s.c.objs[s.c.page].u # z.u
      BY <1>3, <2>1, <2>3, <3>3
    <3> QED
      BY <1>3, <3>1, <3>2, <3>3, <3>4
  <2> QED
    BY <2>2, <2>3 DEF Links
<1>10. ASSUME ThingsOf(g), NEW f, f = k \/ (f = e /\ z.v \in ok), f = k => e = 0
       PROVE  Held(x.c, ok, f)
  <2> SUFFICES ASSUME NEW j \in 1 .. Len(x.c.objs), j # f
               PROVE  x.c.objs[j].v \in ok \/ (~x.c.objs[j].sync /\ x.c.dr[x.c.objs[j].u] = j)
    BY DEF Held
  <2>1. CASE j = k
    BY <1>3, <1>10, <2>1
  <2>2. CASE j # k
    <3>1. j \in 1 .. Len(s.c.objs) /\ x.c.objs[j] = s.c.objs[j]
      BY <1>3, <2>2
    <3>2. Held(s.c, ok, e) /\ j # e
      BY <1>1, <1>10, <3>1 DEF Good
    <3> QED
      BY <1>3, <3>1, <3>2 DEF Held
  <2> QED
    BY <2>1, <2>2
<1>11. ASSUME SoleOf(g), x.c.open, NEW f, f = e \/ e = 0 PROVE OnDisk(x, f)
  <2> SUFFICES ASSUME NEW w \in Uris
               PROVE  \/ x.d[w] = IF x.c.dr[w] = 0 THEN 0 ELSE x.c.objs[x.c.dr[w]].v
                      \/ f # 0 /\ x.c.dr[w] = f /\ x.c.objs[f].v # 0
    BY DEF OnDisk
  <2>1. \/ s.d[w] = IF s.c.dr[w] = 0 THEN 0 ELSE s.c.objs[s.c.dr[w]].v
        \/ e # 0 /\ s.c.dr[w] = e /\ s.c.objs[e].v # 0
    BY <1>3, <1>11 DEF Good, OnDisk
  <2>2. x.c.dr[w] = s.c.dr[w] /\ x.d = s.d
    BY <1>3
  <2>3. CASE s.c.dr[w] = 0
    BY <2>1, <2>2, <2>3
  <2>4. CASE s.c.dr[w] # 0
    <3>1. x.c.objs[s.c.dr[w]] = s.c.objs[s.c.dr[w]]
      BY <1>5, <2>4
    <3> QED
      BY <1>11, <2>1, <2>2, <2>4, <3>1
  <2> QED
    BY <2>3, <2>4
<1>12. ASSUME ThingsOf(g) PROVE Moves(x, s, ok)
  <2> SUFFICES ASSUME NEW j \in 1 .. Len(s.c.objs)
               PROVE  s.c.objs[j].v \in ok \/ (j \in 1 .. Len(x.c.objs) /\ x.c.objs[j].v = s.c.objs[j].v)
    BY DEF Moves
  <2>1. CASE j # k
    BY <1>3, <1>4, <2>1
  <2>2. CASE j = k
    <3>1. Held(s.c, ok, e) /\ j # e
      BY <1>2, <1>12, <2>2 DEF Good
    <3>2. s.c.objs[j].u \in Uris
      BY <1>1, StateFacts DEF Obj
    <3>3. s.c.dr[s.c.objs[j].u] # j
      BY <1>2, <2>2, <3>2
    <3> QED
      BY <3>1, <3>3 DEF Held
  <2> QED
    BY <2>1, <2>2
<1>13. ASSUME ThingsOf(g) => z.v \in ok PROVE Good(g, x, V, ok, e)
  <2>1. Drafts(x.c, e)
    BY <1>8 DEF Good
  <2>2. ThingsOf(g) => Held(x.c, ok, e)
    BY <1>10, <1>13, <1>2
  <2>3. SoleOf(g) /\ x.c.open => OnDisk(x, e)
    BY <1>11
  <2> QED
    BY <1>7, <1>9, <2>1, <2>2, <2>3 DEF Good
<1>14. ASSUME e = 0 PROVE Good(g, x, V, ok, k)
  <2>1. Drafts(x.c, k)
    <3>1. Drafts(x.c, 0)
      BY <1>8, <1>14 DEF Good
    <3> QED
      BY <3>1 DEF Drafts
  <2>2. ThingsOf(g) => Held(x.c, ok, k)
    BY <1>10, <1>14
  <2>3. SoleOf(g) /\ x.c.open => OnDisk(x, k)
    BY <1>11, <1>14
  <2> QED
    BY <1>7, <1>9, <2>1, <2>2, <2>3 DEF Good
<1> QED
  BY <1>8, <1>12, <1>13, <1>14

\* Objects, cache, drafts and disk are the same.
SameTab(x, s) ==
  /\ x.c.objs = s.c.objs /\ x.c.cache = s.c.cache /\ x.c.dr = s.c.dr /\ x.c.open = s.c.open
  /\ x.d = s.d

\* Another page is shown, or none.
LEMMA GoodPage ==
  ASSUME NEW g, NEW V, NEW ok, NEW s, NEW e, Good(g, s, V, ok, e), NEW x \in State(V),
         SameTab(x, s), x.c.page \in {0, s.c.page} \/ Cached(g, s, x.c.page)
  PROVE  Good(g, x, V, ok, e)
<1>1. /\ x.c.objs = s.c.objs /\ x.c.cache = s.c.cache /\ x.c.dr = s.c.dr /\ x.c.open = s.c.open
      /\ x.d = s.d
  BY DEF SameTab
<1>2. s \in State(V) /\ Pointers(s.c) /\ Drafts(s.c, e) /\ Len(s.c.objs) \in Nat
  BY StateFacts DEF Good
<1>3. x.c.page \in 0 .. Len(x.c.objs)
  <2>1. Len(x.c.objs) = Len(s.c.objs) /\ s.c.page \in 0 .. Len(s.c.objs)
    BY <1>1, <1>2 DEF Pointers
  <2>2. CASE x.c.page \in {0, s.c.page}
    BY <1>2, <2>1, <2>2
  <2>3. CASE Cached(g, s, x.c.page)
    <3>1. x.c.page \in 1 .. Len(s.c.objs)
      BY <2>3 DEF Cached
    <3> QED
      BY <1>2, <2>1, <3>1
  <2> QED
    BY <2>2, <2>3
<1>4. Pointers(x.c)
  BY <1>1, <1>2, <1>3 DEF Pointers
<1>5. g.logouts = 0 => Links(x.c)
  BY <1>1 DEF Good, Links, Cached
<1>6. Drafts(x.c, e) /\ (ThingsOf(g) => Held(x.c, ok, e))
  BY <1>1 DEF Good, Drafts, Held
<1>7. SoleOf(g) /\ x.c.open => OnDisk(x, e)
  BY <1>1 DEF Good, OnDisk
<1> QED
  BY <1>4, <1>5, <1>6, <1>7 DEF Good

\* Nothing is left to be looked at.
LEMMA FineIfGood ==
  ASSUME NEW g, NEW V, NEW ok, NEW s, Good(g, s, V, ok, 0)
  PROVE  Fine(g, s, V, ok)
<1>1. s \in State(V) /\ Pointers(s.c) /\ Drafts(s.c, 0) /\ Len(s.c.objs) \in Nat
  BY StateFacts DEF Good
<1>2. Good(g, s, V, ok, Exempt(s.c))
  BY <1>1, Shift
<1>3. ASSUME ThingsOf(g), Exempt(s.c) # 0, s.c.objs[Exempt(s.c)].sync
      PROVE  s.c.objs[Exempt(s.c)].v \in ok
  <2>1. PICK e : e = Exempt(s.c)
    OBVIOUS
  <2>2. e \in 1 .. Len(s.c.objs)
    BY <1>1, <1>3, <2>1 DEF Exempt, Pointers
  <2>3. Held(s.c, ok, 0) /\ e # 0
    BY <1>3, <2>1 DEF Good
  <2> QED
    BY <1>3, <2>1, <2>2, <2>3 DEF Held
<1> QED
  BY <1>1, <1>2, <1>3 DEF Fine

\* Objects that nothing refers to are no more.
LEMMA SweptFacts ==
  ASSUME NEW V, 0 \in V, NEW s \in State(V), NEW x, x = [c |-> Swept(s.c), d |-> s.d]
  PROVE  /\ x \in State(V) /\ Rest(x, s) /\ x.c.dr = s.c.dr /\ x.d = s.d
         /\ Garbage.v = 0
         /\ \A k \in 1 .. Len(s.c.objs) :
              x.c.objs[k] = IF k \in Used(s.c) THEN s.c.objs[k] ELSE Garbage
<1>1. s.c \in Pages(V) /\ s.c.objs \in Seq(Obj(V)) /\ s.d \in [Uris -> V]
      /\ DOMAIN s.c.objs = 1 .. Len(s.c.objs) /\ Len(s.c.objs) \in Nat
  BY StateFacts
<1>2. Garbage \in Obj(V) /\ Garbage.v = 0
  BY ClientAssumption DEF Garbage, Obj
<1>3. PICK q : q = [k \in 1 .. Len(s.c.objs) |-> IF k \in Used(s.c) THEN s.c.objs[k] ELSE Garbage]
  OBVIOUS
<1>4. \A k \in 1 .. Len(s.c.objs) : q[k] \in Obj(V)
  BY <1>2, <1>3, StateFacts
<1>5. q \in Seq(Obj(V)) /\ Len(q) = Len(s.c.objs)
  <2>1. q \in [1 .. Len(s.c.objs) -> Obj(V)]
    BY <1>3, <1>4
  <2> QED
    BY <1>1, <2>1
<1>6. Swept(s.c) = [s.c EXCEPT !.objs = q]
  BY <1>1, <1>3 DEF Swept, Pages
<1>7. PICK c : c = Swept(s.c)
  OBVIOUS
<1>8. /\ c \in Pages(V) /\ c.objs = q /\ c.open = s.c.open /\ c.cache = s.c.cache /\ c.dr = s.c.dr
      /\ c.page = s.c.page /\ c.edit = s.c.edit /\ c.ready = s.c.ready /\ c.told = s.c.told
  BY <1>1, <1>5, <1>6, <1>7, PageObjs
<1>9. x \in State(V) /\ x.c = c /\ x.d = s.d
  BY <1>1, <1>7, <1>8 DEF State
<1>10. Rest(x, s) /\ x.c.dr = s.c.dr
  BY <1>5, <1>8, <1>9 DEF Rest
<1>11. ASSUME NEW k \in 1 .. Len(s.c.objs)
       PROVE  x.c.objs[k] = IF k \in Used(s.c) THEN s.c.objs[k] ELSE Garbage
  BY <1>3, <1>8, <1>9
<1> QED
  BY <1>2, <1>9, <1>10, <1>11

\* They had settled contents.
LEMMA FineSwept ==
  ASSUME NEW g, NEW V, 0 \in V, NEW ok, 0 \in ok, NEW s, Fine(g, s, V, ok),
         NEW x, x = [c |-> Swept(s.c), d |-> s.d]
  PROVE  Fine(g, x, V, ok) /\ (ThingsOf(g) => Moves(x, s, ok)) /\ x.c.open = s.c.open
<1>1. PICK e : e = Exempt(s.c)
  OBVIOUS
<1>2. Good(g, s, V, ok, e) /\ Drafts(s.c, 0)
  BY <1>1 DEF Fine
<1>3. s \in State(V) /\ Pointers(s.c) /\ Len(s.c.objs) \in Nat
  BY <1>2, StateFacts DEF Good
<1>4. /\ x \in State(V) /\ Rest(x, s) /\ x.c.dr = s.c.dr /\ x.d = s.d /\ Garbage.v = 0
      /\ \A k \in 1 .. Len(s.c.objs) :
           x.c.objs[k] = IF k \in Used(s.c) THEN s.c.objs[k] ELSE Garbage
  BY <1>3, SweptFacts
<1>5. /\ x.c.open = s.c.open /\ x.c.cache = s.c.cache /\ x.c.page = s.c.page
      /\ x.c.edit = s.c.edit /\ x.c.ready = s.c.ready /\ Len(x.c.objs) = Len(s.c.objs)
  BY <1>4 DEF Rest
<1>6. \A w \in Uris : s.c.cache[w] # 0 =>
        /\ s.c.cache[w] \in 1 .. Len(s.c.objs) /\ s.c.objs[s.c.cache[w]].u = w
        /\ x.c.objs[s.c.cache[w]] = s.c.objs[s.c.cache[w]]
  <2> SUFFICES ASSUME NEW w \in Uris, s.c.cache[w] # 0
               PROVE  /\ s.c.cache[w] \in 1 .. Len(s.c.objs) /\ s.c.objs[s.c.cache[w]].u = w
                      /\ x.c.objs[s.c.cache[w]] = s.c.objs[s.c.cache[w]]
    OBVIOUS
  <2>1. s.c.cache[w] \in 1 .. Len(s.c.objs) /\ s.c.objs[s.c.cache[w]].u = w
    BY <1>3 DEF Pointers
  <2>2. s.c.cache[w] \in Used(s.c)
    BY DEF Used
  <2> QED
    BY <1>4, <2>1, <2>2
<1>7. \A w \in Uris : s.c.dr[w] # 0 =>
        /\ s.c.dr[w] \in 1 .. Len(s.c.objs) /\ s.c.objs[s.c.dr[w]].u = w
        /\ x.c.objs[s.c.dr[w]] = s.c.objs[s.c.dr[w]]
  <2> SUFFICES ASSUME NEW w \in Uris, s.c.dr[w] # 0
               PROVE  /\ s.c.dr[w] \in 1 .. Len(s.c.objs) /\ s.c.objs[s.c.dr[w]].u = w
                      /\ x.c.objs[s.c.dr[w]] = s.c.objs[s.c.dr[w]]
    OBVIOUS
  <2>1. s.c.dr[w] \in 1 .. Len(s.c.objs) /\ s.c.objs[s.c.dr[w]].u = w
    BY <1>3 DEF Pointers
  <2>2. s.c.dr[w] \in Used(s.c)
    BY DEF Used
  <2> QED
    BY <1>4, <2>1, <2>2
<1>8. s.c.page # 0 => s.c.page \in 1 .. Len(s.c.objs) /\ x.c.objs[s.c.page] = s.c.objs[s.c.page]
  BY <1>3, <1>4 DEF Pointers, Used
<1>9. e \in {0, s.c.page} /\ Exempt(x.c) = e
  BY <1>1, <1>5 DEF Exempt
<1>10. Pointers(x.c)
  <2>1. x.c.page \in 0 .. Len(x.c.objs)
    BY <1>3, <1>5 DEF Pointers
  <2>2. ASSUME NEW w \in Uris
        PROVE  /\ x.c.cache[w] \in 0 .. Len(x.c.objs) /\ x.c.dr[w] \in 0 .. Len(x.c.objs)
    BY <1>3, <1>4, <1>5 DEF Pointers
  <2>3. ASSUME NEW w \in Uris PROVE x.c.cache[w] # 0 => x.c.objs[x.c.cache[w]].u = w
    BY <1>5, <1>6
  <2>4. ASSUME NEW w \in Uris PROVE x.c.dr[w] # 0 => x.c.objs[x.c.dr[w]].u = w
    BY <1>4, <1>7
  <2> QED
    BY <2>1, <2>2, <2>3, <2>4 DEF Pointers
<1>11. Drafts(x.c, 0)
  <2> SUFFICES ASSUME NEW w \in Uris, s.c.dr[w] # 0 PROVE ~x.c.objs[s.c.dr[w]].sync
    BY <1>4 DEF Drafts
  <2> QED
    BY <1>2, <1>7 DEF Drafts
<1>12. ASSUME g.logouts = 0 PROVE Links(x.c)
  <2>1. Links(s.c)
    BY <1>2, <1>12 DEF Good
  <2>2. x.c.page # 0 => x.c.cache[x.c.objs[x.c.page].u] = x.c.page
    BY <1>5, <1>8, <2>1 DEF Links
  <2> QED
    BY <1>4, <1>5, <2>1, <2>2 DEF Links
<1>13. ASSUME ThingsOf(g) PROVE Held(x.c, ok, e) /\ Moves(x, s, ok)
  <2>1. ASSUME NEW k \in 1 .. Len(s.c.objs)
        PROVE  \/ x.c.objs[k] = s.c.objs[k]
               \/ x.c.objs[k].v \in ok /\ s.c.objs[k].v \in ok
    <3>1. CASE k \in Used(s.c)
      BY <1>4, <3>1
    <3>2. CASE k \notin Used(s.c)
      <4>1. x.c.objs[k].v = 0
        BY <1>4, <3>2
      <4>2. s.c.objs[k].u \in Uris /\ k # 0
        <5>1. s.c.objs[k] \in Obj(V)
          BY <1>3, StateFacts
        <5> QED
          BY <1>3, <5>1 DEF Obj
      <4>3. s.c.dr[s.c.objs[k].u] # k /\ k # e
        BY <1>9, <3>2, <4>2 DEF Used
      <4>4. Held(s.c, ok, e)
        BY <1>2, <1>13 DEF Good
      <4> QED
        BY <4>1, <4>3, <4>4 DEF Held
    <3> QED
      BY <3>1, <3>2
  <2>2. Held(x.c, ok, e)
    <3> SUFFICES ASSUME NEW k \in 1 .. Len(s.c.objs), k # e
                 PROVE  x.c.objs[k].v \in ok \/ (~x.c.objs[k].sync /\ x.c.dr[x.c.objs[k].u] = k)
      BY <1>5 DEF Held
    <3>1. Held(s.c, ok, e)
      BY <1>2, <1>13 DEF Good
    <3> QED
      BY <1>4, <2>1, <3>1 DEF Held
  <2>3. Moves(x, s, ok)
    BY <1>5, <2>1 DEF Moves
  <2> QED
    BY <2>2, <2>3
<1>14. ASSUME SoleOf(g), x.c.open PROVE OnDisk(x, e)
  <2> SUFFICES ASSUME NEW w \in Uris
               PROVE  \/ x.d[w] = IF x.c.dr[w] = 0 THEN 0 ELSE x.c.objs[x.c.dr[w]].v
                      \/ e # 0 /\ x.c.dr[w] = e /\ x.c.objs[e].v # 0
    BY DEF OnDisk
  <2>1. \/ s.d[w] = IF s.c.dr[w] = 0 THEN 0 ELSE s.c.objs[s.c.dr[w]].v
        \/ e # 0 /\ s.c.dr[w] = e /\ s.c.objs[e].v # 0
    BY <1>2, <1>5, <1>14 DEF Good, OnDisk
  <2>2. x.d[w] = s.d[w] /\ x.c.dr[w] = s.c.dr[w]
    BY <1>4
  <2>3. s.c.dr[w] # 0 => x.c.objs[s.c.dr[w]] = s.c.objs[s.c.dr[w]]
    BY <1>7
  <2> QED
    BY <2>1, <2>2, <2>3
<1>15. Good(g, x, V, ok, e)
  <2>1. Drafts(x.c, e)
    BY <1>11 DEF Drafts
  <2> QED
    BY <1>4, <1>10, <1>12, <1>13, <1>14, <2>1 DEF Good
<1>16. ThingsOf(g) /\ e # 0 /\ x.c.objs[e].sync => x.c.objs[e].v \in ok
  <2>1. e # 0 => x.c.objs[e] = s.c.objs[e]
    BY <1>8, <1>9
  <2> QED
    BY <1>1, <2>1 DEF Fine
<1> QED
  BY <1>5, <1>9, <1>11, <1>13, <1>15, <1>16 DEF Fine

\* A tab that does not take the step.
LEMMA FineElse ==
  ASSUME NEW g, NEW V, NEW ok, NEW s, Fine(g, s, V, ok), NEW W, V \subseteq W,
         NEW more, ok \subseteq more, NEW d \in [Uris -> W], SoleOf(g) => ~s.c.open,
         NEW x, x = [c |-> s.c, d |-> d]
  PROVE  Fine(g, x, W, more)
<1>1. PICK e : e = Exempt(s.c)
  OBVIOUS
<1>2. Good(g, s, W, more, e)
  BY <1>1, Grows DEF Fine
<1>3. x.c = s.c /\ s.c \in Pages(W)
  BY <1>2 DEF Good, State
<1>4. x \in State(W)
  BY <1>3 DEF State
<1>5. Good(g, x, W, more, e)
  BY <1>2, <1>3, <1>4 DEF Good
<1> QED
  BY <1>1, <1>3, <1>5 DEF Fine
-----------------------------------------------------------------------------
(***************************************************************************)
(* Steps.                                                                  *)
(***************************************************************************)

\* A tab of the setting.
LEMMA TabFacts ==
  ASSUME Inv, NEW t \in setting.tabs
  PROVE  /\ t \in Tabs /\ setting \in Settings /\ setting.logouts \in Nat
         /\ In(t).c = tab[t] /\ In(t).d = disk /\ In(t) \in State(Content)
         /\ Fine(setting, In(t), Content, Settled)
         /\ last \in Nat /\ 0 \in Content /\ 0 \in Settled
<1>1. t \in Tabs /\ setting \in Settings /\ setting.logouts \in Nat
  BY ClientAssumption DEF Inv, World
<1>2. Fine(setting, In(t), Content, Settled)
  BY <1>1 DEF Inv
<1>3. last \in Nat /\ 0 \in Content /\ 0 \in Settled
  BY DEF Inv, World, Content, Settled
<1> QED
  BY <1>1, <1>2, <1>3 DEF In, Fine, Good

\* A step of a tab keeps the invariant when it leaves the tab as it should be
\* and every content that is not settled in the tab, or on disk.
LEMMA TabChange ==
  ASSUME Inv, NEW t \in setting.tabs, NEW x, x.c.open \/ x.c = Closed, setting' = setting,
         tab' = [tab EXCEPT ![t] = x.c], disk' = x.d, World',
         Settled \subseteq Settled', last' \in {last, last + 1},
         Fine(setting, x, Content', Settled'),
         SoleOf(setting) => \A v \in 1 .. last' : v \in Settled' \/ Somewhere(x.c, x.d, v)
  PROVE  Inv'
<1>1. t \in Tabs /\ last \in Nat /\ DOMAIN tab = Tabs
  BY TabFacts DEF Inv, World
<1>2. x \in State(Content')
  BY DEF Fine, Good
<1>3. x.d \in [Uris -> Content'] /\ x = [c |-> x.c, d |-> x.d]
  BY <1>2 DEF State
<1>4. tab'[t] = x.c /\ \A b \in Tabs : b # t => tab'[b] = tab[b]
  BY <1>1
<1>5. ASSUME NEW b \in Tabs PROVE Fine(setting', [c |-> tab'[b], d |-> disk'], Content', Settled')
  <2>1. CASE b = t
    BY <1>3, <1>4, <2>1
  <2>2. CASE b # t
    <3>1. Fine(setting, In(b), Content, Settled) /\ In(b).c = tab[b]
      BY DEF Inv, In
    <3>2. SoleOf(setting) => ~In(b).c.open
      <4>1. ASSUME SoleOf(setting) PROVE tab[b] = Closed
        BY <2>2, <4>1 DEF Inv, SoleOf
      <4> QED
        BY <3>1, <4>1 DEF Closed
    <3>3. Content \subseteq Content'
      BY <1>1 DEF Content
    <3>4. [c |-> tab'[b], d |-> disk'] = [c |-> In(b).c, d |-> x.d]
      BY <1>4, <2>2, <3>1
    <3> QED
      BY <1>3, <3>1, <3>2, <3>3, <3>4, FineElse
  <2> QED
    BY <2>1, <2>2
<1>6. ASSUME NEW b \in Tabs, ~tab'[b].open \/ b \notin setting.tabs PROVE tab'[b] = Closed
  <2>1. CASE b = t
    BY <1>4, <1>6, <2>1
  <2>2. CASE b # t
    BY <1>4, <1>6, <2>2 DEF Inv
  <2> QED
    BY <2>1, <2>2
<1>7. ASSUME SoleOf(setting), NEW b \in setting.tabs, NEW v \in 1 .. last'
      PROVE  v \in Settled' \/ Somewhere(tab'[b], disk', v)
  BY <1>4, <1>7 DEF SoleOf
<1>8. \A b \in Tabs : Fine(setting, In(b), Content, Settled)'
  BY <1>5 DEF In
<1> QED
  BY <1>3, <1>6, <1>7, <1>8 DEF Inv

\* A tab that stays open loses no content that is not settled, and has the new one.
LEMMA TabStep ==
  ASSUME Inv, NEW t \in setting.tabs, tab[t].open, NEW x, x.c.open, setting' = setting,
         tab' = [tab EXCEPT ![t] = x.c], disk' = x.d, World',
         Settled \subseteq Settled', last' \in {last, last + 1},
         Fine(setting, x, Content', Settled'),
         ThingsOf(setting) => Moves(x, In(t), Settled'),
         ThingsOf(setting) /\ last' # last =>
           last' \in Settled' \/ \E k \in 1 .. Len(x.c.objs) : x.c.objs[k].v = last'
  PROVE  Inv'
<1>1. ASSUME SoleOf(setting), NEW v \in 1 .. last'
      PROVE  v \in Settled' \/ Somewhere(x.c, x.d, v)
  <2>1. ThingsOf(setting) /\ last \in Nat
    BY <1>1, TabFacts DEF SoleOf
  <2>2. CASE v \in 1 .. last
    <3>1. v \in Settled \/ \E k \in 1 .. Len(tab[t].objs) : tab[t].objs[k].v = v
      BY <1>1, <2>2 DEF Inv, Somewhere
    <3>2. CASE v \in Settled
      BY <3>2
    <3>3. CASE v \notin Settled
      <4>1. PICK k \in 1 .. Len(tab[t].objs) : tab[t].objs[k].v = v
        BY <3>1, <3>3
      <4>2. v \in Settled' \/ (k \in 1 .. Len(x.c.objs) /\ x.c.objs[k].v = v)
        BY <2>1, <4>1 DEF Moves, In
      <4> QED
        BY <4>2 DEF Somewhere
    <3> QED
      BY <3>2, <3>3
  <2>3. CASE v \notin 1 .. last
    <3>1. v = last' /\ last' # last
      BY <1>1, <2>1, <2>3
    <3> QED
      BY <2>1, <3>1 DEF Somewhere
  <2> QED
    BY <2>2, <2>3
<1> QED
  BY <1>1, TabChange

\* What keeps the contents that are not settled.
LEMMA MovesFacts ==
  ASSUME NEW ok, NEW s, NEW x
  PROVE  /\ Places(x, s) /\ Contents(x, s) => Moves(x, s, ok)
         /\ Alike(x, s) => Moves(x, s, ok)
         /\ SameTab(x, s) => Moves(x, s, ok)
         /\ \A o : Places(x, s) /\ Others(x, s, o) /\ s.c.objs[o].v \in ok => Moves(x, s, ok)
         /\ \A y : Moves(x, s, ok) /\ Moves(y, x, ok) => Moves(y, s, ok)
BY DEF Moves, Places, Contents, Alike, SameTab, Others, Rest

\* The server and the contents in a step.
LEMMA WorldStep ==
  ASSUME Inv, setting' = setting, DOMAIN tab' = Tabs, last' \in {last, last + 1},
         stored \subseteq stored', stored' \subseteq Content',
         given \subseteq given', given' \subseteq Content',
         db' \in [Uris -> Content'], \A u \in Uris : db'[u] \in Settled'
  PROVE  World' /\ Settled \subseteq Settled' /\ Content \subseteq Content' /\ 0 \in Content' /\ 0 \in Settled'
<1>1. last \in Nat \ {0} /\ setting \in Settings
  BY DEF Inv, World
<1>2. last' \in Nat \ {0}
  BY <1>1
<1>3. Content \subseteq Content' /\ 0 \in Content'
  BY <1>1, <1>2 DEF Content
<1>4. Settled \subseteq Settled' /\ 0 \in Settled'
  BY DEF Settled
<1> QED
  BY <1>1, <1>2, <1>3, <1>4 DEF World

\* A step that leaves the server alone.
LEMMA QuietStep ==
  ASSUME Inv, DOMAIN tab' = Tabs, UNCHANGED <<setting, db, stored>>, last' \in {last, last + 1},
         NEW vs, vs \subseteq Content, given' = given \/ GivesUp(vs)
  PROVE  /\ World' /\ Settled \subseteq Settled' /\ Content \subseteq Content'
         /\ 0 \in Content' /\ 0 \in Settled' /\ (GivesUp(vs) => vs \subseteq Settled')
         /\ db \in [Uris -> Content'] /\ \A u \in Uris : db[u] \in Settled'
<1>1. Content \subseteq Content'
  BY DEF Inv, World, Content
<1>2. /\ stored \subseteq Content /\ given \subseteq Content /\ db \in [Uris -> Content]
      /\ \A u \in Uris : db[u] \in Settled
  BY DEF Inv, World
<1>3. given \subseteq given' /\ given' \subseteq Content'
  BY <1>1, <1>2 DEF GivesUp
<1>4. db' \in [Uris -> Content'] /\ \A u \in Uris : db'[u] \in Settled'
  BY <1>1, <1>2, <1>3 DEF Settled
<1>5. World' /\ Settled \subseteq Settled' /\ 0 \in Content' /\ 0 \in Settled'
  BY <1>1, <1>2, <1>3, <1>4, WorldStep
<1>6. GivesUp(vs) => vs \subseteq Settled'
  BY DEF GivesUp, Settled
<1> QED
  BY <1>1, <1>4, <1>5, <1>6

\* A handler of a tab, after which the objects nothing refers to are no more.
LEMMA OutStep ==
  ASSUME Inv, NEW t \in setting.tabs, tab[t].open, NEW y, Out(t, y), y.c.open, setting' = setting,
         World', Settled \subseteq Settled', last' \in {last, last + 1},
         Fine(setting, y, Content', Settled'),
         ThingsOf(setting) => Moves(y, In(t), Settled'),
         ThingsOf(setting) /\ last' # last =>
           last' \in Settled' \/ \E k \in 1 .. Len(y.c.objs) : y.c.objs[k].v = last'
  PROVE  Inv'
<1>1. PICK x : x = [c |-> Swept(y.c), d |-> y.d]
  OBVIOUS
<1>2. 0 \in Content' /\ 0 \in Settled'
  BY DEF World, Content, Settled
<1>3. Fine(setting, x, Content', Settled') /\ (ThingsOf(setting) => Moves(x, y, Settled')) /\ x.c.open
  BY <1>1, <1>2, FineSwept
<1>4. tab' = [tab EXCEPT ![t] = x.c] /\ disk' = x.d
  BY <1>1 DEF Out
<1>5. ThingsOf(setting) => Moves(x, In(t), Settled')
  BY <1>3, MovesFacts
<1>6. ThingsOf(setting) /\ last' # last =>
        last' \in Settled' \/ \E k \in 1 .. Len(x.c.objs) : x.c.objs[k].v = last'
  BY <1>3 DEF Moves
<1> QED
  BY <1>3, <1>4, <1>5, <1>6, TabStep

\* Tabs are the same ones after a step.
LEMMA OutDomain ==
  ASSUME Inv, NEW t, NEW y, Out(t, y)
  PROVE  DOMAIN tab' = Tabs
BY DEF Inv, World, Out

\* The object of a page.
LEMMA PageOn ==
  ASSUME Inv, NEW t \in setting.tabs, tab[t].page # 0
  PROVE  /\ tab[t].open /\ Cached(setting, In(t), tab[t].page) /\ Drafts(In(t).c, 0)
         /\ Good(setting, In(t), Content, Settled, tab[t].page)
         /\ tab[t].objs[tab[t].page] \in Obj(Content) /\ In(t) \in State(Content)
         /\ In(t).c = tab[t]
<1>1. /\ t \in Tabs /\ In(t).c = tab[t] /\ In(t) \in State(Content)
      /\ Fine(setting, In(t), Content, Settled)
  BY TabFacts
<1>2. tab[t].open
  BY <1>1 DEF Inv, Closed
<1>3. Good(setting, In(t), Content, Settled, Exempt(tab[t])) /\ Drafts(In(t).c, 0)
  BY <1>1 DEF Fine
<1>4. Good(setting, In(t), Content, Settled, tab[t].page)
  <2>1. Exempt(tab[t]) \in {0, tab[t].page}
    BY DEF Exempt
  <2> QED
    BY <1>3, <2>1, Shift
<1>5. tab[t].page \in 1 .. Len(tab[t].objs)
  <2>1. Pointers(tab[t]) /\ Len(tab[t].objs) \in Nat
    BY <1>1, <1>3, StateFacts DEF Good
  <2> QED
    BY <2>1 DEF Pointers
<1>6. Cached(setting, In(t), tab[t].page)
  BY <1>1, <1>3, <1>5 DEF Cached, Good, Links
<1>7. tab[t].objs[tab[t].page] \in Obj(Content)
  BY <1>1, <1>5, StateFacts
<1> QED
  BY <1>1, <1>2, <1>3, <1>4, <1>6, <1>7

\* The page is no longer edited.
LEMMA EditDone ==
  ASSUME NEW V, NEW ok, NEW y, Good(setting, y, V, ok, 0), NEW x, x = [y EXCEPT !.c.edit = FALSE]
  PROVE  Fine(setting, x, V, ok) /\ Moves(x, y, ok) /\ x.c.open = y.c.open
<1>1. y \in State(V)
  BY DEF Good
<1>2. x \in State(V) /\ SameTab(x, y) /\ x.c.page = y.c.page
  BY <1>1 DEF State, Pages, SameTab
<1>3. Good(setting, x, V, ok, 0)
  BY <1>2, GoodPage
<1> QED
  BY <1>2, <1>3, FineIfGood, MovesFacts DEF SameTab

\* draftHandler() keeps the invariant.
LEMMA DraftStep ==
  ASSUME Inv, NEW t \in setting.tabs, Draft(t)
  PROVE  Inv'
<1>1. PICK y : y = draft(In(t), tab[t].page)
  OBVIOUS
<1>2. PICK x : x = [y EXCEPT !.c.edit = FALSE]
  OBVIOUS
<1>3. /\ tab[t].page # 0 /\ Out(t, x) /\ UNCHANGED <<setting, db, stored, last, given>>
  BY <1>1, <1>2 DEF Draft
<1>4. DOMAIN tab' = Tabs
  BY <1>3, OutDomain
<1>5. World' /\ Settled \subseteq Settled' /\ Content \subseteq Content' /\ 0 \in Content'
  BY <1>3, <1>4, QuietStep
<1>6. /\ tab[t].open /\ Cached(setting, In(t), tab[t].page) /\ In(t).c = tab[t]
      /\ Good(setting, In(t), Content, Settled, tab[t].page)
  BY <1>3, PageOn
<1>7. Good(setting, In(t), Content', Settled', tab[t].page)
  BY <1>5, <1>6, Grows
<1>8. Good(setting, y, Content', Settled', 0) /\ Alike(y, In(t))
  BY <1>1, <1>5, <1>6, <1>7, GoodDraft
<1>9. Fine(setting, x, Content', Settled') /\ Moves(x, y, Settled') /\ x.c.open = y.c.open
  BY <1>2, <1>8, EditDone, ZenonT(30)
<1>10. Moves(x, In(t), Settled') /\ x.c.open
  BY <1>6, <1>8, <1>9, MovesFacts DEF Alike, Rest
<1> QED
  BY <1>3, <1>5, <1>6, <1>9, <1>10, OutStep

\* The page is edited.
LEMMA EditModeStep ==
  ASSUME Inv, NEW t \in setting.tabs, EditMode(t)
  PROVE  Inv'
<1>1. /\ tab[t].page # 0 /\ ~tab[t].edit /\ tab' = [tab EXCEPT ![t].edit = TRUE]
      /\ UNCHANGED <<setting, db, disk, stored, last, given>>
  BY DEF EditMode
<1>2. DOMAIN tab' = Tabs /\ t \in Tabs /\ DOMAIN tab = Tabs
  BY <1>1, TabFacts DEF Inv, World
<1>3. World' /\ Settled \subseteq Settled' /\ Content \subseteq Content' /\ 0 \in Content'
  BY <1>1, <1>2, QuietStep
<1>4. /\ tab[t].open /\ In(t).c = tab[t] /\ In(t) \in State(Content) /\ In(t).d = disk
      /\ Fine(setting, In(t), Content, Settled)
  BY <1>1, PageOn, TabFacts
<1>5. Good(setting, In(t), Content, Settled, 0)
  BY <1>1, <1>4 DEF Fine, Exempt
<1>6. Good(setting, In(t), Content', Settled', 0)
  BY <1>3, <1>5, Grows
<1>7. PICK x : x = [In(t) EXCEPT !.c.edit = TRUE]
  OBVIOUS
<1>8. In(t) \in State(Content')
  BY <1>6 DEF Good
<1>9. x \in State(Content') /\ SameTab(x, In(t)) /\ x.c.page = In(t).c.page
  BY <1>7, <1>8 DEF State, Pages, SameTab
<1>10. Good(setting, x, Content', Settled', 0)
  BY <1>6, <1>9, GoodPage
<1>11. Fine(setting, x, Content', Settled') /\ Moves(x, In(t), Settled') /\ x.c.open /\ x.d = disk
  BY <1>4, <1>9, <1>10, FineIfGood, MovesFacts DEF SameTab
<1>12. x.c = [tab[t] EXCEPT !.edit = TRUE]
  BY <1>4, <1>7 DEF State
<1>13. tab' = [tab EXCEPT ![t] = x.c] /\ disk' = x.d
  BY <1>1, <1>11, <1>12
<1> QED
  BY <1>1, <1>3, <1>4, <1>11, <1>13, TabStep

\* The fields of a page that is left.
LEMMA AwayFacts ==
  ASSUME NEW V, 0 \in V, NEW s \in State(V), NEW x, x = [c |-> Away(s.c), d |-> s.d]
  PROVE  x \in State(V) /\ SameTab(x, s) /\ x.c.page = 0 /\ ~x.c.edit
<1>1. s.c \in Pages(V) /\ s.d \in [Uris -> V]
  BY StateFacts
<1>2. PICK c : c = Away(s.c)
  OBVIOUS
<1>3. /\ c \in Pages(V) /\ c.objs = s.c.objs /\ c.cache = s.c.cache /\ c.dr = s.c.dr
      /\ c.open = s.c.open /\ c.page = 0 /\ ~c.edit
  BY <1>1, <1>2 DEF Away, Pages
<1>4. x.c = c /\ x.d = s.d /\ x \in State(V)
  BY <1>1, <1>2, <1>3 DEF State
<1> QED
  BY <1>3, <1>4 DEF SameTab

\* A page that is ready is left.
LEMMA LeaveStep ==
  ASSUME Inv, NEW t \in setting.tabs, Leave(t)
  PROVE  Inv'
<1>1. PICK x : x = [c |-> Away(In(t).c), d |-> In(t).d]
  OBVIOUS
<1>2. /\ t \in Tabs /\ In(t).c = tab[t] /\ In(t).d = disk /\ In(t) \in State(Content)
      /\ Fine(setting, In(t), Content, Settled)
  BY TabFacts
<1>3. /\ tab[t].page # 0 /\ tab[t].ready /\ Out(t, x)
      /\ UNCHANGED <<setting, db, stored, last, given>>
  BY <1>1, <1>2 DEF Leave, Out, Inv, World
<1>4. DOMAIN tab' = Tabs
  BY <1>3, OutDomain
<1>5. World' /\ Settled \subseteq Settled' /\ Content \subseteq Content' /\ 0 \in Content'
  BY <1>3, <1>4, QuietStep
<1>6. Good(setting, In(t), Content, Settled, 0)
  BY <1>2, <1>3 DEF Fine, Exempt
<1>7. Good(setting, In(t), Content', Settled', 0)
  BY <1>5, <1>6, Grows
<1>8. In(t) \in State(Content') /\ tab[t].open
  BY <1>3, <1>7, PageOn DEF Good
<1>9. x \in State(Content') /\ SameTab(x, In(t)) /\ x.c.page = 0
  BY <1>1, <1>5, <1>8, AwayFacts
<1>10. Good(setting, x, Content', Settled', 0)
  BY <1>7, <1>9, GoodPage
<1>11. Fine(setting, x, Content', Settled') /\ Moves(x, In(t), Settled') /\ x.c.open
  BY <1>2, <1>8, <1>9, <1>10, FineIfGood, MovesFacts DEF SameTab
<1> QED
  BY <1>3, <1>5, <1>8, <1>11, OutStep

\* A page is ready.
LEMMA ReadyStep ==
  ASSUME Inv, NEW t \in setting.tabs, Ready(t)
  PROVE  Inv'
<1>1. PICK o : o = tab[t].page
  OBVIOUS
<1>2. PICK s : s = [In(t) EXCEPT !.c.ready = TRUE]
  OBVIOUS
<1>3. PICK y : y = isDraftHandler(s, o)
  OBVIOUS
<1>4. /\ o # 0 /\ ~tab[t].ready /\ Out(t, y) /\ UNCHANGED <<setting, db, stored, last, given>>
  BY <1>1, <1>2, <1>3 DEF Ready
<1>5. World' /\ Settled \subseteq Settled' /\ Content \subseteq Content' /\ 0 \in Content'
  BY <1>4, QuietStep, OutDomain
<1>6. /\ tab[t].open /\ Cached(setting, In(t), o) /\ In(t).c = tab[t] /\ Drafts(In(t).c, 0)
      /\ Good(setting, In(t), Content, Settled, o)
  BY <1>1, <1>4, PageOn
<1>7. Good(setting, In(t), Content', Settled', o) /\ Fine(setting, In(t), Content, Settled)
  BY <1>5, <1>6, Grows, TabFacts
<1>8. In(t) \in State(Content')
  BY <1>7 DEF Good
<1>9. /\ s \in State(Content') /\ SameTab(s, In(t)) /\ s.c.page = In(t).c.page
      /\ s.c.edit = In(t).c.edit /\ s.c.ready
  BY <1>2, <1>8 DEF State, Pages, SameTab
<1>10. Good(setting, s, Content', Settled', o) /\ Cached(setting, s, o) /\ Drafts(s.c, 0)
  <2>1. Good(setting, s, Content', Settled', o)
    BY <1>7, <1>9, GoodPage
  <2> QED
    BY <1>6, <1>9, <2>1 DEF SameTab, Cached, Drafts
<1>11. /\ Alike(y, s)
       /\ Good(setting, s, Content', Settled', 0) => Good(setting, y, Content', Settled', 0)
  BY <1>3, <1>5, <1>10, GoodHandler
<1>12. Good(setting, y, Content', Settled', 0)
  <2>1. CASE ~tab[t].edit
    <3>1. Good(setting, In(t), Content, Settled, 0)
      BY <1>6, <1>7, <2>1 DEF Fine, Exempt
    <3>2. Good(setting, In(t), Content', Settled', 0)
      BY <1>5, <3>1, Grows
    <3>3. Good(setting, s, Content', Settled', 0)
      BY <1>9, <3>2, GoodPage
    <3> QED
      BY <1>11, <3>3
  <2>2. CASE tab[t].edit /\ setting.thing /\ ~s.c.objs[o].sync
    <3>1. y = draft(s, o)
      BY <1>1, <1>3, <1>6, <1>9, <2>2 DEF isDraftHandler
    <3> QED
      BY <1>5, <1>10, <3>1, GoodDraft
  <2>3. CASE tab[t].edit /\ ~setting.thing
    <3>1. ~ThingsOf(setting)
      BY <2>3 DEF ThingsOf
    <3>2. Good(setting, s, Content', Settled', 0)
      BY <1>10, <3>1, Whole
    <3> QED
      BY <1>11, <3>2
  <2>4. CASE tab[t].edit /\ s.c.objs[o].sync
    <3>1. s.c.objs = tab[t].objs
      BY <1>6, <1>9 DEF SameTab
    <3>2. Exempt(In(t).c) = o
      BY <1>1, <1>4, <1>6, <2>4 DEF Exempt
    <3>3. ThingsOf(setting) => s.c.objs[o].v \in Settled
      BY <1>4, <1>6, <1>7, <2>4, <3>1, <3>2 DEF Fine
    <3>4. \A u \in Uris : s.c.dr[u] # o
      BY <1>4, <1>10, <2>4 DEF Drafts
    <3>5. Good(setting, s, Content', Settled', 0)
      BY <1>5, <1>10, <3>3, <3>4, Whole
    <3> QED
      BY <1>11, <3>5
  <2> QED
    BY <2>1, <2>2, <2>3, <2>4
<1>13. Moves(y, In(t), Settled') /\ y.c.open
  BY <1>6, <1>9, <1>11, MovesFacts DEF Alike, Rest, SameTab
<1>14. Fine(setting, y, Content', Settled')
  BY <1>12, FineIfGood
<1> QED
  BY <1>4, <1>5, <1>6, <1>13, <1>14, OutStep

\* set() on the page: the new content is a draft, or the page is not ready.
LEMMA SetFacts ==
  ASSUME Inv, NEW t \in setting.tabs, NEW o, o = tab[t].page, o # 0,
         Content \subseteq Content', Settled \subseteq Settled', 0 \in Content',
         last + 1 \in Content', NEW y, y = set(In(t), o)
  PROVE  /\ Good(setting, y, Content', Settled', o) /\ Cached(setting, y, o)
         /\ Places(y, In(t)) /\ Others(y, In(t), o)
         /\ y.c.objs[o].v = last + 1 /\ ~y.c.objs[o].sync /\ y.c.objs[o].new = tab[t].objs[o].new
         /\ tab[t].edit => Fine(setting, y, Content', Settled')
<1>1. PICK z : z = [tab[t].objs[o] EXCEPT !.v = last + 1, !.sync = FALSE]
  OBVIOUS
<1>2. PICK s : s = With(In(t), o, z)
  OBVIOUS
<1>3. y = isDraftHandler(s, o)
  BY <1>1, <1>2 DEF set, In
<1>4. /\ Cached(setting, In(t), o) /\ In(t).c = tab[t] /\ Drafts(In(t).c, 0)
      /\ Good(setting, In(t), Content, Settled, o) /\ tab[t].objs[o] \in Obj(Content)
      /\ In(t) \in State(Content)
  BY PageOn
<1>5. Good(setting, In(t), Content', Settled', o)
  BY <1>4, Grows
<1>6. o \in 1 .. Len(In(t).c.objs) /\ last + 1 # 0 /\ last \in Nat
  BY <1>4, TabFacts DEF Cached
<1>7. /\ z \in Obj(Content') /\ Fits(z, In(t).c.objs[o]) /\ z.v = last + 1 /\ ~z.sync
      /\ z.new = tab[t].objs[o].new
  <2>1. /\ z.u = tab[t].objs[o].u /\ z.v = last + 1 /\ ~z.sync /\ z.new = tab[t].objs[o].new
        /\ z \in Obj(Content')
    BY <1>1, <1>4 DEF Obj
  <2> QED
    BY <1>4, <1>6, <2>1 DEF Fits
<1>8. /\ Good(setting, s, Content', Settled', o) /\ Places(s, In(t)) /\ s.c.dr = In(t).c.dr
      /\ s.c.objs[o] = z
      /\ \A k \in 1 .. Len(In(t).c.objs) : k # o => s.c.objs[k] = In(t).c.objs[k]
  BY <1>2, <1>5, <1>6, <1>7, GoodWith
<1>9. Cached(setting, s, o) /\ s \in State(Content') /\ Others(s, In(t), o)
  BY <1>4, <1>8, CachedKept DEF Good, Others
<1>10. /\ Good(setting, y, Content', Settled', o) /\ Alike(y, s)
       /\ y = s \/ Good(setting, y, Content', Settled', 0)
       /\ Good(setting, s, Content', Settled', 0) => Good(setting, y, Content', Settled', 0)
  BY <1>3, <1>8, <1>9, GoodHandler
<1>11. Places(y, s)
  BY <1>9, <1>10, PlacesFacts
<1>12. Places(y, In(t)) /\ Cached(setting, y, o)
  BY <1>4, <1>8, <1>9, <1>11, PlacesFacts, CachedKept
<1>13. Len(s.c.objs) = Len(In(t).c.objs)
  BY <1>8 DEF Places, Rest
<1>14. Others(y, In(t), o)
  BY <1>9, <1>10, <1>13 DEF Others, Alike
<1>15. Drafts(s.c, 0)
  <2> SUFFICES ASSUME NEW u \in Uris, s.c.dr[u] # 0 PROVE ~s.c.objs[s.c.dr[u]].sync
    BY DEF Drafts
  <2>1. CASE s.c.dr[u] = o
    BY <1>7, <1>8, <2>1
  <2>2. CASE s.c.dr[u] # o
    <3>1. s.c.dr[u] \in 1 .. Len(In(t).c.objs)
      BY <1>8, <1>9, <1>13, StateFacts DEF Good, Pointers
    <3> QED
      BY <1>4, <1>8, <2>2, <3>1 DEF Drafts
  <2> QED
    BY <2>1, <2>2
<1>16. y.c.objs[o].v = last + 1 /\ y.c.objs[o].new = tab[t].objs[o].new
  BY <1>6, <1>7, <1>8, <1>10, <1>13 DEF Alike
<1>17. ~y.c.objs[o].sync
  <2>1. CASE y = s
    BY <1>7, <1>8, <2>1
  <2>2. CASE y = draft(s, o)
    BY <1>8, <1>9, <2>2, DraftFacts DEF Good, Cached
  <2> QED
    BY <1>3, <2>1, <2>2 DEF isDraftHandler
<1>18. ASSUME tab[t].edit PROVE Fine(setting, y, Content', Settled')
  <2>1. CASE Good(setting, y, Content', Settled', 0)
    BY <2>1, FineIfGood
  <2>2. CASE y = s /\ ~s.c.ready
    <3>1. Exempt(s.c) = o
      BY <1>4, <1>8, <1>18, <2>2 DEF Exempt, Places, Rest
    <3> QED
      BY <1>7, <1>8, <1>15, <2>2, <3>1 DEF Fine
  <2>3. CASE y = s /\ s.c.ready
    <3>1. s.c.page = o /\ s.c.edit /\ ~s.c.objs[o].sync
      BY <1>4, <1>7, <1>8, <1>18 DEF Places, Rest
    <3>2. CASE setting.thing
      <4>1. y = draft(s, o)
        BY <1>3, <2>3, <3>1, <3>2 DEF isDraftHandler
      <4>2. Good(setting, y, Content', Settled', 0)
        BY <1>8, <1>9, <4>1, GoodDraft
      <4> QED
        BY <4>2, FineIfGood
    <3>3. CASE ~setting.thing
      <4>1. ~ThingsOf(setting)
        BY <3>3 DEF ThingsOf
      <4>2. Good(setting, s, Content', Settled', 0)
        BY <1>8, <1>15, <4>1, Whole
      <4> QED
        BY <2>3, <4>2, FineIfGood
    <3> QED
      BY <3>2, <3>3
  <2> QED
    BY <1>10, <2>1, <2>2, <2>3
<1> QED
  BY <1>10, <1>12, <1>14, <1>16, <1>17, <1>18

\* The user types.
LEMMA TypeStep ==
  ASSUME Inv, NEW t \in setting.tabs, Type(t)
  PROVE  Inv'
<1>1. PICK o : o = tab[t].page
  OBVIOUS
<1>2. PICK y : y = set(In(t), o)
  OBVIOUS
<1>3. PICK vs : vs = {tab[t].objs[o].v}
  OBVIOUS
<1>4. /\ o # 0 /\ tab[t].edit /\ Out(t, y) /\ last' = last + 1 /\ GivesUp(vs)
      /\ UNCHANGED <<setting, db, stored>>
  BY <1>1, <1>2, <1>3 DEF Type, Fresh
<1>5. /\ tab[t].open /\ tab[t].objs[o] \in Obj(Content) /\ In(t).c = tab[t]
      /\ In(t) \in State(Content) /\ Cached(setting, In(t), o)
  BY <1>1, <1>4, PageOn
<1>6. vs \subseteq Content
  BY <1>3, <1>5 DEF Obj
<1>7. /\ World' /\ Settled \subseteq Settled' /\ Content \subseteq Content' /\ 0 \in Content'
      /\ vs \subseteq Settled'
  BY <1>4, <1>6, QuietStep, OutDomain
<1>8. last + 1 \in Content'
  BY <1>4, TabFacts DEF Content
<1>9. /\ Places(y, In(t)) /\ Others(y, In(t), o) /\ Cached(setting, y, o)
      /\ y.c.objs[o].v = last + 1 /\ Fine(setting, y, Content', Settled')
  BY <1>1, <1>2, <1>4, <1>7, <1>8, SetFacts
<1>10. Moves(y, In(t), Settled') /\ y.c.open
  <2>1. In(t).c.objs[o].v \in Settled'
    BY <1>3, <1>5, <1>7
  <2> QED
    BY <1>5, <1>9, <2>1, MovesFacts DEF Places, Rest
<1>11. \E k \in 1 .. Len(y.c.objs) : y.c.objs[k].v = last'
  BY <1>4, <1>9 DEF Cached
<1> QED
  BY <1>4, <1>5, <1>7, <1>9, <1>10, <1>11, OutStep

\* A call that writes a content.
LEMMA PutsStep ==
  ASSUME Inv, DOMAIN tab' = Tabs, UNCHANGED setting, last' \in {last, last + 1},
         NEW u \in Uris, NEW v \in Content', NEW answer, Puts(u, v, answer),
         NEW vs, vs \subseteq Content, given' = given \/ GivesUp(vs)
  PROVE  /\ World' /\ Settled \subseteq Settled' /\ Content \subseteq Content'
         /\ 0 \in Content' /\ 0 \in Settled' /\ (GivesUp(vs) => vs \subseteq Settled')
         /\ answer \in {"ok", "lost"} => v \in Settled'
<1>1. Content \subseteq Content'
  BY DEF Inv, World, Content
<1>2. /\ stored \subseteq Content /\ given \subseteq Content /\ db \in [Uris -> Content]
      /\ \A w \in Uris : db[w] \in Settled
  BY DEF Inv, World
<1>3. /\ stored \subseteq stored' /\ stored' \subseteq Content'
      /\ db' \in [Uris -> Content'] /\ \A w \in Uris : db'[w] \in {db[w]} \cup stored'
      /\ answer \in {"ok", "lost"} => v \in stored'
  <2>1. CASE answer \in {"ok", "lost"}
    <3>1. db' = [db EXCEPT ![u] = v] /\ stored' = stored \cup {v}
      BY <2>1 DEF Puts
    <3> QED
      BY <1>1, <1>2, <3>1
  <2>2. CASE answer \notin {"ok", "lost"}
    BY <1>1, <1>2, <2>2 DEF Puts
  <2> QED
    BY <2>1, <2>2
<1>4. given \subseteq given' /\ given' \subseteq Content'
  BY <1>1, <1>2 DEF GivesUp
<1>5. Settled \subseteq Settled'
  BY <1>3, <1>4 DEF Settled
<1>6. \A w \in Uris : db'[w] \in Settled'
  BY <1>2, <1>3, <1>5 DEF Settled
<1>7. World' /\ 0 \in Content' /\ 0 \in Settled'
  BY <1>3, <1>4, <1>6, WorldStep
<1>8. GivesUp(vs) => vs \subseteq Settled'
  BY <1>3 DEF GivesUp, Settled
<1>9. answer \in {"ok", "lost"} => v \in Settled'
  BY <1>3 DEF Settled
<1> QED
  BY <1>1, <1>5, <1>7, <1>8, <1>9

\* User things are not refused.
LEMMA NotRefused ==
  ASSUME NEW answer \in Answers, ThingsOf(setting)
  PROVE  answer # "refused"
BY DEF Answers, ThingsOf

\* saveHandler()
LEMMA SaveStep ==
  ASSUME Inv, NEW t \in setting.tabs, NEW answer \in Answers, Save(t, answer)
  PROVE  Inv'
<1>1. PICK o : o = tab[t].page
  OBVIOUS
<1>2. PICK y : y = save(In(t), o, answer)
  OBVIOUS
<1>3. PICK x : x = [y EXCEPT !.c.edit = FALSE]
  OBVIOUS
<1>4. /\ o # 0 /\ Out(t, x) /\ UNCHANGED <<setting, last, given>>
      /\ IF Saves(In(t), o) THEN Puts(tab[t].objs[o].u, tab[t].objs[o].v, answer)
         ELSE UNCHANGED <<db, stored>>
  BY <1>1, <1>2, <1>3 DEF Save
<1>5. /\ tab[t].open /\ tab[t].objs[o] \in Obj(Content) /\ In(t).c = tab[t]
      /\ In(t) \in State(Content) /\ Cached(setting, In(t), o) /\ Drafts(In(t).c, 0)
      /\ Good(setting, In(t), Content, Settled, o) /\ Fine(setting, In(t), Content, Settled)
  BY <1>1, <1>4, PageOn, TabFacts
<1>6. DOMAIN tab' = Tabs /\ tab[t].objs[o].u \in Uris /\ tab[t].objs[o].v \in Content
      /\ Content' = Content
  BY <1>4, <1>5, OutDomain DEF Obj, Content
<1>7. /\ World' /\ Settled \subseteq Settled' /\ Content \subseteq Content' /\ 0 \in Content'
      /\ Saves(In(t), o) /\ answer = "ok" => tab[t].objs[o].v \in Settled'
  <2>1. CASE Saves(In(t), o)
    BY <1>4, <1>6, <2>1, PutsStep
  <2>2. CASE ~Saves(In(t), o)
    BY <1>4, <1>6, <2>2, QuietStep
  <2> QED
    BY <2>1, <2>2
<1>8. Good(setting, In(t), Content', Settled', o)
  BY <1>5, <1>7, Grows
<1>9. Good(setting, y, Content', Settled', 0) /\ Places(y, In(t)) /\ Contents(y, In(t))
  <2>1. CASE Saves(In(t), o)
    BY <1>2, <1>5, <1>7, <1>8, <2>1, NotRefused, GoodSave
  <2>2. CASE ~Saves(In(t), o)
    <3>1. y = In(t)
      BY <1>2, <2>2 DEF save
    <3>2. CASE Exempt(tab[t]) # o
      <4>1. Exempt(tab[t]) = 0
        BY <1>1, <3>2 DEF Exempt
      <4>2. Good(setting, In(t), Content, Settled, 0)
        BY <1>5, <4>1 DEF Fine
      <4> QED
        BY <1>5, <1>7, <3>1, <4>2, Grows, PlacesFacts DEF Contents
    <3>3. CASE Exempt(tab[t]) = o /\ tab[t].objs[o].sync
      <4>1. ThingsOf(setting) => tab[t].objs[o].v \in Settled
        BY <1>4, <1>5, <3>3 DEF Fine
      <4>2. \A u \in Uris : tab[t].dr[u] # o
        BY <1>4, <1>5, <3>3 DEF Drafts
      <4>3. Good(setting, In(t), Content', Settled', 0)
        BY <1>5, <1>7, <1>8, <4>1, <4>2, Whole
      <4> QED
        BY <1>5, <3>1, <4>3, PlacesFacts DEF Contents
    <3>4. CASE tab[t].objs[o].v = 0
      <4>1. 0 \in Settled'
        BY DEF Settled
      <4>2. Good(setting, In(t), Content', Settled', 0)
        BY <1>5, <1>8, <3>4, <4>1, Whole
      <4> QED
        BY <1>5, <3>1, <4>2, PlacesFacts DEF Contents
    <3> QED
      BY <1>5, <2>2, <3>2, <3>3, <3>4 DEF Saves
  <2> QED
    BY <2>1, <2>2
<1>10. Fine(setting, x, Content', Settled') /\ Moves(x, y, Settled') /\ x.c.open = y.c.open
  BY <1>3, <1>9, EditDone
<1>11. Moves(x, In(t), Settled') /\ x.c.open
  BY <1>5, <1>9, <1>10, MovesFacts DEF Places, Rest
<1> QED
  BY <1>4, <1>5, <1>7, <1>10, <1>11, OutStep

\* What the user gives up.
LEMMA LetsFacts ==
  ASSUME NEW V, NEW s \in State(V), Pointers(s.c), NEW o \in 1 .. Len(s.c.objs)
  PROVE  Lets(s, o) \subseteq V /\ s.c.objs[o].v \in Lets(s, o)
<1>1. s.c.objs[o].u \in Uris /\ o # 0 /\ Len(s.c.objs) \in Nat
  <2>1. s.c.objs[o] \in Obj(V) /\ Len(s.c.objs) \in Nat
    BY StateFacts
  <2> QED
    BY <2>1 DEF Obj
<1>2. s.c.objs[o].v \in Lets(s, o)
  BY <1>1 DEF Lets
<1>3. ASSUME NEW k \in {o, s.c.dr[s.c.objs[o].u]} \ {0} PROVE s.c.objs[k].v \in V
  <2>1. k \in 1 .. Len(s.c.objs)
    BY <1>1 DEF Pointers
  <2>2. s.c.objs[k] \in Obj(V)
    BY <2>1, StateFacts
  <2> QED
    BY <2>2 DEF Obj
<1> QED
  BY <1>2, <1>3 DEF Lets

\* cancelHandler()
LEMMA CancelStep ==
  ASSUME Inv, NEW t \in setting.tabs, NEW answer, Cancel(t, answer)
  PROVE  Inv'
<1>1. PICK o : o = tab[t].page
  OBVIOUS
<1>2. PICK y : y = reset(In(t), o, answer)
  OBVIOUS
<1>3. PICK x : x = [y EXCEPT !.c.edit = FALSE]
  OBVIOUS
<1>4. PICK vs : vs = Lets(In(t), o)
  OBVIOUS
<1>5. /\ o # 0 /\ Out(t, x) /\ UNCHANGED <<setting, db, last, stored>> /\ GivesUp(vs)
  BY <1>1, <1>2, <1>3, <1>4 DEF Cancel
<1>6. /\ tab[t].open /\ tab[t].objs[o] \in Obj(Content) /\ In(t).c = tab[t]
      /\ In(t) \in State(Content) /\ Cached(setting, In(t), o)
      /\ Good(setting, In(t), Content, Settled, o)
  BY <1>1, <1>5, PageOn
<1>7. o \in 1 .. Len(In(t).c.objs) /\ Pointers(In(t).c) /\ tab[t].objs[o].u \in Uris
  BY <1>6 DEF Cached, Good, Obj
<1>8. vs \subseteq Content /\ tab[t].objs[o].v \in vs
  BY <1>4, <1>6, <1>7, LetsFacts
<1>9. /\ World' /\ Settled \subseteq Settled' /\ Content \subseteq Content' /\ 0 \in Content'
      /\ vs \subseteq Settled' /\ db[tab[t].objs[o].u] \in Content' \cap Settled'
  BY <1>5, <1>7, <1>8, QuietStep, OutDomain
<1>10. Good(setting, In(t), Content', Settled', o)
  BY <1>6, <1>9, Grows
<1>11. Good(setting, y, Content', Settled', 0) /\ Places(y, In(t)) /\ Others(y, In(t), o)
  BY <1>2, <1>6, <1>8, <1>9, <1>10, GoodReset
<1>12. Fine(setting, x, Content', Settled') /\ Moves(x, y, Settled') /\ x.c.open = y.c.open
  BY <1>3, <1>11, EditDone
<1>13. Moves(x, In(t), Settled') /\ x.c.open
  <2>1. Moves(y, In(t), Settled')
    BY <1>6, <1>8, <1>9, <1>11, MovesFacts
  <2> QED
    BY <1>6, <1>11, <1>12, <2>1, MovesFacts DEF Places, Rest
<1> QED
  BY <1>5, <1>6, <1>9, <1>12, <1>13, OutStep

\* undraft() of the individual of a page, when the user gives it up.
LEMMA UndraftPage ==
  ASSUME Inv, NEW t \in setting.tabs, NEW o, o = tab[t].page, o # 0,
         NEW V, Content \subseteq V, 0 \in V, NEW ok, Settled \subseteq ok,
         tab[t].objs[o].v \in ok, NEW y, y = undraft(In(t), tab[t].objs[o].u)
  PROVE  /\ Good(setting, y, V, ok, 0) /\ Alike(y, In(t)) /\ y.c.open
         /\ y.c.dr[tab[t].objs[o].u] = 0
<1>1. /\ tab[t].open /\ tab[t].objs[o] \in Obj(Content) /\ In(t).c = tab[t]
      /\ In(t) \in State(Content) /\ Cached(setting, In(t), o)
      /\ Good(setting, In(t), Content, Settled, o)
  BY PageOn
<1>2. Good(setting, In(t), V, ok, o)
  BY <1>1, Grows
<1>3. tab[t].objs[o].u \in Uris /\ (ThingsOf(setting) => tab[t].dr[tab[t].objs[o].u] \in {0, o})
  BY <1>1, <1>2, OwnDraft, SMTT(30)
<1>4. PICK u : u = tab[t].objs[o].u
  OBVIOUS
<1>5. Good(setting, y, V, ok, o) /\ Alike(y, In(t)) /\ y.c.dr[u] = 0
  <2>1. PICK s : s = In(t)
    OBVIOUS
  <2>2. Good(setting, s, V, ok, o) /\ u \in Uris /\ y = undraft(s, u)
    BY <1>2, <1>3, <1>4, <2>1
  <2>3. ThingsOf(setting) => s.c.dr[u] \in {0, o}
    BY <1>1, <1>3, <1>4, <2>1
  <2>4. /\ Good(setting, y, V, ok, o) /\ Alike(y, s)
        /\ \A w \in Uris : y.c.dr[w] = IF w = u THEN 0 ELSE s.c.dr[w]
    BY <2>2, <2>3, GoodUndraft
  <2> QED
    BY <2>1, <2>2, <2>4
<1>6. o \in 1 .. Len(tab[t].objs) /\ Len(y.c.objs) = Len(tab[t].objs)
  BY <1>1, <1>5 DEF Cached, Alike, Rest
<1>7. y.c.objs[o].u = u /\ y.c.objs[o].v = tab[t].objs[o].v /\ y.c.open
  <2>1. o \in 1 .. Len(In(t).c.objs)
    BY <1>1, <1>6
  <2>2. /\ y.c.objs[o].u = In(t).c.objs[o].u /\ y.c.objs[o].v = In(t).c.objs[o].v
        /\ y.c.open = In(t).c.open
    BY <1>5, <2>1 DEF Alike, Rest
  <2> QED
    BY <1>1, <1>4, <2>2
<1>8. Drafts(y.c, 0) /\ \A w \in Uris : y.c.dr[w] # o
  <2>1. o \in 1 .. Len(y.c.objs) /\ y.c.dr[y.c.objs[o].u] = 0
    BY <1>5, <1>6, <1>7
  <2>2. Good(setting, y, V, ok, o)
    BY <1>5
  <2>3. \A s, i : Good(setting, s, V, ok, i) /\ i \in 1 .. Len(s.c.objs) /\ s.c.dr[s.c.objs[i].u] = 0 =>
          Drafts(s.c, 0) /\ \A w \in Uris : s.c.dr[w] # i
    BY Loose
  <2> QED
    BY <2>1, <2>2, <2>3
<1>9. Good(setting, y, V, ok, 0)
  BY <1>5, <1>7, <1>8, Whole
<1> QED
  BY <1>4, <1>5, <1>7, <1>9

\* deleteHandler() and recoverHandler()
LEMMA DeleteStep ==
  ASSUME Inv, NEW t \in setting.tabs, NEW answer \in Answers, Delete(t, answer)
  PROVE  Inv'
<1>1. PICK o : o = tab[t].page
  OBVIOUS
<1>2. o # 0 /\ UNCHANGED setting
  BY <1>1 DEF Delete
<1>3. /\ tab[t].open /\ tab[t].objs[o] \in Obj(Content) /\ In(t).c = tab[t]
      /\ In(t) \in State(Content) /\ Cached(setting, In(t), o)
      /\ Good(setting, In(t), Content, Settled, o)
  BY <1>1, <1>2, PageOn
<1>4. o \in 1 .. Len(In(t).c.objs) /\ Pointers(In(t).c) /\ tab[t].objs[o].u \in Uris
      /\ tab[t].objs[o].v \in Content
  BY <1>3 DEF Cached, Good, Obj
<1>5. CASE tab[t].objs[o].new
  <2>1. PICK y : y = undraft(In(t), tab[t].objs[o].u)
    OBVIOUS
  <2>2. PICK vs : vs = Lets(In(t), o)
    OBVIOUS
  <2>3. Out(t, y) /\ GivesUp(vs) /\ UNCHANGED <<db, last, stored>>
    BY <1>1, <1>5, <2>1, <2>2 DEF Delete
  <2>4. vs \subseteq Content /\ tab[t].objs[o].v \in vs
    BY <1>3, <1>4, <2>2, LetsFacts
  <2>5. /\ World' /\ Settled \subseteq Settled' /\ Content \subseteq Content' /\ 0 \in Content'
        /\ vs \subseteq Settled'
    BY <1>2, <2>3, <2>4, QuietStep, OutDomain
  <2>6. Good(setting, y, Content', Settled', 0) /\ Alike(y, In(t)) /\ y.c.open
    BY <1>1, <1>2, <2>1, <2>4, <2>5, UndraftPage
  <2>7. Fine(setting, y, Content', Settled') /\ Moves(y, In(t), Settled')
    BY <2>6, FineIfGood, MovesFacts
  <2> QED
    BY <1>2, <1>3, <2>3, <2>5, <2>6, <2>7, OutStep
<1>6. CASE ~tab[t].objs[o].new
  <2>1. PICK y : y = set(In(t), o)
    OBVIOUS
  <2>2. PICK x : x = save(y, o, answer)
    OBVIOUS
  <2>3. PICK vs : vs = {tab[t].objs[o].v}
    OBVIOUS
  <2>4. /\ Out(t, x) /\ GivesUp(vs) /\ last' = last + 1
        /\ Puts(tab[t].objs[o].u, last + 1, answer)
    BY <1>1, <1>6, <2>1, <2>2, <2>3 DEF Delete, Fresh
  <2>5. vs \subseteq Content /\ last + 1 \in Content' /\ last + 1 # 0 /\ DOMAIN tab' = Tabs
    BY <1>4, <2>3, <2>4, TabFacts, OutDomain DEF Content
  <2>6. /\ World' /\ Settled \subseteq Settled' /\ Content \subseteq Content' /\ 0 \in Content'
        /\ vs \subseteq Settled' /\ (answer = "ok" => last + 1 \in Settled')
    BY <1>2, <1>4, <2>4, <2>5, PutsStep
  <2>7. /\ Good(setting, y, Content', Settled', o) /\ Cached(setting, y, o)
        /\ Places(y, In(t)) /\ Others(y, In(t), o)
        /\ y.c.objs[o].v = last + 1 /\ ~y.c.objs[o].sync
    BY <1>1, <1>2, <2>1, <2>5, <2>6, SetFacts
  <2>8. Saves(y, o)
    BY <2>5, <2>7 DEF Saves
  <2>9. Good(setting, x, Content', Settled', 0) /\ Places(x, y) /\ Contents(x, y)
    BY <2>2, <2>6, <2>7, <2>8, NotRefused, GoodSave
  <2>10. Moves(x, In(t), Settled') /\ x.c.open
    <3>1. In(t).c.objs[o].v \in Settled'
      BY <1>3, <2>3, <2>6
    <3>2. Moves(y, In(t), Settled') /\ Moves(x, y, Settled')
      BY <2>7, <2>9, <3>1, MovesFacts
    <3> QED
      BY <1>3, <2>7, <2>9, <3>2, MovesFacts DEF Places, Rest
  <2>11. \E k \in 1 .. Len(x.c.objs) : x.c.objs[k].v = last'
    <3>1. o \in 1 .. Len(y.c.objs) /\ Len(x.c.objs) = Len(y.c.objs)
      BY <2>7, <2>9 DEF Cached, Places, Rest
    <3> QED
      BY <2>4, <2>7, <2>9, <3>1 DEF Contents
  <2>12. Fine(setting, x, Content', Settled')
    BY <2>9, FineIfGood
  <2> QED
    BY <1>2, <1>3, <2>4, <2>6, <2>10, <2>11, <2>12, OutStep
<1> QED
  BY <1>5, <1>6

\* An individual that is gone is not in the cache, and its page is left.
Gone(s, u) == [s EXCEPT !.c = [Away(@) EXCEPT !.cache[u] = 0]]

\* There is no draft of it to lose.
LEMMA GoodGone ==
  ASSUME NEW V, 0 \in V, NEW ok, NEW s, Good(setting, s, V, ok, 0), NEW u \in Uris, s.c.dr[u] = 0,
         NEW x, x = Gone(s, u)
  PROVE  Good(setting, x, V, ok, 0) /\ x.c.open = s.c.open /\ x.c.objs = s.c.objs
<1>1. s \in State(V) /\ s.c \in Pages(V) /\ s.d \in [Uris -> V] /\ s.c.cache \in [Uris -> Nat]
  BY StateFacts DEF Good
<1>2. PICK f : f = [s.c.cache EXCEPT ![u] = 0]
  OBVIOUS
<1>3. f \in [Uris -> Nat] /\ \A w \in Uris : f[w] = IF w = u THEN 0 ELSE s.c.cache[w]
  BY <1>1, <1>2
<1>4. PICK a : a = Away(s.c)
  OBVIOUS
<1>5. /\ a \in Pages(V) /\ a.objs = s.c.objs /\ a.cache = s.c.cache /\ a.dr = s.c.dr
      /\ a.open = s.c.open /\ a.page = 0
  BY <1>1, <1>4 DEF Away, Pages
<1>6. PICK c : c = [a EXCEPT !.cache = f]
  OBVIOUS
<1>7. /\ c \in Pages(V) /\ c.objs = s.c.objs /\ c.cache = f /\ c.dr = s.c.dr
      /\ c.open = s.c.open /\ c.page = 0
  BY <1>3, <1>5, <1>6, PageCache
<1>8. x = [s EXCEPT !.c = c]
  BY <1>1, <1>2, <1>4, <1>5, <1>6 DEF State, Gone
<1>9. x \in State(V) /\ x.c = c /\ x.d = s.d
  BY <1>1, <1>7, <1>8, PairFacts
<1>10. Pointers(s.c) /\ Drafts(s.c, 0) /\ Len(s.c.objs) \in Nat
  BY <1>1, StateFacts DEF Good
<1>11. Pointers(x.c)
  <2>1. x.c.page \in 0 .. Len(x.c.objs)
    BY <1>7, <1>9, <1>10
  <2>2. ASSUME NEW w \in Uris
        PROVE  /\ x.c.cache[w] \in 0 .. Len(x.c.objs) /\ x.c.dr[w] \in 0 .. Len(x.c.objs)
               /\ x.c.cache[w] # 0 => x.c.objs[x.c.cache[w]].u = w
               /\ x.c.dr[w] # 0 => x.c.objs[x.c.dr[w]].u = w
    <3>1. /\ s.c.cache[w] \in 0 .. Len(s.c.objs) /\ s.c.dr[w] \in 0 .. Len(s.c.objs)
          /\ s.c.cache[w] # 0 => s.c.objs[s.c.cache[w]].u = w
          /\ s.c.dr[w] # 0 => s.c.objs[s.c.dr[w]].u = w
      BY <1>10 DEF Pointers
    <3>2. /\ x.c.cache[w] \in {0, s.c.cache[w]} /\ x.c.dr[w] = s.c.dr[w]
          /\ x.c.objs = s.c.objs
      BY <1>3, <1>7, <1>9
    <3> QED
      BY <1>10, <3>1, <3>2, SMTT(30)
  <2> QED
    BY <2>1, <2>2 DEF Pointers
<1>12. Drafts(x.c, 0) /\ (ThingsOf(setting) => Held(x.c, ok, 0))
  BY <1>7, <1>9 DEF Good, Drafts, Held
<1>13. setting.logouts = 0 => Links(x.c)
  BY <1>3, <1>7, <1>9 DEF Good, Links
<1>14. SoleOf(setting) /\ x.c.open => OnDisk(x, 0)
  BY <1>7, <1>9 DEF Good, OnDisk
<1> QED
  BY <1>7, <1>9, <1>11, <1>12, <1>13, <1>14 DEF Good

\* destroyHandler()
LEMMA DestroyStep ==
  ASSUME Inv, NEW t \in setting.tabs, NEW answer, Destroy(t, answer)
  PROVE  Inv'
<1>1. PICK o : o = tab[t].page
  OBVIOUS
<1>2. PICK u : u = tab[t].objs[o].u
  OBVIOUS
<1>3. PICK y : y = undraft(In(t), u)
  OBVIOUS
<1>4. PICK x : x = IF answer = "ok" THEN Gone(y, u) ELSE y
  OBVIOUS
<1>5. PICK vs : vs = Lets(In(t), o)
  OBVIOUS
<1>6. /\ o # 0 /\ Out(t, x) /\ GivesUp(vs) /\ UNCHANGED <<setting, last, stored>>
      /\ db' = IF answer \in {"ok", "lost"} THEN [db EXCEPT ![u] = 0] ELSE db
  BY <1>1, <1>2, <1>3, <1>4, <1>5 DEF Destroy, Gone
<1>7. /\ tab[t].open /\ tab[t].objs[o] \in Obj(Content) /\ In(t).c = tab[t]
      /\ In(t) \in State(Content) /\ Cached(setting, In(t), o)
      /\ Good(setting, In(t), Content, Settled, o)
  BY <1>1, <1>6, PageOn
<1>8. o \in 1 .. Len(In(t).c.objs) /\ Pointers(In(t).c) /\ u \in Uris
  BY <1>2, <1>7 DEF Cached, Good, Obj
<1>9. vs \subseteq Content /\ tab[t].objs[o].v \in vs
  BY <1>5, <1>7, <1>8, LetsFacts
<1>10. /\ World' /\ Settled \subseteq Settled' /\ Content \subseteq Content' /\ 0 \in Content'
       /\ vs \subseteq Settled'
  <2>1. /\ stored \subseteq Content /\ given \subseteq Content /\ db \in [Uris -> Content]
        /\ \A w \in Uris : db[w] \in Settled
    BY DEF Inv, World
  <2>2. Content' = Content /\ 0 \in Content /\ DOMAIN tab' = Tabs
    BY <1>6, TabFacts, OutDomain DEF Content
  <2>3. stored' = stored /\ given \subseteq given' /\ given' \subseteq Content /\ vs \subseteq Settled'
    BY <1>6, <1>9, <2>1 DEF GivesUp, Settled
  <2>4. db' \in [Uris -> Content] /\ \A w \in Uris : db'[w] \in Settled'
    BY <1>6, <2>1, <2>2, <2>3 DEF Settled
  <2> QED
    BY <1>6, <2>1, <2>2, <2>3, <2>4, WorldStep
<1>11. Good(setting, y, Content', Settled', 0) /\ Alike(y, In(t)) /\ y.c.open /\ y.c.dr[u] = 0
  BY <1>1, <1>2, <1>3, <1>6, <1>9, <1>10, UndraftPage
<1>12. Good(setting, x, Content', Settled', 0) /\ x.c.open /\ x.c.objs = y.c.objs
  <2>1. CASE answer = "ok"
    BY <1>4, <1>8, <1>10, <1>11, <2>1, GoodGone
  <2>2. CASE answer # "ok"
    BY <1>4, <1>11, <2>2
  <2> QED
    BY <2>1, <2>2
<1>13. Fine(setting, x, Content', Settled')
  BY <1>12, FineIfGood
<1>14. Moves(x, In(t), Settled')
  BY <1>11, <1>12 DEF Moves, Alike, Rest
<1> QED
  BY <1>6, <1>7, <1>10, <1>12, <1>13, <1>14, OutStep

\* The button of the list of drafts.
LEMMA DropDraftStep ==
  ASSUME Inv, NEW t \in setting.tabs, NEW u \in Uris, NEW answer, DropDraft(t, u, answer)
  PROVE  Inv'
<1>1. PICK o : o = tab[t].dr[u]
  OBVIOUS
<1>2. PICK s : s = undraft(In(t), u)
  OBVIOUS
<1>3. PICK r : r = Written(With(s, o, [s.c.objs[o] EXCEPT !.sync = FALSE]))
  OBVIOUS
<1>4. PICK b : b = IF tab[t].objs[o].new THEN s ELSE r
  OBVIOUS
<1>5. PICK y : y = reset(b, o, answer)
  OBVIOUS
<1>6. PICK vs : vs = Lets(In(t), o)
  OBVIOUS
<1>7. /\ tab[t].open /\ tab[t].page = 0 /\ o # 0 /\ Out(t, y) /\ GivesUp(vs)
      /\ UNCHANGED <<setting, db, last, stored>>
  BY <1>1, <1>2, <1>3, <1>4, <1>5, <1>6 DEF DropDraft
<1>8. /\ In(t).c = tab[t] /\ In(t) \in State(Content) /\ Fine(setting, In(t), Content, Settled)
  BY TabFacts
<1>9. Good(setting, In(t), Content, Settled, 0)
  BY <1>7, <1>8 DEF Fine, Exempt
<1>10. Pointers(In(t).c) /\ o \in 1 .. Len(In(t).c.objs) /\ In(t).c.objs[o].u = u
  <2>1. Pointers(In(t).c) /\ Len(In(t).c.objs) \in Nat
    BY <1>8, <1>9, StateFacts DEF Good
  <2> QED
    BY <1>1, <1>7, <1>8, <2>1 DEF Pointers
<1>11. Cached(setting, In(t), o)
  BY <1>1, <1>7, <1>8, <1>9, <1>10 DEF Cached, Good, Links
<1>12. vs \subseteq Content /\ tab[t].objs[o].v \in vs
  BY <1>6, <1>8, <1>10, LetsFacts
<1>13. /\ World' /\ Settled \subseteq Settled' /\ Content \subseteq Content' /\ 0 \in Content'
       /\ vs \subseteq Settled' /\ db[u] \in Content' \cap Settled'
  BY <1>7, <1>12, QuietStep, OutDomain
<1>14. Good(setting, In(t), Content', Settled', o)
  <2>1. Good(setting, In(t), Content', Settled', 0)
    BY <1>9, <1>13, Grows
  <2>2. Drafts(In(t).c, 0)
    BY <2>1 DEF Good
  <2> QED
    BY <2>1, <2>2, Shift
<1>15. Good(setting, s, Content', Settled', o) /\ Alike(s, In(t))
  BY <1>1, <1>2, <1>8, <1>13, <1>14, GoodUndraft
<1>16. Places(s, In(t)) /\ Cached(setting, s, o) /\ s \in State(Content')
  BY <1>8, <1>11, <1>15, PlacesFacts, CachedKept DEF Good
<1>17. Good(setting, b, Content', Settled', o) /\ Places(b, s) /\ Contents(b, s)
  <2>1. CASE tab[t].objs[o].new
    BY <1>4, <1>15, <1>16, <2>1, PlacesFacts DEF Contents
  <2>2. CASE ~tab[t].objs[o].new
    <3>1. o \in 1 .. Len(s.c.objs) /\ s.c.objs[o] \in Obj(Content')
      BY <1>16, StateFacts DEF Cached
    <3>2. PICK z : z = [s.c.objs[o] EXCEPT !.sync = FALSE]
      OBVIOUS
    <3>3. z \in Obj(Content') /\ Fits(z, s.c.objs[o]) /\ z.v = s.c.objs[o].v
      BY <3>1, <3>2 DEF Obj, Fits
    <3>4. PICK w : w = With(s, o, z)
      OBVIOUS
    <3>5. /\ Good(setting, w, Content', Settled', o) /\ Places(w, s) /\ w.c.objs[o] = z
          /\ \A k \in 1 .. Len(s.c.objs) : k # o => w.c.objs[k] = s.c.objs[k]
      BY <1>15, <3>1, <3>3, <3>4, GoodWith
    <3>6. b = Written(w)
      BY <1>3, <1>4, <2>2, <3>2, <3>4
    <3>7. Good(setting, b, Content', Settled', o) /\ b.c = w.c
      BY <1>13, <3>5, <3>6, GoodWritten
    <3>8. Contents(w, s)
      BY <3>3, <3>5 DEF Contents
    <3> QED
      BY <3>5, <3>7, <3>8 DEF Places, Contents, Rest
  <2> QED
    BY <2>1, <2>2
<1>18. Cached(setting, b, o) /\ b.c.objs[o].u = u /\ b.c.objs[o].v = tab[t].objs[o].v
  <2>0. Cached(setting, b, o)
    BY <1>16, <1>17, CachedKept
  <2>1. Cached(setting, b, o) /\ o \in 1 .. Len(s.c.objs)
    BY <1>16, <2>0 DEF Cached
  <2>2. b.c.objs[o].u = s.c.objs[o].u /\ b.c.objs[o].v = s.c.objs[o].v
    BY <1>17, <2>1 DEF Places, Contents
  <2>3. s.c.objs[o].u = In(t).c.objs[o].u /\ s.c.objs[o].v = In(t).c.objs[o].v
    BY <1>10, <1>15 DEF Alike
  <2> QED
    BY <1>8, <1>10, <2>1, <2>2, <2>3
<1>19. Good(setting, y, Content', Settled', 0) /\ Places(y, b) /\ Others(y, b, o)
  <2>1. b.c.objs[o].v \in Settled' /\ db[b.c.objs[o].u] \in Content' \cap Settled'
    BY <1>12, <1>13, <1>18
  <2> QED
    BY <1>5, <1>13, <1>17, <1>18, <2>1, GoodReset
<1>20. Moves(y, In(t), Settled') /\ y.c.open
  <2>1. Moves(s, In(t), Settled') /\ Moves(b, s, Settled')
    BY <1>15, <1>17, MovesFacts
  <2>2. b.c.objs[o].v \in Settled'
    BY <1>12, <1>13, <1>18
  <2>3. Moves(y, b, Settled')
    BY <1>19, <2>2, MovesFacts
  <2>4. Moves(b, In(t), Settled')
    BY <2>1, MovesFacts
  <2>5. y.c.open
    BY <1>7, <1>8, <1>16, <1>17, <1>19 DEF Places, Rest
  <2> QED
    BY <2>3, <2>4, <2>5, MovesFacts
<1>21. Fine(setting, y, Content', Settled')
  BY <1>19, FineIfGood
<1> QED
  BY <1>7, <1>13, <1>20, <1>21, OutStep

\* An individual is shown.
LEMMA ShowFacts ==
  ASSUME NEW V, NEW s \in State(V), NEW u \in Uris, s.c.cache[u] \in 1 .. Len(s.c.objs),
         NEW edit \in BOOLEAN, NEW x, x = Show(s, u, edit)
  PROVE  /\ x \in State(V) /\ SameTab(x, s) /\ x.c.page = s.c.cache[u] /\ x.c.edit = edit
         /\ ~x.c.ready
<1>1. s.c \in Pages(V) /\ s.c.objs[s.c.cache[u]] \in Obj(V) /\ s.c.cache[u] \in Nat
  BY StateFacts
<1>2. PICK v : v = s.c.objs[s.c.cache[u]].base
  OBVIOUS
<1>3. PICK o : o = s.c.cache[u]
  OBVIOUS
<1>4. v \in V /\ o \in Nat
  BY <1>1, <1>2, <1>3 DEF Obj
<1>5. PICK c : c = [s.c EXCEPT !.page = o, !.edit = edit, !.ready = FALSE, !.told = v]
  OBVIOUS
<1>6. /\ c \in Pages(V) /\ c.objs = s.c.objs /\ c.cache = s.c.cache /\ c.dr = s.c.dr
      /\ c.open = s.c.open /\ c.page = o /\ c.edit = edit /\ ~c.ready
  BY <1>1, <1>4, <1>5 DEF Pages
<1>7. x = [s EXCEPT !.c = c]
  BY <1>2, <1>3, <1>5 DEF Show, State
<1>8. x \in State(V) /\ x.c = c /\ x.d = s.d
  BY <1>6, <1>7, PairFacts
<1> QED
  BY <1>3, <1>6, <1>8 DEF SameTab

\* load() has an object of the individual in the cache.
LEMMA LoadFacts ==
  ASSUME NEW V, 0 \in V, NEW ok, 0 \in ok, NEW s, NEW e, Good(setting, s, V, ok, e),
         e \in {0, s.c.page}, NEW u \in Uris, db[u] \in V \cap ok, NEW answer,
         NEW x, x = load(s, u, answer)
  PROVE  /\ Good(setting, x, V, ok, e) /\ Cached(setting, x, x.c.cache[u])
         /\ x.c.objs[x.c.cache[u]].u = u
         /\ x.c.page = s.c.page /\ x.c.edit = s.c.edit /\ x.c.ready = s.c.ready
         /\ x.c.open = s.c.open /\ (Drafts(s.c, 0) => Drafts(x.c, 0))
         /\ ThingsOf(setting) => Moves(x, s, ok)
         /\ s.c.cache[u] # 0 => x = s
<1>1. s \in State(V) /\ Pointers(s.c) /\ Len(s.c.objs) \in Nat
  BY StateFacts DEF Good
<1>2. CASE s.c.cache[u] # 0
  <2>1. x = s
    BY <1>2 DEF load
  <2>2. s.c.cache[u] \in 1 .. Len(s.c.objs) /\ s.c.objs[s.c.cache[u]].u = u
    BY <1>1, <1>2 DEF Pointers
  <2>3. Cached(setting, s, s.c.cache[u])
    BY <2>2 DEF Cached
  <2>4. Moves(s, s, ok)
    BY DEF Moves
  <2> QED
    BY <2>1, <2>2, <2>3, <2>4
<1>3. CASE s.c.cache[u] = 0
  <2>1. PICK z : z = Loaded(u, answer)
    OBVIOUS
  <2>2. z \in Obj(V) /\ z.u = u /\ z.v \in ok
    BY <2>1 DEF Loaded, Obj
  <2>3. x = Made(s, z)
    BY <1>3, <2>1 DEF load
  <2>4. x \in State(V) /\ \E k \in Nat : MadeAt(x, s, z, k)
    BY <1>1, <2>2, <2>3, MadeFacts
  <2>5. PICK k \in Nat : MadeAt(x, s, z, k)
    BY <2>4
  <2>6. /\ Good(setting, x, V, ok, e) /\ (Drafts(s.c, 0) => Drafts(x.c, 0))
        /\ ThingsOf(setting) => Moves(x, s, ok)
    BY <1>3, <2>2, <2>4, <2>5, GoodMade
  <2>7. /\ x.c.page = s.c.page /\ x.c.edit = s.c.edit /\ x.c.ready = s.c.ready
        /\ x.c.open = s.c.open /\ x.c.cache[u] = k /\ x.c.objs[k] = z /\ k \in 1 .. Len(x.c.objs)
    BY <2>2, <2>5 DEF MadeAt
  <2>8. Cached(setting, x, k)
    BY <2>2, <2>7 DEF Cached
  <2> QED
    BY <1>3, <2>2, <2>6, <2>7, <2>8
<1> QED
  BY <1>2, <1>3

\* An individual is shown: the object is in the cache, and nothing is typed yet.
LEMMA OpenStep ==
  ASSUME Inv, NEW t \in setting.tabs, NEW u \in Uris, NEW edit \in BOOLEAN, NEW answer,
         Open(t, u, edit, answer)
  PROVE  Inv'
<1>1. PICK y : y = load(In(t), u, answer)
  OBVIOUS
<1>2. PICK x : x = Show(y, u, edit)
  OBVIOUS
<1>3. /\ tab[t].open /\ tab[t].page = 0 /\ Out(t, x)
      /\ UNCHANGED <<setting, db, last, stored, given>>
  BY <1>1, <1>2 DEF Open
<1>4. /\ World' /\ Settled \subseteq Settled' /\ Content \subseteq Content' /\ 0 \in Content'
      /\ 0 \in Settled' /\ db[u] \in Content' \cap Settled'
  BY <1>3, QuietStep, OutDomain
<1>5. In(t).c = tab[t] /\ Fine(setting, In(t), Content, Settled)
  BY TabFacts
<1>6. Good(setting, In(t), Content, Settled, 0)
  BY <1>3, <1>5 DEF Fine, Exempt
<1>7. Good(setting, In(t), Content', Settled', 0)
  BY <1>4, <1>6, Grows
<1>8. /\ Good(setting, y, Content', Settled', 0) /\ Cached(setting, y, y.c.cache[u])
      /\ y.c.open = In(t).c.open /\ (ThingsOf(setting) => Moves(y, In(t), Settled'))
  BY <1>1, <1>4, <1>7, LoadFacts
<1>9. y \in State(Content') /\ y.c.cache[u] \in 1 .. Len(y.c.objs)
  BY <1>8 DEF Good, Cached
<1>10. x \in State(Content') /\ SameTab(x, y) /\ x.c.page = y.c.cache[u]
  BY <1>2, <1>9, ShowFacts
<1>11. Good(setting, x, Content', Settled', 0)
  BY <1>8, <1>10, GoodPage
<1>12. Fine(setting, x, Content', Settled')
  BY <1>11, FineIfGood
<1>13. (ThingsOf(setting) => Moves(x, In(t), Settled')) /\ x.c.open
  BY <1>3, <1>5, <1>8, <1>10, MovesFacts DEF SameTab
<1> QED
  BY <1>3, <1>4, <1>12, <1>13, OutStep

\* An individual is created: nobody has an object of it.
LEMMA CreateStep ==
  ASSUME Inv, NEW t \in setting.tabs, NEW u \in Uris, Create(t, u)
  PROVE  Inv'
<1>1. PICK z : z = [u |-> u, v |-> last + 1, base |-> 0, new |-> TRUE, sync |-> FALSE]
  OBVIOUS
<1>2. PICK y : y = Made(In(t), z)
  OBVIOUS
<1>3. PICK x : x = Show(y, u, TRUE)
  OBVIOUS
<1>4. /\ tab[t].open /\ tab[t].page = 0 /\ Out(t, x) /\ last' = last + 1
      /\ \A b \in Tabs : \A k \in DOMAIN tab[b].objs : tab[b].objs[k].u # u
      /\ UNCHANGED <<setting, db, stored, given>>
  BY <1>1, <1>2, <1>3 DEF Create, Fresh
<1>5. World' /\ Settled \subseteq Settled' /\ Content \subseteq Content' /\ 0 \in Content'
  BY <1>4, QuietStep, OutDomain
<1>6. /\ t \in Tabs /\ In(t).c = tab[t] /\ Fine(setting, In(t), Content, Settled)
      /\ last + 1 \in Content' /\ In(t) \in State(Content)
  BY <1>4, TabFacts DEF Content
<1>7. Good(setting, In(t), Content, Settled, 0)
  BY <1>4, <1>6 DEF Fine, Exempt
<1>8. Good(setting, In(t), Content', Settled', 0)
  BY <1>5, <1>7, Grows
<1>9. z \in Obj(Content') /\ z.u = u /\ z.v = last + 1 /\ ~z.sync
  BY <1>1, <1>5, <1>6 DEF Obj
<1>10. In(t) \in State(Content') /\ Pointers(In(t).c) /\ Drafts(In(t).c, 0)
  BY <1>8 DEF Good
<1>11. In(t).c.cache[u] = 0
  <2> SUFFICES ASSUME In(t).c.cache[u] # 0 PROVE FALSE
    OBVIOUS
  <2>1. /\ tab[t].cache[u] \in 1 .. Len(tab[t].objs) /\ tab[t].objs[tab[t].cache[u]].u = u
    BY <1>6, <1>10, StateFacts DEF Pointers
  <2>2. tab[t].objs \in Seq(Obj(Content))
    BY <1>6, StateFacts
  <2>3. tab[t].cache[u] \in DOMAIN tab[t].objs
    BY <2>1, <2>2
  <2> QED
    BY <1>4, <1>6, <2>1, <2>3
<1>12. y \in State(Content') /\ \E k \in Nat : MadeAt(y, In(t), z, k)
  BY <1>2, <1>9, <1>10, MadeFacts
<1>13. PICK k \in Nat : MadeAt(y, In(t), z, k)
  BY <1>12
<1>14. /\ Good(setting, y, Content', Settled', k) /\ Drafts(y.c, 0)
       /\ ThingsOf(setting) => Moves(y, In(t), Settled')
  BY <1>8, <1>9, <1>10, <1>11, <1>12, <1>13, GoodMade
<1>15. /\ y.c.cache[u] = k /\ y.c.objs[k] = z /\ k \in 1 .. Len(y.c.objs)
       /\ y.c.open = In(t).c.open
  BY <1>9, <1>13 DEF MadeAt
<1>16. Cached(setting, y, k)
  BY <1>9, <1>15 DEF Cached
<1>17. /\ x \in State(Content') /\ SameTab(x, y) /\ x.c.page = k /\ x.c.edit /\ ~x.c.ready
  <2>1. PICK e \in BOOLEAN : e = TRUE
    OBVIOUS
  <2>2. x = Show(y, u, e) /\ y.c.cache[u] \in 1 .. Len(y.c.objs)
    BY <1>3, <1>15, <2>1
  <2>3. /\ x \in State(Content') /\ SameTab(x, y) /\ x.c.page = y.c.cache[u] /\ x.c.edit = e
        /\ ~x.c.ready
    BY <1>12, <2>2, ShowFacts
  <2> QED
    BY <1>15, <2>1, <2>3
<1>18. x.c.objs = y.c.objs /\ x.c.open /\ x.c.dr = y.c.dr
  BY <1>4, <1>6, <1>15, <1>17 DEF SameTab
<1>19. Good(setting, x, Content', Settled', k)
  BY <1>14, <1>16, <1>17, GoodPage
<1>20. Fine(setting, x, Content', Settled')
  <2>1. Exempt(x.c) = k /\ Drafts(x.c, 0) /\ ~x.c.objs[k].sync
    BY <1>9, <1>14, <1>15, <1>17, <1>18 DEF Exempt, Drafts
  <2> QED
    BY <1>19, <2>1 DEF Fine
<1>21. ThingsOf(setting) => Moves(x, In(t), Settled')
  BY <1>14, <1>17, MovesFacts
<1>22. \E j \in 1 .. Len(x.c.objs) : x.c.objs[j].v = last'
  BY <1>4, <1>9, <1>15, <1>18
<1> QED
  BY <1>4, <1>5, <1>18, <1>20, <1>21, <1>22, OutStep

\* receiveMessage(): what is given up was typed too early.
LEMMA ReceiveStep ==
  ASSUME Inv, NEW t \in setting.tabs, NEW u \in Uris, NEW answer, receiveMessage(t, u, answer)
  PROVE  Inv'
<1>1. PICK r : r = [In(t) EXCEPT !.c.told = db[u]]
  OBVIOUS
<1>2. PICK s : s = load(r, u, answer)
  OBVIOUS
<1>3. PICK o : o = s.c.cache[u]
  OBVIOUS
<1>4. PICK y : y = IF s.c.objs[o].base = db[u] \/ s.c.dr[u] # 0 THEN s ELSE reset(s, o, answer)
  OBVIOUS
<1>5. PICK vs : vs = Early(t)
  OBVIOUS
<1>6. /\ tab[t].page # 0 /\ tab[t].objs[tab[t].page].u = u /\ Out(t, y) /\ GivesUp(vs)
      /\ UNCHANGED <<setting, db, last, stored>>
  BY <1>1, <1>2, <1>3, <1>4, <1>5 DEF receiveMessage
<1>7. /\ tab[t].open /\ tab[t].objs[tab[t].page] \in Obj(Content) /\ In(t).c = tab[t]
      /\ In(t) \in State(Content) /\ Cached(setting, In(t), tab[t].page) /\ Drafts(In(t).c, 0)
      /\ Fine(setting, In(t), Content, Settled)
  BY <1>6, PageOn, TabFacts
<1>8. vs \subseteq Content
  BY <1>5, <1>7 DEF Early, Obj
<1>9. /\ World' /\ Settled \subseteq Settled' /\ Content \subseteq Content' /\ 0 \in Content'
      /\ 0 \in Settled' /\ vs \subseteq Settled' /\ db[u] \in Content' \cap Settled'
  BY <1>6, <1>8, QuietStep, OutDomain
<1>10. PICK e : e = Exempt(tab[t])
  OBVIOUS
<1>11. e \in {0, tab[t].page} /\ (e # 0 => ~tab[t].ready)
  BY <1>10 DEF Exempt
<1>12. Good(setting, In(t), Content', Settled', e)
  BY <1>7, <1>9, <1>10, Grows DEF Fine
<1>13. In(t) \in State(Content')
  BY <1>12 DEF Good
<1>14. /\ r \in State(Content') /\ SameTab(r, In(t)) /\ r.c.page = tab[t].page
       /\ r.c.edit = tab[t].edit /\ r.c.ready = tab[t].ready
  BY <1>1, <1>7, <1>9, <1>13 DEF State, Pages, SameTab
<1>15. /\ Good(setting, r, Content', Settled', e) /\ Drafts(r.c, 0)
       /\ r.c.objs = tab[t].objs /\ r.c.cache = tab[t].cache /\ r.c.dr = tab[t].dr
       /\ r.c.open /\ Moves(r, In(t), Settled')
  <2>1. Good(setting, r, Content', Settled', e)
    BY <1>7, <1>12, <1>14, GoodPage
  <2> QED
    BY <1>7, <1>14, <2>1, MovesFacts DEF SameTab, Drafts
<1>16. /\ Good(setting, s, Content', Settled', e) /\ Cached(setting, s, o) /\ s.c.objs[o].u = u
       /\ s.c.page = tab[t].page /\ s.c.edit = tab[t].edit /\ s.c.ready = tab[t].ready
       /\ s.c.open /\ Drafts(s.c, 0) /\ (ThingsOf(setting) => Moves(s, r, Settled'))
       /\ (r.c.cache[u] # 0 => s = r)
  BY <1>2, <1>3, <1>9, <1>11, <1>14, <1>15, LoadFacts
<1>17. ThingsOf(setting) => s = r /\ o = tab[t].page
  BY <1>3, <1>6, <1>7, <1>15, <1>16, SMTT(30) DEF ThingsOf, Cached
<1>18. ThingsOf(setting) => Moves(s, In(t), Settled')
  BY <1>15, <1>16, MovesFacts
<1>19. CASE y = s
  <2>1. Exempt(s.c) = e
    BY <1>10, <1>16 DEF Exempt
  <2>2. ThingsOf(setting) /\ e # 0 /\ s.c.objs[e].sync => s.c.objs[e].v \in Settled'
    BY <1>7, <1>9, <1>10, <1>15, <1>17 DEF Fine
  <2>3. Fine(setting, s, Content', Settled')
    BY <1>16, <2>1, <2>2 DEF Fine
  <2> QED
    BY <1>6, <1>7, <1>9, <1>16, <1>18, <1>19, <2>3, OutStep
<1>20. CASE y = reset(s, o, answer) /\ s.c.dr[u] = 0
  <2>1. ThingsOf(setting) => e \in {0, o}
    BY <1>11, <1>17
  <2>2. Good(setting, s, Content', Settled', o)
    BY <1>16, <2>1, Shift
  <2>3. ASSUME ThingsOf(setting) PROVE s.c.objs[o].v \in Settled'
    <3>1. CASE e = o
      <4>1. ~tab[t].ready /\ tab[t].page = o
        BY <1>6, <1>11, <1>17, <2>3, <3>1
      <4>2. tab[t].objs[o].v \in vs
        BY <1>5, <1>6, <4>1 DEF Early
      <4> QED
        BY <1>9, <1>15, <1>17, <2>3, <4>2
    <3>2. CASE e # o
      <4>1. Held(s.c, Settled', e) /\ o \in 1 .. Len(s.c.objs) /\ o # 0
        BY <1>6, <1>16, <1>17, <2>3 DEF Good, Cached
      <4> QED
        BY <1>16, <1>20, <3>2, <4>1 DEF Held
    <3> QED
      BY <3>1, <3>2
  <2>4. Good(setting, y, Content', Settled', 0) /\ Places(y, s) /\ Others(y, s, o)
    BY <1>9, <1>16, <1>20, <2>2, <2>3, GoodReset
  <2>5. Fine(setting, y, Content', Settled')
    BY <2>4, FineIfGood
  <2>6. (ThingsOf(setting) => Moves(y, In(t), Settled')) /\ y.c.open
    <3>1. ThingsOf(setting) => Moves(y, s, Settled')
      BY <2>3, <2>4, MovesFacts
    <3>2. y.c.open = s.c.open
      BY <2>4 DEF Places, Rest
    <3> QED
      BY <1>16, <1>18, <3>1, <3>2, MovesFacts
  <2> QED
    BY <1>6, <1>7, <1>9, <2>5, <2>6, OutStep
<1> QED
  BY <1>4, <1>19, <1>20

\* A logout: the settings have one, so that little is left to show.
LEMMA LogoutStep ==
  ASSUME Inv, logouts \in Nat, NEW t \in setting.tabs, Logout(t)
  PROVE  Inv'
<1>1. PICK x : x = [c |-> [Away(tab[t]) EXCEPT !.cache = None], d |-> disk]
  OBVIOUS
<1>2. /\ t \in Tabs /\ setting.logouts \in Nat /\ In(t).c = tab[t] /\ In(t).d = disk
      /\ In(t) \in State(Content) /\ Fine(setting, In(t), Content, Settled)
  BY TabFacts
<1>3. x.c = [Away(tab[t]) EXCEPT !.cache = None] /\ x.d = disk
  BY <1>1
<1>4. /\ tab[t].open /\ setting.logouts # 0 /\ Out(t, x)
      /\ UNCHANGED <<setting, db, last, stored, given>>
  BY <1>2, <1>3 DEF Logout, Out, Inv, World
<1>5. World' /\ Settled \subseteq Settled' /\ Content \subseteq Content' /\ 0 \in Content'
  BY <1>4, QuietStep, OutDomain
<1>6. Good(setting, In(t), Content', Settled', Exempt(tab[t])) /\ Drafts(In(t).c, 0)
  BY <1>2, <1>5, Grows DEF Fine
<1>7. In(t) \in State(Content') /\ Pointers(tab[t])
  BY <1>2, <1>6 DEF Good
<1>8. tab[t] \in Pages(Content') /\ disk \in [Uris -> Content'] /\ Len(tab[t].objs) \in Nat
  BY <1>2, <1>7, StateFacts
<1>9. None \in [Uris -> Nat] /\ \A u \in Uris : None[u] = 0
  BY DEF None
<1>10. PICK a : a = Away(tab[t])
  OBVIOUS
<1>11. /\ a \in Pages(Content') /\ a.objs = tab[t].objs /\ a.dr = tab[t].dr
       /\ a.open = tab[t].open /\ a.page = 0 /\ ~a.edit
  BY <1>5, <1>8, <1>10 DEF Away, Pages
<1>12. PICK c : c = [a EXCEPT !.cache = None]
  OBVIOUS
<1>13. /\ c \in Pages(Content') /\ c.objs = tab[t].objs /\ c.dr = tab[t].dr /\ c.cache = None
       /\ c.open = tab[t].open /\ c.page = 0
  BY <1>9, <1>11, <1>12, PageCache
<1>14. x.c = c /\ x \in State(Content')
  BY <1>1, <1>3, <1>8, <1>10, <1>12, <1>13 DEF State
<1>15. Pointers(x.c)
  BY <1>7, <1>8, <1>9, <1>13, <1>14 DEF Pointers
<1>16. Drafts(x.c, 0)
  BY <1>2, <1>6, <1>13, <1>14 DEF Drafts
<1>17. Good(setting, x, Content', Settled', 0)
  BY <1>4, <1>14, <1>15, <1>16 DEF Good, ThingsOf, SoleOf
<1>18. Fine(setting, x, Content', Settled')
  BY <1>17, FineIfGood
<1>19. ~ThingsOf(setting) /\ x.c.open
  BY <1>4, <1>13, <1>14 DEF ThingsOf
<1> QED
  BY <1>4, <1>5, <1>18, <1>19, OutStep

\* A closed tab.
LEMMA ClosedFacts ==
  ASSUME NEW g, NEW V, 0 \in V, NEW ok, NEW d \in [Uris -> V], NEW x, x = [c |-> Closed, d |-> d]
  PROVE  Fine(g, x, V, ok)
<1>1. None \in [Uris -> Nat] /\ \A u \in Uris : None[u] = 0
  BY DEF None
<1>2. <<>> \in Seq(Obj(V)) /\ Len(<<>>) = 0
  OBVIOUS
<1>3. /\ Closed \in Pages(V) /\ Closed.objs = <<>> /\ Closed.cache = None /\ Closed.dr = None
      /\ Closed.page = 0 /\ ~Closed.open
  BY <1>1, <1>2 DEF Closed, Pages
<1>4. x.c = Closed /\ x \in State(V)
  BY <1>3 DEF State
<1>5. Pointers(x.c) /\ Drafts(x.c, 0) /\ Links(x.c)
  BY <1>1, <1>2, <1>3, <1>4 DEF Pointers, Drafts, Links
<1>6. Held(x.c, ok, 0)
  BY <1>2, <1>3, <1>4 DEF Held
<1>7. Good(g, x, V, ok, 0)
  BY <1>3, <1>4, <1>5, <1>6 DEF Good
<1> QED
  BY <1>7, FineIfGood

\* A tab is closed: the disk has the drafts.
LEMMA CloseStep ==
  ASSUME Inv, NEW t \in setting.tabs, Close(t)
  PROVE  Inv'
<1>1. PICK x : x = [c |-> Closed, d |-> disk]
  OBVIOUS
<1>2. PICK vs : vs = Early(t)
  OBVIOUS
<1>3. x.c = Closed /\ x.d = disk
  BY <1>1
<1>4. /\ tab[t].open /\ tab' = [tab EXCEPT ![t] = x.c] /\ disk' = x.d /\ GivesUp(vs)
      /\ UNCHANGED <<setting, db, last, stored>>
  BY <1>2, <1>3 DEF Close
<1>5. /\ t \in Tabs /\ In(t).c = tab[t] /\ In(t).d = disk /\ In(t) \in State(Content)
      /\ Fine(setting, In(t), Content, Settled) /\ DOMAIN tab = Tabs
  BY TabFacts DEF Inv, World
<1>6. DOMAIN tab' = Tabs
  BY <1>4, <1>5
<1>7. vs \subseteq Content
  <2>1. CASE tab[t].page = 0
    BY <1>2, <2>1 DEF Early
  <2>2. CASE tab[t].page # 0
    <3>1. tab[t].objs[tab[t].page] \in Obj(Content)
      BY <2>2, PageOn
    <3> QED
      BY <1>2, <3>1 DEF Early, Obj
  <2> QED
    BY <2>1, <2>2
<1>8. /\ World' /\ Settled \subseteq Settled' /\ Content \subseteq Content' /\ 0 \in Content'
      /\ vs \subseteq Settled'
  BY <1>4, <1>6, <1>7, QuietStep
<1>9. disk \in [Uris -> Content'] /\ last' = last
  BY <1>4, <1>8 DEF Inv
<1>10. Fine(setting, x, Content', Settled')
  BY <1>1, <1>8, <1>9, ClosedFacts
<1>11. ASSUME SoleOf(setting), NEW v \in 1 .. last' PROVE v \in Settled' \/ Somewhere(x.c, x.d, v)
  <2>1. v \in Settled \/ \E k \in 1 .. Len(tab[t].objs) : tab[t].objs[k].v = v
    BY <1>4, <1>9, <1>11 DEF Inv, Somewhere
  <2>2. CASE v \in Settled
    BY <1>8, <2>2
  <2>3. CASE v \notin Settled
    <3>1. PICK k \in 1 .. Len(tab[t].objs) : tab[t].objs[k].v = v
      BY <2>1, <2>3
    <3>2. PICK e : e = Exempt(tab[t])
      OBVIOUS
    <3>3. Held(tab[t], Settled, e) /\ OnDisk(In(t), e)
      BY <1>4, <1>5, <1>11, <3>2 DEF Fine, Good, SoleOf
    <3>4. CASE k = e
      <4>1. k # 0
        BY <1>5, <3>1, StateFacts
      <4>2. tab[t].page = k /\ ~tab[t].ready
        BY <3>2, <3>4, <4>1 DEF Exempt
      <4>3. v \in vs
        BY <1>2, <3>1, <4>1, <4>2 DEF Early
      <4> QED
        BY <1>8, <4>3
    <3>5. CASE k # e
      <4>1. tab[t].dr[tab[t].objs[k].u] = k /\ k # 0
        BY <1>5, <2>3, <3>1, <3>3, <3>5, StateFacts DEF Held
      <4>2. tab[t].objs[k].u \in Uris
        <5>1. tab[t].objs[k] \in Obj(Content)
          BY <1>5, <3>1, StateFacts
        <5> QED
          BY <5>1 DEF Obj
      <4>3. disk[tab[t].objs[k].u] = v
        BY <1>5, <3>1, <3>3, <3>5, <4>1, <4>2 DEF OnDisk
      <4>4. ~x.c.open
        BY <1>3 DEF Closed
      <4> QED
        BY <1>3, <4>2, <4>3, <4>4 DEF Somewhere
    <3> QED
      BY <3>4, <3>5
  <2> QED
    BY <2>2, <2>3
<1> QED
  BY <1>3, <1>4, <1>8, <1>9, <1>10, <1>11, TabChange

\* The sequence of a finite set has each of its elements once.
LEMMA SetToSeqFacts ==
  ASSUME NEW S, IsFiniteSet(S), NEW f, f = SetToSeq(S)
  PROVE  /\ f \in Seq(S) /\ DOMAIN f = 1 .. Len(f) /\ Len(f) \in Nat
         /\ \A u \in S : \E k \in 1 .. Len(f) : f[k] = u
         /\ \A j, k \in 1 .. Len(f) : f[j] = f[k] => j = k
<1>1. PICK n : n = Cardinality(S)
  OBVIOUS
<1>2. n \in Nat /\ ExistsBijection(1 .. n, S)
  BY <1>1, FS_CardinalityType
<1>3. \E b \in [1 .. n -> S] : IsInjective(b)
  BY <1>2 DEF ExistsBijection, Bijection, Injection
<1>4. f \in [1 .. n -> S] /\ IsInjective(f)
  BY <1>1, <1>3 DEF SetToSeq
<1>5. Cardinality(1 .. n) = n
  <2>1. Cardinality(1 .. n) = IF 1 > n THEN 0 ELSE n - 1 + 1
    BY <1>2, FS_Interval
  <2> QED
    BY <1>2, <2>1
<1>6. f \in Injection(1 .. n, S)
  BY <1>4 DEF Injection
<1>7. f \in Surjection(1 .. n, S)
  BY <1>1, <1>5, <1>6, FS_Injection
<1>8. f \in Seq(S) /\ Len(f) = n /\ DOMAIN f = 1 .. n
  BY <1>2, <1>4
<1>9. \A u \in S : \E k \in 1 .. n : f[k] = u
  BY <1>7 DEF Surjection
<1>10. \A j, k \in 1 .. n : f[j] = f[k] => j = k
  BY <1>4, <1>8 DEF IsInjective
<1> QED
  BY <1>2, <1>8, <1>9, <1>10

\* A tab that starts from the disk d has an object for each draft, and nothing else.
Restored(q, at, d) ==
  /\ \A k \in 1 .. Len(q) : /\ q[k].v = d[q[k].u] /\ ~q[k].sync /\ at[q[k].u] = k
                            /\ d[q[k].u] # 0
  /\ \A u \in Uris : /\ d[u] = 0 => at[u] = 0
                     /\ d[u] # 0 => at[u] \in 1 .. Len(q) /\ q[at[u]].u = u

\* Such a tab is as it should be.
LEMMA GoodRestored ==
  ASSUME NEW g, NEW V, 0 \in V, NEW ok, NEW d \in [Uris -> V], NEW q \in Seq(Obj(V)),
         NEW at \in [Uris -> Nat], Restored(q, at, d), NEW x,
         x = [c |-> [open |-> TRUE, objs |-> q, cache |-> at, dr |-> at, page |-> 0, edit |-> FALSE,
                     ready |-> FALSE, told |-> 0], d |-> d]
  PROVE  Good(g, x, V, ok, 0)
<1>1. x \in State(V)
  BY StateMade
<1>2. /\ x.c.objs = q /\ x.c.cache = at /\ x.c.dr = at /\ x.c.page = 0 /\ x.d = d
      /\ Len(q) \in Nat
  OBVIOUS
<1>3. Pointers(x.c)
  <2>1. ASSUME NEW u \in Uris PROVE at[u] \in 0 .. Len(q) /\ (at[u] # 0 => q[at[u]].u = u)
    BY <1>2 DEF Restored
  <2> QED
    BY <1>2, <2>1 DEF Pointers
<1>4. Drafts(x.c, 0)
  <2>1. ASSUME NEW u \in Uris PROVE at[u] = 0 \/ ~q[at[u]].sync
    BY <1>2 DEF Restored
  <2> QED
    BY <1>2, <2>1 DEF Drafts
<1>5. Links(x.c)
  BY <1>2 DEF Links
<1>6. Held(x.c, ok, 0)
  BY <1>2 DEF Held, Restored
<1>7. OnDisk(x, 0)
  <2>1. ASSUME NEW u \in Uris PROVE d[u] = IF at[u] = 0 THEN 0 ELSE q[at[u]].v
    <3>1. CASE d[u] = 0
      BY <3>1 DEF Restored
    <3>2. CASE d[u] # 0
      <4>1. at[u] \in 1 .. Len(q) /\ q[at[u]].u = u
        BY <3>2 DEF Restored
      <4>2. q[at[u]].v = d[u] /\ at[u] # 0
        BY <1>2, <4>1 DEF Restored
      <4> QED
        BY <4>2
    <3> QED
      BY <3>1, <3>2
  <2> QED
    BY <1>2, <2>1 DEF OnDisk
<1> QED
  BY <1>1, <1>3, <1>4, <1>5, <1>6, <1>7 DEF Good

\* A tab starts: what is on disk is in its objects.
LEMMA StartStep ==
  ASSUME Inv, NEW t \in setting.tabs, Start(t)
  PROVE  Inv'
<1>1. PICK S : S = {u \in Uris : disk[u] # 0}
  OBVIOUS
<1>2. PICK us : us = SetToSeq(S)
  OBVIOUS
<1>3. PICK q : q = [k \in DOMAIN us |-> [u |-> us[k], v |-> disk[us[k]], base |-> 0,
                                          new |-> FALSE, sync |-> FALSE]]
  OBVIOUS
<1>4. PICK at : at = [u \in Uris |-> IF disk[u] = 0 THEN 0 ELSE CHOOSE k \in DOMAIN us : us[k] = u]
  OBVIOUS
<1>5. PICK x : x = [c |-> [open |-> TRUE, objs |-> q, cache |-> at, dr |-> at, page |-> 0,
                           edit |-> FALSE, ready |-> FALSE, told |-> 0], d |-> disk]
  OBVIOUS
<1>6. tab' = [tab EXCEPT ![t] = [Closed EXCEPT !.open = TRUE, !.objs = q, !.cache = at, !.dr = at]]
  BY <1>1, <1>2, <1>3, <1>4 DEF Start
<1>7. [Closed EXCEPT !.open = TRUE, !.objs = q, !.cache = at, !.dr = at] = x.c
  <2>1. x.c = [open |-> TRUE, objs |-> q, cache |-> at, dr |-> at, page |-> 0,
               edit |-> FALSE, ready |-> FALSE, told |-> 0]
    BY <1>5
  <2>2. PICK a : a = [Closed EXCEPT !.open = TRUE]
    OBVIOUS
  <2>3. a = [open |-> TRUE, objs |-> <<>>, cache |-> None, dr |-> None, page |-> 0,
             edit |-> FALSE, ready |-> FALSE, told |-> 0]
    BY <2>2 DEF Closed
  <2>4. PICK b : b = [a EXCEPT !.objs = q]
    OBVIOUS
  <2>5. b = [open |-> TRUE, objs |-> q, cache |-> None, dr |-> None, page |-> 0,
             edit |-> FALSE, ready |-> FALSE, told |-> 0]
    BY <2>3, <2>4
  <2>6. PICK c : c = [b EXCEPT !.cache = at]
    OBVIOUS
  <2>7. c = [open |-> TRUE, objs |-> q, cache |-> at, dr |-> None, page |-> 0,
             edit |-> FALSE, ready |-> FALSE, told |-> 0]
    BY <2>5, <2>6
  <2>8. PICK e : e = [c EXCEPT !.dr = at]
    OBVIOUS
  <2>9. e = [open |-> TRUE, objs |-> q, cache |-> at, dr |-> at, page |-> 0,
             edit |-> FALSE, ready |-> FALSE, told |-> 0]
    BY <2>7, <2>8
  <2> QED
    BY <2>1, <2>2, <2>4, <2>6, <2>8, <2>9
<1>8. /\ ~tab[t].open /\ tab' = [tab EXCEPT ![t] = x.c] /\ disk' = x.d
      /\ UNCHANGED <<setting, db, last, stored, given>>
  BY <1>5, <1>6, <1>7 DEF Start
<1>9. /\ t \in Tabs /\ DOMAIN tab = Tabs /\ disk \in [Uris -> Content] /\ 0 \in Content
      /\ last \in Nat
  BY TabFacts DEF Inv, World
<1>10. DOMAIN tab' = Tabs
  BY <1>8, <1>9
<1>11. World' /\ Settled \subseteq Settled' /\ Content \subseteq Content' /\ 0 \in Content'
  BY <1>8, <1>10, QuietStep
<1>12. IsFiniteSet(S)
  BY <1>1, ClientAssumption, FS_Subset
<1>13. /\ us \in Seq(S) /\ DOMAIN us = 1 .. Len(us) /\ Len(us) \in Nat
       /\ \A u \in S : \E k \in 1 .. Len(us) : us[k] = u
       /\ \A j, k \in 1 .. Len(us) : us[j] = us[k] => j = k
  BY <1>2, <1>12, SetToSeqFacts
<1>14. \A k \in 1 .. Len(us) : us[k] \in Uris /\ disk[us[k]] # 0
  BY <1>1, <1>13
<1>15. /\ q \in Seq(Obj(Content)) /\ Len(q) = Len(us)
       /\ \A k \in 1 .. Len(us) : q[k].u = us[k] /\ q[k].v = disk[us[k]] /\ ~q[k].sync
  <2>1. ASSUME NEW k \in 1 .. Len(us)
        PROVE  /\ q[k] \in Obj(Content)
               /\ q[k].u = us[k] /\ q[k].v = disk[us[k]] /\ ~q[k].sync
    <3>1. q[k] = [u |-> us[k], v |-> disk[us[k]], base |-> 0, new |-> FALSE, sync |-> FALSE]
      BY <1>3, <1>13
    <3>2. us[k] \in Uris /\ disk[us[k]] \in Content
      BY <1>9, <1>14
    <3> QED
      BY <1>9, <3>1, <3>2 DEF Obj
  <2>2. DOMAIN q = 1 .. Len(us) /\ q = [k \in 1 .. Len(us) |-> q[k]]
    BY <1>3, <1>13
  <2>3. q \in [1 .. Len(us) -> Obj(Content)]
    BY <2>1, <2>2
  <2>4. q \in Seq(Obj(Content)) /\ Len(q) = Len(us)
    BY <1>13, <2>3
  <2> QED
    BY <2>1, <2>4
<1>16. ASSUME NEW u \in Uris, disk[u] # 0 PROVE at[u] \in 1 .. Len(us) /\ us[at[u]] = u
  <2>1. \E k \in DOMAIN us : us[k] = u
    BY <1>1, <1>13, <1>16
  <2>2. at[u] = CHOOSE k \in DOMAIN us : us[k] = u
    BY <1>4, <1>16
  <2> QED
    BY <1>13, <2>1, <2>2
<1>17. \A u \in Uris : disk[u] = 0 => at[u] = 0
  BY <1>4
<1>18. at \in [Uris -> Nat]
  <2>1. \A u \in Uris : at[u] \in Nat
    BY <1>13, <1>16, <1>17
  <2> QED
    BY <1>4, <2>1
<1>19. Restored(q, at, disk)
  <2>1. ASSUME NEW k \in 1 .. Len(q)
        PROVE  /\ q[k].v = disk[q[k].u] /\ ~q[k].sync /\ at[q[k].u] = k /\ disk[q[k].u] # 0
    <3>1. q[k].u = us[k] /\ q[k].v = disk[us[k]] /\ ~q[k].sync /\ k \in 1 .. Len(us)
      BY <1>15
    <3>2. at[us[k]] \in 1 .. Len(us) /\ us[at[us[k]]] = us[k] /\ disk[us[k]] # 0
      BY <1>14, <1>16, <3>1
    <3> QED
      BY <1>13, <3>1, <3>2
  <2>2. ASSUME NEW u \in Uris, disk[u] # 0 PROVE at[u] \in 1 .. Len(q) /\ q[at[u]].u = u
    BY <1>15, <1>16, <2>2
  <2> QED
    BY <1>17, <2>1, <2>2 DEF Restored
<1>20. Good(setting, x, Content, Settled, 0)
  BY <1>5, <1>9, <1>15, <1>18, <1>19, GoodRestored
<1>21. Good(setting, x, Content', Settled', 0)
  BY <1>11, <1>20, Grows
<1>22. Fine(setting, x, Content', Settled')
  BY <1>21, FineIfGood
<1>23. x.c.open /\ x.c.objs = q /\ last' = last
  BY <1>5, <1>8
<1>24. ASSUME SoleOf(setting), NEW v \in 1 .. last' PROVE v \in Settled' \/ Somewhere(x.c, x.d, v)
  <2>1. v \in Settled \/ \E u \in Uris : disk[u] = v
    BY <1>8, <1>23, <1>24 DEF Inv, Somewhere
  <2>2. CASE v \in Settled
    BY <1>11, <2>2
  <2>3. CASE v \notin Settled
    <3>1. PICK u \in Uris : disk[u] = v
      BY <2>1, <2>3
    <3>2. disk[u] # 0
      BY <1>9, <1>23, <1>24, <3>1
    <3>3. at[u] \in 1 .. Len(q) /\ q[at[u]].v = v
      BY <1>15, <1>16, <3>1, <3>2
    <3> QED
      BY <1>23, <3>3 DEF Somewhere
  <2> QED
    BY <2>2, <2>3
<1> QED
  BY <1>8, <1>11, <1>22, <1>23, <1>24, TabChange

\* Somebody else saves: the tabs are as they were.
LEMMA OtherStep ==
  ASSUME Inv, NEW u \in Uris, Other(u)
  PROVE  Inv'
<1>1. /\ last' = last + 1 /\ Puts(u, last', "ok") /\ UNCHANGED <<setting, disk, tab, given>>
  BY DEF Other, Fresh
<1>2. DOMAIN tab = Tabs /\ last \in Nat \ {0} /\ disk \in [Uris -> Content]
  BY DEF Inv, World
<1>3. last' \in Content' /\ DOMAIN tab' = Tabs
  BY <1>1, <1>2 DEF Content
<1>4. /\ World' /\ Settled \subseteq Settled' /\ Content \subseteq Content'
      /\ last' \in Settled'
  <2>1. {} \subseteq Content
    OBVIOUS
  <2> QED
    BY <1>1, <1>3, <2>1, PutsStep
<1>5. ASSUME NEW b \in Tabs PROVE Fine(setting, In(b), Content', Settled')
  <2>1. Fine(setting, In(b), Content, Settled)
    BY DEF Inv
  <2>2. Good(setting, In(b), Content', Settled', Exempt(In(b).c))
    BY <1>4, <2>1, Grows DEF Fine
  <2> QED
    BY <1>4, <2>1, <2>2 DEF Fine
<1>6. \A b \in Tabs : Fine(setting, In(b), Content, Settled)'
  BY <1>1, <1>5 DEF In
<1>7. disk' \in [Uris -> Content']
  BY <1>1, <1>2, <1>4
<1>8. ASSUME SoleOf(setting), NEW t \in setting.tabs, NEW v \in 1 .. last'
      PROVE  v \in Settled' \/ Somewhere(tab[t], disk, v)
  <2>1. CASE v = last'
    BY <1>4, <2>1
  <2>2. CASE v # last'
    <3>1. v \in 1 .. last
      BY <1>1, <1>2, <2>2
    <3> QED
      BY <1>4, <1>8, <3>1 DEF Inv
  <2> QED
    BY <2>1, <2>2
<1> QED
  BY <1>1, <1>4, <1>6, <1>7, <1>8 DEF Inv

\* The tabs are a function, and logouts are counted.
Counted == logouts \in Nat /\ tab = [t \in Tabs |-> tab[t]]

\* At first all tabs are closed and the server has one individual.
LEMMA InitInv ==
  ASSUME Init
  PROVE  Inv /\ Counted
<1>1. /\ setting \in Settings /\ disk = None /\ last = 1 /\ stored = {1} /\ given = {}
      /\ tab = [t \in Tabs |-> Closed] /\ logouts = 0
  BY DEF Init
<1>2. Content = 0 .. 1 /\ Settled = {0, 1}
  BY <1>1 DEF Content, Settled
<1>3. None \in [Uris -> Content] /\ \A u \in Uris : None[u] = 0
  BY <1>2 DEF None
<1>4. db \in [Uris -> Content] /\ \A u \in Uris : db[u] \in Settled
  <2>1. PICK w : w = CHOOSE u \in Uris : TRUE
    OBVIOUS
  <2>2. db = [None EXCEPT ![w] = 1]
    BY <2>1 DEF Init
  <2>3. DOMAIN db = Uris /\ db = [u \in Uris |-> db[u]]
    BY <1>3, <2>2
  <2>4. \A u \in Uris : db[u] \in {0, 1}
    BY <1>3, <2>2
  <2> QED
    BY <1>2, <2>3, <2>4
<1>5. World
  BY <1>1, <1>2, <1>4 DEF World
<1>6. ASSUME NEW t \in Tabs PROVE Fine(setting, In(t), Content, Settled)
  <2>1. In(t) = [c |-> Closed, d |-> None]
    BY <1>1 DEF In
  <2> QED
    BY <1>2, <1>3, <2>1, ClosedFacts
<1>7. \A x \in 1 .. last : x \in Settled
  BY <1>1, <1>2
<1>8. Counted
  BY <1>1 DEF Counted
<1> QED
  BY <1>1, <1>3, <1>5, <1>6, <1>7, <1>8 DEF Inv

\* A step of a tab leaves all the tabs a function.
LEMMA Counting ==
  ASSUME Inv, Counted, NEW t \in setting.tabs,
         \/ Start(t) \/ Close(t) \/ Ready(t) \/ Leave(t) \/ EditMode(t) \/ Type(t) \/ Draft(t) \/ Logout(t)
         \/ \E u : Create(t, u)
         \/ \E a : Save(t, a) \/ Cancel(t, a) \/ Delete(t, a) \/ Destroy(t, a)
         \/ \E u, a : DropDraft(t, u, a) \/ receiveMessage(t, u, a)
         \/ \E u, e, a : Open(t, u, e, a)
  PROVE  Counted'
<1>1. logouts \in Nat /\ tab = [b \in Tabs |-> tab[b]]
  BY DEF Counted
<1>2. (\E x : tab' = [tab EXCEPT ![t] = x]) /\ logouts' \in {logouts, logouts + 1}
  <2>1. CASE Start(t) \/ Close(t) \/ Leave(t) \/ EditMode(t) \/ Logout(t)
    BY <2>1 DEF Start, Close, Leave, EditMode, Logout, counts
  <2>2. CASE Ready(t) \/ Type(t) \/ Draft(t) \/ \E u : Create(t, u)
    BY <2>2 DEF Ready, Type, Draft, Create, Out, counts
  <2>3. CASE \E a : Save(t, a) \/ Cancel(t, a) \/ Destroy(t, a)
    <3>1. CASE \E a : Save(t, a)
      BY <3>1 DEF Save, Out
    <3>2. CASE \E a : Cancel(t, a)
      BY <3>2 DEF Cancel, Out
    <3>3. CASE \E a : Destroy(t, a)
      BY <3>3 DEF Destroy, Out
    <3> QED
      BY <2>3, <3>1, <3>2, <3>3
  <2>4. CASE \E a : Delete(t, a)
    BY <2>4 DEF Delete, Out
  <2>5. CASE \E u, a : DropDraft(t, u, a) \/ receiveMessage(t, u, a)
    <3>1. CASE \E u, a : DropDraft(t, u, a)
      BY <3>1 DEF DropDraft, Out
    <3>2. CASE \E u, a : receiveMessage(t, u, a)
      BY <3>2 DEF receiveMessage, Out
    <3> QED
      BY <2>5, <3>1, <3>2
  <2>6. CASE \E u, e, a : Open(t, u, e, a)
    BY <2>6 DEF Open, Out
  <2> QED
    BY <2>1, <2>2, <2>3, <2>4, <2>5, <2>6
<1>3. tab' = [b \in Tabs |-> tab'[b]]
  BY <1>1, <1>2
<1>4. logouts' \in Nat
  BY <1>1, <1>2
<1> QED
  BY <1>3, <1>4 DEF Counted

\* Every step keeps the invariant.
LEMMA NextInv ==
  ASSUME Inv, Counted, [Next]_vars
  PROVE  Inv' /\ Counted'
<1>1. setting \in Settings /\ setting.uris \subseteq Uris
  BY ClientAssumption DEF Inv, World
<1>2. CASE UNCHANGED vars
  <2>1. UNCHANGED <<setting, db, disk, tab, last, stored, given, logouts>>
    BY <1>2 DEF vars, counts
  <2> QED
    BY <2>1 DEF Inv, World, Content, Settled, In, Counted
<1>3. ASSUME NEW t \in setting.tabs, Start(t) PROVE Inv' /\ Counted'
  BY <1>3, StartStep, Counting
<1>4. ASSUME NEW t \in setting.tabs, Close(t) PROVE Inv' /\ Counted'
  BY <1>4, CloseStep, Counting
<1>5. ASSUME NEW t \in setting.tabs, Ready(t) PROVE Inv' /\ Counted'
  BY <1>5, ReadyStep, Counting
<1>6. ASSUME NEW t \in setting.tabs, Leave(t) PROVE Inv' /\ Counted'
  BY <1>6, LeaveStep, Counting
<1>7. ASSUME NEW t \in setting.tabs, EditMode(t) PROVE Inv' /\ Counted'
  BY <1>7, EditModeStep, Counting
<1>8. ASSUME NEW t \in setting.tabs, Type(t) PROVE Inv' /\ Counted'
  BY <1>8, TypeStep, Counting
<1>9. ASSUME NEW t \in setting.tabs, Draft(t) PROVE Inv' /\ Counted'
  BY <1>9, DraftStep, Counting
<1>10. ASSUME NEW t \in setting.tabs, Logout(t) PROVE Inv' /\ Counted'
  <2>1. logouts' = logouts + 1
    BY <1>10 DEF Logout
  <2> QED
    BY <1>10, <2>1, LogoutStep, Counting DEF Counted
<1>11. ASSUME NEW t \in setting.tabs, NEW u \in setting.uris, Create(t, u) PROVE Inv' /\ Counted'
  BY <1>1, <1>11, CreateStep, Counting
<1>12. ASSUME NEW t \in setting.tabs, NEW a \in Answers,
              Save(t, a) \/ Cancel(t, a) \/ Delete(t, a) \/ Destroy(t, a)
       PROVE  Inv' /\ Counted'
  <2>1. CASE Save(t, a)
    BY <2>1, SaveStep, Counting
  <2>2. CASE Cancel(t, a)
    BY <2>2, CancelStep, Counting
  <2>3. CASE Delete(t, a)
    BY <2>3, DeleteStep, Counting
  <2>4. CASE Destroy(t, a)
    BY <2>4, DestroyStep, Counting
  <2> QED
    BY <1>12, <2>1, <2>2, <2>3, <2>4
<1>13. ASSUME NEW t \in setting.tabs, NEW u \in setting.uris, NEW a \in Answers,
              DropDraft(t, u, a) \/ receiveMessage(t, u, a)
       PROVE  Inv' /\ Counted'
  <2>1. CASE DropDraft(t, u, a)
    BY <1>1, <2>1, DropDraftStep, Counting
  <2>2. CASE receiveMessage(t, u, a)
    BY <1>1, <2>2, ReceiveStep, Counting
  <2> QED
    BY <1>13, <2>1, <2>2
<1>14. ASSUME NEW t \in setting.tabs, NEW u \in setting.uris, NEW e \in BOOLEAN, NEW a \in Answers,
              Open(t, u, e, a)
       PROVE  Inv' /\ Counted'
  BY <1>1, <1>14, OpenStep, Counting
<1>15. ASSUME NEW u \in setting.uris, Other(u) PROVE Inv' /\ Counted'
  BY <1>1, <1>15, OtherStep DEF Other, counts, Counted
<1> QED
  BY <1>2, <1>3, <1>4, <1>5, <1>6, <1>7, <1>8, <1>9, <1>10, <1>11, <1>12, <1>13, <1>14, <1>15 DEF Next

\* The invariant holds of every behaviour.
LEMMA Invariance == Spec => [](Inv /\ Counted)
<1>1. Init => Inv /\ Counted
  BY InitInv
<1>2. Inv /\ Counted /\ [Next]_vars => (Inv /\ Counted)'
  BY NextInv
<1> QED
  BY <1>1, <1>2, PTL DEF Spec

\* What the invariant says of one tab.
LEMMA InvTab ==
  ASSUME Inv, NEW t \in Tabs
  PROVE  /\ In(t) \in State(Content) /\ In(t).c = tab[t] /\ In(t).d = disk
         /\ tab[t] \in Pages(Content) /\ Pointers(tab[t]) /\ Drafts(tab[t], 0)
         /\ setting.logouts = 0 => Links(tab[t])
         /\ ThingsOf(setting) => Held(tab[t], Settled, Exempt(tab[t]))
         /\ ThingsOf(setting) /\ Exempt(tab[t]) # 0 /\ tab[t].objs[Exempt(tab[t])].sync =>
              tab[t].objs[Exempt(tab[t])].v \in Settled
         /\ Len(tab[t].objs) \in Nat /\ tab[t].objs \in Seq(Obj(Content))
<1>1. Fine(setting, In(t), Content, Settled)
  BY DEF Inv
<1>2. In(t).c = tab[t] /\ In(t).d = disk
  BY DEF In
<1>3. Good(setting, In(t), Content, Settled, Exempt(tab[t])) /\ Drafts(tab[t], 0)
  BY <1>1, <1>2 DEF Fine
<1>4. In(t) \in State(Content) /\ Pointers(tab[t])
  BY <1>2, <1>3 DEF Good
<1>5. tab[t] \in Pages(Content) /\ Len(tab[t].objs) \in Nat /\ tab[t].objs \in Seq(Obj(Content))
  BY <1>2, <1>4, StateFacts
<1> QED
  BY <1>1, <1>2, <1>3, <1>4, <1>5 DEF Fine, Good

\* The types of the state: a reference of the page, the cache or the drafts
\* of a tab leads to an object of the same individual, and no draft is marked
\* as synchronised, in whatever order the handlers of individual_presenter.js,
\* the update service and closed or restarted tabs take their steps.
THEOREM TypeTheorem == Spec => []TypeOK
<1>1. ASSUME Inv, Counted PROVE TypeOK
  <2>1. World /\ disk \in [Uris -> Content]
    BY <1>1 DEF Inv
  <2>2. ASSUME NEW t \in Tabs PROVE tab[t] \in Page
    BY <1>1, <2>2, InvTab DEF Pages, Page, Obj, Object
  <2>3. tab \in [Tabs -> Page]
    <3>1. tab = [t \in Tabs |-> tab[t]]
      BY <1>1 DEF Counted
    <3> QED
      BY <2>2, <3>1
  <2>4. ASSUME NEW t \in Tabs
        PROVE  /\ tab[t].page \in 0 .. Len(tab[t].objs)
               /\ \A u \in Uris : \A o \in {tab[t].cache[u], tab[t].dr[u]} \ {0} : tab[t].objs[o].u = u
               /\ \A u \in Uris : tab[t].dr[u] # 0 => ~tab[t].objs[tab[t].dr[u]].sync
    BY <1>1, <2>4, InvTab DEF Pointers, Drafts
  <2> QED
    BY <2>1, <2>3, <2>4 DEF TypeOK, World
<1> QED
  BY <1>1, Invariance, PTL

\* isSync() says the truth of user things: the content of an object that
\* counts as synchronised is one the server has had or the user has given up,
\* for any number of tabs and of calls that fail before or after the server
\* has stored.
THEOREM SyncedTheorem == Spec => []SyncedIsStored
<1>1. ASSUME Inv PROVE SyncedIsStored
  <2> SUFFICES ASSUME Things, NEW t \in Tabs, NEW k \in DOMAIN tab[t].objs, tab[t].objs[k].sync
               PROVE  tab[t].objs[k].v \in stored \cup given \cup {0}
    BY DEF SyncedIsStored
  <2>1. ThingsOf(setting)
    BY DEF Things, ThingsOf
  <2>2. PICK e : e = Exempt(tab[t])
    OBVIOUS
  <2>3. Held(tab[t], Settled, e) /\ (e # 0 /\ tab[t].objs[e].sync => tab[t].objs[e].v \in Settled)
    BY <1>1, <2>1, <2>2, InvTab
  <2>4. k \in 1 .. Len(tab[t].objs) /\ k # 0
    BY <1>1, InvTab
  <2>5. CASE k = e
    BY <2>3, <2>4, <2>5 DEF Settled
  <2>6. CASE k # e
    BY <2>3, <2>4, <2>6 DEF Held, Settled
  <2> QED
    BY <2>5, <2>6
<1> QED
  BY <1>1, Invariance, PTL

\* What a user has typed in a user thing is not lost: of one tab, every
\* content that is neither stored nor given up is that of an unsaved object
\* of the page or of a draft, and on disk when the tab is closed, so that the
\* next start of the tab has it again.
THEOREM TextKeptTheorem == Spec => []TextKept
<1>1. ASSUME Inv PROVE TextKept
  <2> SUFFICES ASSUME Things, NEW t \in Tabs, setting.tabs = {t},
                      NEW v \in (1 .. last) \ (stored \cup given)
               PROVE  v \in IF tab[t].open THEN Unsaved(t) ELSE {disk[u] : u \in Uris}
    BY DEF TextKept
  <2>1. ThingsOf(setting) /\ SoleOf(setting) /\ t \in setting.tabs
    BY DEF Things, ThingsOf, SoleOf
  <2>2. v \notin Settled
    <3>1. last \in Nat
      BY <1>1 DEF Inv, World
    <3> QED
      BY <3>1 DEF Settled
  <2>3. Somewhere(tab[t], disk, v)
    BY <1>1, <2>1, <2>2 DEF Inv
  <2>4. CASE ~tab[t].open
    <3>1. PICK u \in Uris : disk[u] = v
      BY <2>3, <2>4 DEF Somewhere
    <3> QED
      BY <2>4, <3>1
  <2>5. CASE tab[t].open
    <3>1. PICK k \in 1 .. Len(tab[t].objs) : tab[t].objs[k].v = v
      BY <2>3, <2>5 DEF Somewhere
    <3>2. PICK e : e = Exempt(tab[t])
      OBVIOUS
    <3>3. Held(tab[t], Settled, e) /\ (e # 0 /\ tab[t].objs[e].sync => tab[t].objs[e].v \in Settled)
      BY <1>1, <2>1, <3>2, InvTab
    <3>4. k # 0 /\ Len(tab[t].objs) \in Nat /\ tab[t].objs \in Seq(Obj(Content))
      BY <1>1, InvTab
    <3>5. ~tab[t].objs[k].sync /\ k \in {tab[t].page} \cup {tab[t].dr[u] : u \in Uris}
      <4>1. CASE k = e
        <5>1. tab[t].page = k
          BY <3>2, <3>4, <4>1 DEF Exempt
        <5> QED
          BY <2>2, <3>1, <3>3, <3>4, <4>1, <5>1
      <4>2. CASE k # e
        <5>1. ~tab[t].objs[k].sync /\ tab[t].dr[tab[t].objs[k].u] = k
          BY <2>2, <3>1, <3>3, <4>2 DEF Held
        <5>2. tab[t].objs[k].u \in Uris
          <6>1. tab[t].objs[k] \in Obj(Content)
            BY <3>4
          <6> QED
            BY <6>1 DEF Obj
        <5> QED
          BY <5>1, <5>2
      <4> QED
        BY <4>1, <4>2
    <3>6. v \in Unsaved(t)
      BY <3>1, <3>4, <3>5 DEF Unsaved
    <3> QED
      BY <2>5, <3>6
  <2> QED
    BY <2>4, <2>5
<1> QED
  BY <1>1, Invariance, PTL

\* The object of a page is the object of the draft of the same individual, so
\* that saving the page saves the draft, unless there was a logout.
THEOREM ShownTheorem == Spec => []ShownIsDraft
<1>1. ASSUME Inv PROVE ShownIsDraft
  <2> SUFFICES ASSUME setting.logouts = 0, NEW t \in Tabs, tab[t].page # 0
               PROVE  tab[t].dr[tab[t].objs[tab[t].page].u] \in {0, tab[t].page}
    BY DEF ShownIsDraft
  <2>1. Links(tab[t]) /\ tab[t].objs \in Seq(Obj(Content)) /\ Pointers(tab[t])
    BY <1>1, InvTab
  <2>2. tab[t].page \in 1 .. Len(tab[t].objs)
    BY <2>1 DEF Pointers
  <2>3. tab[t].objs[tab[t].page] \in Obj(Content)
    BY <2>1, <2>2
  <2>4. tab[t].objs[tab[t].page].u \in Uris
    BY <2>3 DEF Obj
  <2> QED
    BY <2>1, <2>4 DEF Links
<1> QED
  BY <1>1, Invariance, PTL
=============================================================================
