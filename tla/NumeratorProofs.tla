--------------------------- MODULE NumeratorProofs --------------------------
(***************************************************************************)
(* Theorems about the numeration, for every number of documents, scopes,   *)
(* numbers and settings.  As long as no crash has left half of a           *)
(* transaction in the database the interval lists of Numerator implement   *)
(* the sets of numbers of NumberScope, and gentle users get no number      *)
(* twice.  Over crashes a transaction holds all that a run has changed, and*)
(* every document gets a number.                                           *)
(***************************************************************************)
EXTENDS Numerator, FiniteSetTheorems, NaturalsInduction, TLAPS

IvState == [iv: [Ids -> Interval], sc: [Scopes -> SUBSET Ids], todo: Seq(Write)]

\* No interval is empty.
Full(st) == \A s \in Scopes : \A i \in st.sc[s] : st.iv[i].b <= st.iv[i].e
\* The intervals of a list are apart from each other.
Gaps(st) == \A s \in Scopes : \A i, j \in st.sc[s] :
              i # j => \/ st.iv[i].e + 1 < st.iv[j].b
                       \/ st.iv[j].e + 1 < st.iv[i].b
\* No interval is in two lists.
Owned(st) == \A s, t \in Scopes : s # t => st.sc[s] \cap st.sc[t] = {}

Sound(st) == st \in IvState /\ Full(st) /\ Gaps(st) /\ Owned(st)

\* A set of intervals contains the numbers that some interval holds.
LEMMA CoveredIsTaken ==
  ASSUME NEW st \in IvState, NEW s \in Scopes
  PROVE  /\ Covered(st, s) \subseteq Nat
         /\ \A n \in Nat : n \in Covered(st, s) <=> Taken(st, s, n)
  BY DEF IvState, Interval, Covered, Taken, Holds

-----------------------------------------------------------------------------
\* The value and the two intervals around it become one interval.
LEMMA JoinBothSound ==
  ASSUME NEW st, Sound(st), NEW s \in Scopes, NEW n \in Nat, n # 0, ~Taken(st, s, n),
         NEW p \in Before(st, s, n), NEW q \in After(st, s, n),
         NEW c, c = JoinBoth(st, s, p, q)
  PROVE  /\ Sound(c)
         /\ \A t \in Scopes, m \in Nat :
              Taken(c, t, m) <=> Taken(st, t, m) \/ (t = s /\ m = n)
         /\ Unused(st) \subseteq Unused(c)
<1> USE DEF Interval
<1>1. /\ st \in IvState
      /\ p \in st.sc[s] /\ q \in st.sc[s] /\ p \in Ids /\ q \in Ids
      /\ st.iv[p].e = n - 1 /\ st.iv[q].b = n + 1
      /\ st.iv[p].b \in Nat /\ st.iv[q].e \in Nat
      /\ st.iv[p].b <= n - 1 /\ n + 1 <= st.iv[q].e
      /\ p # q
  BY DEF Sound, IvState, Full, Before, After
<1>2. /\ c.iv = [st.iv EXCEPT ![p] = [b |-> st.iv[p].b, e |-> st.iv[q].e]]
      /\ c.sc = [st.sc EXCEPT ![s] = st.sc[s] \ {q}]
      /\ c.todo = st.todo \o <<PutInterval(p), PutScope(s)>>
      /\ c = [iv |-> c.iv, sc |-> c.sc, todo |-> c.todo]
  BY <1>1 DEF JoinBoth, IvState
<1>3. c \in IvState
  <2>1. c.todo \in Seq(Write)
    BY <1>1, <1>2 DEF IvState, Write, PutInterval, PutScope
  <2>2. c.iv \in [Ids -> Interval] /\ c.sc \in [Scopes -> SUBSET Ids]
    BY <1>1, <1>2 DEF IvState
  <2>3. QED
    BY <2>1, <2>2, <1>2 DEF IvState
<1>4. /\ c.iv[p].b = st.iv[p].b /\ c.iv[p].e = st.iv[q].e
      /\ \A i \in Ids : i # p => c.iv[i] = st.iv[i]
      /\ c.sc[s] = st.sc[s] \ {q}
      /\ \A t \in Scopes : t # s => c.sc[t] = st.sc[t]
  BY <1>1, <1>2 DEF IvState
<1>5. \A t \in Scopes : t # s => p \notin st.sc[t]
  BY <1>1 DEF Sound, Owned
<1>6. Full(c)
  <2> SUFFICES ASSUME NEW t \in Scopes, NEW i \in c.sc[t]
               PROVE  c.iv[i].b <= c.iv[i].e
    BY DEF Full
  <2>1. i \in st.sc[t] /\ i \in Ids /\ st.iv[i].b <= st.iv[i].e
    BY <1>1, <1>4 DEF Sound, Full, IvState
  <2>2. QED
    BY <2>1, <1>1, <1>4
<1>7. Gaps(c)
  <2> SUFFICES ASSUME NEW t \in Scopes, NEW i \in c.sc[t], NEW j \in c.sc[t], i # j
               PROVE  \/ c.iv[i].e + 1 < c.iv[j].b
                      \/ c.iv[j].e + 1 < c.iv[i].b
    BY DEF Gaps
  <2>1. /\ i \in st.sc[t] /\ j \in st.sc[t] /\ i \in Ids /\ j \in Ids
        /\ st.iv[i].b \in Nat /\ st.iv[i].e \in Nat
        /\ st.iv[j].b \in Nat /\ st.iv[j].e \in Nat
        /\ st.iv[i].b <= st.iv[i].e /\ st.iv[j].b <= st.iv[j].e
    BY <1>1, <1>4 DEF Sound, Full, IvState
  <2>2. \A k \in st.sc[s] : k # p /\ k # q =>
          /\ st.iv[k].e + 1 < st.iv[p].b \/ st.iv[p].e + 1 < st.iv[k].b
          /\ st.iv[k].e + 1 < st.iv[q].b \/ st.iv[q].e + 1 < st.iv[k].b
          /\ st.iv[k].b \in Nat /\ st.iv[k].e \in Nat /\ st.iv[k].b <= st.iv[k].e
    BY <1>1 DEF Sound, Full, Gaps, IvState
  <2>3. CASE i = p
    BY <2>3, <2>1, <2>2, <1>1, <1>4, <1>5
  <2>4. CASE j = p
    BY <2>4, <2>1, <2>2, <1>1, <1>4, <1>5
  <2>5. CASE i # p /\ j # p
    BY <2>5, <2>1, <1>4 DEF Sound, Gaps
  <2>6. QED
    BY <2>3, <2>4, <2>5
<1>8. Owned(c)
  BY <1>4 DEF Sound, Owned
<1>9. ASSUME NEW t \in Scopes, NEW m \in Nat
      PROVE  Taken(c, t, m) <=> Taken(st, t, m) \/ (t = s /\ m = n)
  <2>1. CASE t # s
    BY <2>1, <1>1, <1>4, <1>5, ZenonT(30) DEF Taken, Holds, IvState
  <2>2. CASE t = s
    <3>1. \A i \in st.sc[s] : i # p /\ i # q => (Holds(c, i, m) <=> Holds(st, i, m))
      BY <1>1, <1>4 DEF Holds, IvState
    <3>2. Holds(c, p, m) <=> Holds(st, p, m) \/ Holds(st, q, m) \/ m = n
      BY <1>1, <1>4 DEF Holds
    <3>3. p \in c.sc[s] /\ q \notin c.sc[s]
      BY <1>1, <1>4
    <3>4. QED
      BY <2>2, <3>1, <3>2, <3>3, <1>1, <1>4 DEF Taken
  <2>3. QED
    BY <2>1, <2>2
<1>10. Unused(st) \subseteq Unused(c)
  BY <1>4 DEF Unused
<1>11. QED
  BY <1>3, <1>6, <1>7, <1>8, <1>9, <1>10 DEF Sound

JoinOne(st, r, x) == [st EXCEPT !.iv[r] = x, !.todo = Append(@, PutInterval(r))]

\* The value joins the interval before it, or the one after it.  r is that
\* interval, x the interval it becomes.
LEMMA JoinOneSound ==
  ASSUME NEW st, Sound(st), NEW s \in Scopes, NEW n \in Nat, n # 0, ~Taken(st, s, n),
         NEW r \in st.sc[s], NEW x,
         \/ /\ st.iv[r].e = n - 1 /\ x = [b |-> st.iv[r].b, e |-> n]
            /\ After(st, s, n) = {}
         \/ /\ st.iv[r].b = n + 1 /\ x = [b |-> n, e |-> st.iv[r].e]
            /\ Before(st, s, n) = {},
         NEW c, c = JoinOne(st, r, x)
  PROVE  /\ Sound(c)
         /\ \A t \in Scopes, m \in Nat :
              Taken(c, t, m) <=> Taken(st, t, m) \/ (t = s /\ m = n)
         /\ Unused(st) \subseteq Unused(c)
<1> USE DEF Interval
<1>1. /\ st \in IvState
      /\ r \in Ids
      /\ st.iv[r].b \in Nat /\ st.iv[r].e \in Nat /\ st.iv[r].b <= st.iv[r].e
      /\ x \in Interval /\ x.b \in Nat /\ x.e \in Nat /\ x.b <= x.e
  BY DEF Sound, IvState, Full
<1>2. /\ c.iv = [st.iv EXCEPT ![r] = x]
      /\ c.sc = st.sc
      /\ c.todo = Append(st.todo, PutInterval(r))
      /\ c = [iv |-> c.iv, sc |-> c.sc, todo |-> c.todo]
  BY <1>1 DEF IvState, JoinOne
<1>3. c \in IvState
  <2>1. c.todo \in Seq(Write)
    BY <1>1, <1>2 DEF IvState, Write, PutInterval
  <2>2. QED
    BY <2>1, <1>1, <1>2, ZenonT(30) DEF IvState
<1>4. c.iv[r] = x /\ \A i \in Ids : i # r => c.iv[i] = st.iv[i]
  BY <1>1, <1>2 DEF IvState
<1>5. \A t \in Scopes : t # s => r \notin st.sc[t]
  BY DEF Sound, Owned
<1>6. ASSUME NEW t \in Scopes, NEW i \in st.sc[t]
      PROVE  /\ i \in Ids /\ st.iv[i].b \in Nat /\ st.iv[i].e \in Nat
             /\ st.iv[i].b <= st.iv[i].e
  BY <1>1 DEF Sound, Full, IvState
<1>7. Full(c)
  BY <1>1, <1>2, <1>4, <1>6 DEF Full
<1>8. ASSUME NEW k \in st.sc[s], k # r
      PROVE  x.e + 1 < st.iv[k].b \/ st.iv[k].e + 1 < x.b
  <2>1. st.iv[k].e + 1 < st.iv[r].b \/ st.iv[r].e + 1 < st.iv[k].b
    BY <1>8 DEF Sound, Gaps
  <2>2. st.iv[k].b \in Nat /\ st.iv[k].e \in Nat /\ st.iv[k].b <= st.iv[k].e
    BY <1>6
  <2>3. ~(st.iv[k].b <= n /\ n <= st.iv[k].e)
    BY <1>8 DEF Taken, Holds
  <2>4. After(st, s, n) = {} => st.iv[k].b # n + 1
    BY DEF After
  <2>5. Before(st, s, n) = {} => st.iv[k].e # n - 1
    BY DEF Before
  <2>6. QED
    BY <2>1, <2>2, <2>3, <2>4, <2>5, <1>1
<1>9. Gaps(c)
  <2> SUFFICES ASSUME NEW t \in Scopes, NEW i \in st.sc[t], NEW j \in st.sc[t], i # j
               PROVE  \/ c.iv[i].e + 1 < c.iv[j].b
                      \/ c.iv[j].e + 1 < c.iv[i].b
    BY <1>2 DEF Gaps
  <2>1. i \in Ids /\ j \in Ids
    BY <1>6
  <2>2. CASE i = r
    BY <2>1, <2>2, <1>4, <1>5, <1>8
  <2>3. CASE j = r
    BY <2>1, <2>3, <1>4, <1>5, <1>8
  <2>4. CASE i # r /\ j # r
    BY <2>1, <2>4, <1>4 DEF Sound, Gaps
  <2>5. QED
    BY <2>2, <2>3, <2>4
<1>10. Owned(c)
  BY <1>2 DEF Sound, Owned
<1>11. ASSUME NEW t \in Scopes, NEW m \in Nat
       PROVE  Taken(c, t, m) <=> Taken(st, t, m) \/ (t = s /\ m = n)
  <2>1. CASE t # s
    BY <2>1, <1>2, <1>4, <1>5, <1>6 DEF Taken, Holds
  <2>2. CASE t = s
    <3>1. \A i \in st.sc[s] : i # r => (Holds(c, i, m) <=> Holds(st, i, m))
      BY <1>4, <1>6 DEF Holds
    <3>2. Holds(c, r, m) <=> Holds(st, r, m) \/ m = n
      BY <1>1, <1>4 DEF Holds
    <3>3. QED
      BY <2>2, <3>1, <3>2, <1>2 DEF Taken
  <2>3. QED
    BY <2>1, <2>2
<1>12. Unused(st) \subseteq Unused(c)
  BY <1>2 DEF Unused
<1>13. QED
  BY <1>3, <1>7, <1>9, <1>10, <1>11, <1>12 DEF Sound

\* The value becomes an interval of its own, with a uri of no list.
LEMMA NewIntervalSound ==
  ASSUME NEW st, Sound(st), NEW s \in Scopes, NEW n \in Nat, n # 0, ~Taken(st, s, n),
         Before(st, s, n) = {}, After(st, s, n) = {},
         NEW u \in Unused(st),
         NEW c, c = NewInterval(st, s, u, n)
  PROVE  /\ Sound(c)
         /\ \A t \in Scopes, m \in Nat :
              Taken(c, t, m) <=> Taken(st, t, m) \/ (t = s /\ m = n)
         /\ Unused(st) \ {u} \subseteq Unused(c)
<1> USE DEF Interval
<1>1. /\ st \in IvState
      /\ u \in Ids
      /\ \A t \in Scopes : u \notin st.sc[t]
  BY DEF Sound, Unused
<1>2. /\ c.iv = [st.iv EXCEPT ![u] = [b |-> n, e |-> n]]
      /\ c.sc = [st.sc EXCEPT ![s] = st.sc[s] \cup {u}]
      /\ c.todo = st.todo \o <<PutInterval(u), PutScope(s)>>
      /\ c = [iv |-> c.iv, sc |-> c.sc, todo |-> c.todo]
  BY <1>1 DEF NewInterval, IvState
<1>3. c \in IvState
  <2>1. c.todo \in Seq(Write)
    BY <1>1, <1>2 DEF IvState, Write, PutInterval, PutScope
  <2>2. c.iv \in [Ids -> Interval] /\ c.sc \in [Scopes -> SUBSET Ids]
    BY <1>1, <1>2 DEF IvState
  <2>3. QED
    BY <2>1, <2>2, <1>2 DEF IvState
<1>4. /\ c.iv[u].b = n /\ c.iv[u].e = n
      /\ \A i \in Ids : i # u => c.iv[i] = st.iv[i]
      /\ c.sc[s] = st.sc[s] \cup {u}
      /\ \A t \in Scopes : t # s => c.sc[t] = st.sc[t]
  BY <1>1, <1>2 DEF IvState
<1>5. ASSUME NEW t \in Scopes, NEW i \in st.sc[t]
      PROVE  /\ i \in Ids /\ i # u /\ st.iv[i].b \in Nat /\ st.iv[i].e \in Nat
             /\ st.iv[i].b <= st.iv[i].e
  BY <1>1 DEF Sound, Full, IvState
<1>6. Full(c)
  <2> SUFFICES ASSUME NEW t \in Scopes, NEW i \in c.sc[t]
               PROVE  c.iv[i].b <= c.iv[i].e
    BY DEF Full
  <2>1. CASE i = u
    BY <2>1, <1>4
  <2>2. CASE i # u
    BY <2>2, <1>4, <1>5
  <2>3. QED
    BY <2>1, <2>2
<1>7. ASSUME NEW k \in st.sc[s]
      PROVE  n + 1 < st.iv[k].b \/ st.iv[k].e + 1 < n
  BY <1>5 DEF Taken, Holds, Before, After
<1>8. Gaps(c)
  <2> SUFFICES ASSUME NEW t \in Scopes, NEW i \in c.sc[t], NEW j \in c.sc[t], i # j
               PROVE  \/ c.iv[i].e + 1 < c.iv[j].b
                      \/ c.iv[j].e + 1 < c.iv[i].b
    BY DEF Gaps
  <2>1. CASE i # u /\ j # u
    <3>1. i \in st.sc[t] /\ j \in st.sc[t]
      BY <2>1, <1>4
    <3>2. QED
      BY <3>1, <2>1, <1>4, <1>5 DEF Sound, Gaps
  <2>2. CASE i = u
    <3>1. t = s /\ j \in st.sc[s]
      BY <2>2, <1>1, <1>4
    <3>2. QED
      BY <3>1, <2>2, <1>4, <1>5, <1>7
  <2>3. CASE j = u
    <3>1. t = s /\ i \in st.sc[s]
      BY <2>3, <1>1, <1>4
    <3>2. QED
      BY <3>1, <2>3, <1>4, <1>5, <1>7
  <2>4. QED
    BY <2>1, <2>2, <2>3
<1>9. Owned(c)
  BY <1>1, <1>4 DEF Sound, Owned
<1>10. ASSUME NEW t \in Scopes, NEW m \in Nat
       PROVE  Taken(c, t, m) <=> Taken(st, t, m) \/ (t = s /\ m = n)
  <2>1. \A i \in st.sc[t] : Holds(c, i, m) <=> Holds(st, i, m)
    BY <1>4, <1>5 DEF Holds
  <2>2. Holds(c, u, m) <=> m = n
    BY <1>4 DEF Holds
  <2>3. QED
    BY <2>1, <2>2, <1>4 DEF Taken
<1>11. Unused(st) \ {u} \subseteq Unused(c)
  BY <1>4 DEF Unused
<1>12. QED
  BY <1>3, <1>6, <1>8, <1>9, <1>10, <1>11 DEF Sound

\* commitValue() takes its number, leaves all others as they were, keeps the
\* lists sound and uses at most one uri.
LEMMA CommitSound ==
  ASSUME NEW st, Sound(st), NEW s \in Scopes, NEW n \in Nat, n # 0,
         NEW v \in Unused(st), NEW w \in Unused(st), v # w
  PROVE  /\ Sound(commitValue(st, s, n))
         /\ \A t \in Scopes, m \in Nat :
              Taken(commitValue(st, s, n), t, m) <=> Taken(st, t, m) \/ (t = s /\ m = n)
         /\ Unused(commitValue(st, s, n)) # {}
<1> DEFINE p == CHOOSE i \in Before(st, s, n) : TRUE
           q == CHOOSE i \in After(st, s, n) : TRUE
           u == CHOOSE i \in Unused(st) : TRUE
           c == commitValue(st, s, n)
<1>1. CASE Taken(st, s, n)
  <2>1. c = st
    BY <1>1 DEF commitValue
  <2>2. QED
    BY <2>1, <1>1
<1>2. CASE ~Taken(st, s, n) /\ Before(st, s, n) # {} /\ After(st, s, n) # {}
  <2>1. c = JoinBoth(st, s, p, q) /\ p \in Before(st, s, n) /\ q \in After(st, s, n)
    BY <1>2 DEF commitValue
  <2> HIDE DEF p, q, c
  <2>2. QED
    BY <2>1, <1>2, JoinBothSound DEF c
<1>3. CASE ~Taken(st, s, n) /\ Before(st, s, n) # {} /\ After(st, s, n) = {}
  <2>1. c = JoinBefore(st, p, n) /\ p \in Before(st, s, n)
    BY <1>3 DEF commitValue
  <2> HIDE DEF p, q, c
  <2>2. /\ p \in st.sc[s] /\ st.iv[p].e = n - 1
        /\ c = [st EXCEPT !.iv[p] = [b |-> st.iv[p].b, e |-> n],
                          !.todo = Append(@, PutInterval(p))]
    BY <2>1 DEF JoinBefore, Before, Sound, IvState
  <2>3. PICK x : x = [b |-> st.iv[p].b, e |-> n]
    OBVIOUS
  <2>4. c = JoinOne(st, p, x)
    BY <2>2, <2>3 DEF JoinOne
  <2>5. /\ Sound(c)
        /\ \A t \in Scopes, m \in Nat :
             Taken(c, t, m) <=> Taken(st, t, m) \/ (t = s /\ m = n)
        /\ Unused(st) \subseteq Unused(c)
    BY <2>2, <2>3, <2>4, <1>3, JoinOneSound
  <2>6. QED
    BY <2>5 DEF c
<1>4. CASE ~Taken(st, s, n) /\ Before(st, s, n) = {} /\ After(st, s, n) # {}
  <2>1. c = JoinAfter(st, q, n) /\ q \in After(st, s, n)
    BY <1>4 DEF commitValue
  <2> HIDE DEF p, q, c
  <2>2. /\ q \in st.sc[s] /\ st.iv[q].b = n + 1
        /\ c = [st EXCEPT !.iv[q] = [b |-> n, e |-> st.iv[q].e],
                          !.todo = Append(@, PutInterval(q))]
    BY <2>1 DEF JoinAfter, After, Sound, IvState
  <2>3. PICK x : x = [b |-> n, e |-> st.iv[q].e]
    OBVIOUS
  <2>4. c = JoinOne(st, q, x)
    BY <2>2, <2>3 DEF JoinOne
  <2>5. /\ Sound(c)
        /\ \A t \in Scopes, m \in Nat :
             Taken(c, t, m) <=> Taken(st, t, m) \/ (t = s /\ m = n)
        /\ Unused(st) \subseteq Unused(c)
    BY <2>2, <2>3, <2>4, <1>4, JoinOneSound
  <2>6. QED
    BY <2>5 DEF c
<1>5. CASE ~Taken(st, s, n) /\ Before(st, s, n) = {} /\ After(st, s, n) = {}
  <2>1. c = NewInterval(st, s, u, n) /\ u \in Unused(st)
    BY <1>5 DEF commitValue
  <2> HIDE DEF u, c
  <2>2. QED
    BY <2>1, <1>5, NewIntervalSound DEF c
<1>6. QED
  BY <1>1, <1>2, <1>3, <1>4, <1>5

-----------------------------------------------------------------------------
\* At most one interval of a list holds a number.
LEMMA OneHolds ==
  ASSUME NEW st, Sound(st), NEW s \in Scopes, NEW n \in Nat,
         NEW i \in st.sc[s], NEW j \in st.sc[s], Holds(st, i, n), Holds(st, j, n)
  PROVE  i = j
<1>1. /\ st.iv[i].b \in Nat /\ st.iv[i].e \in Nat
      /\ st.iv[j].b \in Nat /\ st.iv[j].e \in Nat
  BY DEF Sound, IvState, Interval
<1>2. QED
  BY <1>1 DEF Sound, Gaps, Holds

\* So revokeValue() needs at most one new uri.
LEMMA HalvesExist ==
  ASSUME NEW st, Sound(st), NEW s \in Scopes, NEW n \in Nat, Unused(st) # {}
  PROVE  Halves(st, s, n) # {}
<1>1. PICK u : u \in Unused(st)
  OBVIOUS
<1>2. \A i, j \in Inside(st, s, n) : i = j
  <2> SUFFICES ASSUME NEW i \in Inside(st, s, n), NEW j \in Inside(st, s, n)
               PROVE  i = j
    OBVIOUS
  <2>1. /\ st.iv[i].b \in Nat /\ st.iv[i].e \in Nat
        /\ st.iv[j].b \in Nat /\ st.iv[j].e \in Nat
    BY DEF Sound, IvState, Interval, Inside
  <2>2. QED
    BY <2>1, OneHolds DEF Inside, Holds
<1>3. [i \in Inside(st, s, n) |-> u] \in Halves(st, s, n)
  BY <1>1, <1>2 DEF Halves
<1>4. QED
  BY <1>3

\* The writes that Puts() lists are those of the intervals of the set.
LEMMA PutsType ==
  ASSUME NEW S \in SUBSET Ids
  PROVE  Puts(S) \in Seq(Write) /\ Range(Puts(S)) = {PutInterval(i) : i \in S}
<1>1. PICK n : n = Cardinality(S)
  OBVIOUS
<1>2. n \in Nat /\ ExistsBijection(1 .. n, S)
  BY <1>1, FS_Subset, FS_CardinalityType, NumeratorAssumption
<1>3. PICK f \in Bijection(1 .. n, S) : TRUE
  BY <1>2 DEF ExistsBijection
<1>4. f \in [1 .. n -> S] /\ \A x \in S : \E k \in DOMAIN f : f[k] = x
  BY <1>3 DEF Bijection, Surjection
<1>5. PICK g : g = Listed(S)
  OBVIOUS
<1>6. g \in [1 .. n -> S] /\ \A x \in S : \E k \in DOMAIN g : g[k] = x
  BY <1>1, <1>4, <1>5 DEF Listed
<1>7. Puts(S) = [k \in 1 .. n |-> PutInterval(g[k])]
  BY <1>1, <1>5 DEF Puts
<1>8. \A i \in S : PutInterval(i) \in Write
  BY DEF PutInterval, Write
<1>9. Puts(S) \in Seq(Write)
  BY <1>2, <1>6, <1>7, <1>8
<1>10. Range(Puts(S)) = {PutInterval(i) : i \in S}
  BY <1>6, <1>7 DEF Range
<1>11. QED
  BY <1>9, <1>10

\* revokeValue() frees its number, leaves all others as they were and keeps
\* the lists sound.
LEMMA RevokeSound ==
  ASSUME NEW st, Sound(st), NEW s \in Scopes, NEW n \in Nat, n # 0, Unused(st) # {},
         NEW c, c = revokeValue(st, s, n)
  PROVE  /\ Sound(c)
         /\ \A t \in Scopes, m \in Nat :
              Taken(c, t, m) <=> Taken(st, t, m) /\ ~(t = s /\ m = n)
<1> USE DEF Interval
<1> DEFINE half == CHOOSE f \in Halves(st, s, n) : TRUE
           new  == {half[i] : i \in Inside(st, s, n)}
           whose(j) == CHOOSE i \in Inside(st, s, n) : half[i] = j
<1>1. half \in Halves(st, s, n)
  BY HalvesExist
<1>2. /\ half \in [Inside(st, s, n) -> Unused(st)]
      /\ new \subseteq Unused(st)
      /\ \A j \in new : whose(j) \in Inside(st, s, n)
  BY <1>1 DEF Halves
<1>3. /\ c.iv = [i \in Ids |->
                  IF i \in new THEN [b |-> n + 1, e |-> st.iv[whose(i)].e]
                  ELSE IF i \in AtBegin(st, s, n) THEN [b |-> n + 1, e |-> st.iv[i].e]
                  ELSE IF i \in AtEnd(st, s, n) \cup Inside(st, s, n)
                  THEN [b |-> st.iv[i].b, e |-> n - 1]
                  ELSE st.iv[i]]
      /\ c.sc = [st.sc EXCEPT ![s] = (st.sc[s] \ Single(st, s, n)) \cup new]
      /\ c.todo = st.todo \o Puts(Cut(st, s, n)) \o Puts(new) \o <<PutScope(s)>>
      /\ c = [iv |-> c.iv, sc |-> c.sc, todo |-> c.todo]
  BY DEF revokeValue
<1> HIDE DEF half, whose
<1>4. /\ st \in IvState
      /\ \A t \in Scopes : st.sc[t] \subseteq Ids
      /\ new \subseteq Ids /\ \A t \in Scopes : new \cap st.sc[t] = {}
      /\ \A i \in Ids : st.iv[i].b \in Nat /\ st.iv[i].e \in Nat
  BY <1>2 DEF Sound, IvState, Unused
\* Only one interval h can hold n, and it is the only one that changes.
<1>5. \A i, j \in st.sc[s] : Holds(st, i, n) /\ Holds(st, j, n) => i = j
  BY OneHolds
<1>6. /\ \A i \in Inside(st, s, n) : i \in st.sc[s] /\ st.iv[i].b < n /\ n < st.iv[i].e
      /\ \A i \in AtBegin(st, s, n) : i \in st.sc[s] /\ st.iv[i].b = n /\ n < st.iv[i].e
      /\ \A i \in AtEnd(st, s, n) : i \in st.sc[s] /\ st.iv[i].b < n /\ n = st.iv[i].e
      /\ \A i \in Single(st, s, n) : i \in st.sc[s] /\ st.iv[i].b = n /\ n = st.iv[i].e
      /\ \A i \in st.sc[s] : Holds(st, i, n) =>
           \/ i \in Inside(st, s, n) \/ i \in AtBegin(st, s, n)
           \/ i \in AtEnd(st, s, n) \/ i \in Single(st, s, n)
  BY <1>4 DEF Inside, AtBegin, AtEnd, Single, Holds
<1>7. /\ \A i, j \in Inside(st, s, n) : i = j
      /\ \A i, j \in Cut(st, s, n) : i = j
      /\ \A i, j \in new : i = j
  <2>1. \A i \in Cut(st, s, n) : i \in st.sc[s] /\ Holds(st, i, n)
    BY <1>4, <1>6 DEF Cut, Holds
  <2>2. \A i, j \in Cut(st, s, n) : i = j
    BY <2>1, <1>5
  <2>3. QED
    BY <2>2, <1>2 DEF Cut
<1>8. ASSUME NEW i \in Ids
      PROVE  c.iv[i] = IF i \in new THEN [b |-> n + 1, e |-> st.iv[whose(i)].e]
                       ELSE IF i \in AtBegin(st, s, n) THEN [b |-> n + 1, e |-> st.iv[i].e]
                       ELSE IF i \in AtEnd(st, s, n) \cup Inside(st, s, n)
                       THEN [b |-> st.iv[i].b, e |-> n - 1]
                       ELSE st.iv[i]
  BY <1>3
<1>9. /\ c.sc[s] = (st.sc[s] \ Single(st, s, n)) \cup new
      /\ \A t \in Scopes : t # s => c.sc[t] = st.sc[t]
  BY <1>3, <1>4 DEF IvState
<1> HIDE DEF new
<1>10. c \in IvState
  <2>1. Puts(Cut(st, s, n)) \in Seq(Write) /\ Puts(new) \in Seq(Write)
    BY <1>4, <1>6, <1>7, PutsType DEF Cut
  <2>2. c.todo \in Seq(Write)
    <3>1. st.todo \in Seq(Write)
      BY <1>4 DEF IvState
    <3>2. <<PutScope(s)>> \in Seq(Write)
      BY DEF Write, PutScope
    <3>3. QED
      BY <3>1, <3>2, <2>1, <1>3
  <2>3. \A i \in Ids : c.iv[i] \in Interval
    <3> SUFFICES ASSUME NEW i \in Ids PROVE c.iv[i] \in Interval
      OBVIOUS
    <3>1. i \in new => whose(i) \in Ids
      BY <1>2, <1>4, <1>6
    <3>2. st.iv[i] \in Interval
      BY <1>4 DEF IvState
    <3>3. n - 1 \in Nat /\ n + 1 \in Nat
      OBVIOUS
    <3>4. CASE i \in new
      <4>1. c.iv[i] = [b |-> n + 1, e |-> st.iv[whose(i)].e]
        BY <3>4, <1>8
      <4>2. st.iv[whose(i)].e \in Nat
        BY <3>1, <3>4, <1>4
      <4>3. QED
        BY <4>1, <4>2, <3>3
    <3>5. CASE i \notin new
      <4>1. \/ c.iv[i] = [b |-> n + 1, e |-> st.iv[i].e]
            \/ c.iv[i] = [b |-> st.iv[i].b, e |-> n - 1]
            \/ c.iv[i] = st.iv[i]
        BY <3>5, <1>8
      <4>2. st.iv[i].b \in Nat /\ st.iv[i].e \in Nat
        BY <1>4
      <4>3. QED
        BY <4>1, <4>2, <3>2, <3>3
    <3>6. QED
      BY <3>4, <3>5
  <2>4. c.iv \in [Ids -> Interval]
    BY <2>3, <1>3
  <2>5. c.sc \in [Scopes -> SUBSET Ids]
    BY <1>3, <1>4 DEF IvState
  <2>6. QED
    BY <2>2, <2>4, <2>5, <1>3 DEF IvState
\* What each interval of the new list of s is.
<1>11. ASSUME NEW i \in st.sc[s], ~Holds(st, i, n)
       PROVE  i \in c.sc[s] /\ c.iv[i] = st.iv[i]
  <2>1. i \in Ids /\ i \notin new /\ st.iv[i].b \in Nat /\ st.iv[i].e \in Nat
    BY <1>4
  <2>2. /\ i \notin AtBegin(st, s, n) /\ i \notin AtEnd(st, s, n)
        /\ i \notin Inside(st, s, n) /\ i \notin Single(st, s, n)
    BY <2>1, <1>6, <1>11 DEF Holds
  <2>3. c.iv[i] = st.iv[i]
    BY <2>1, <2>2, <1>8
  <2>4. QED
    BY <2>2, <2>3, <1>9
<1>12. ASSUME NEW h \in st.sc[s], Holds(st, h, n)
       PROVE  /\ \A i \in c.sc[s] : i # h /\ i \notin new =>
                    i \in st.sc[s] /\ ~Holds(st, i, n) /\ c.iv[i] = st.iv[i]
              /\ h \in c.sc[s] => \/ /\ h \in AtBegin(st, s, n) /\ c.iv[h].b = n + 1
                                      /\ c.iv[h].e = st.iv[h].e /\ new = {}
                                   \/ /\ h \in AtEnd(st, s, n) /\ c.iv[h].b = st.iv[h].b
                                      /\ c.iv[h].e = n - 1 /\ new = {}
                                   \/ /\ h \in Inside(st, s, n) /\ c.iv[h].b = st.iv[h].b
                                      /\ c.iv[h].e = n - 1
              /\ h \notin Single(st, s, n) => h \in c.sc[s]
              /\ \A i \in new : /\ h \in Inside(st, s, n)
                                 /\ c.iv[i].b = n + 1 /\ c.iv[i].e = st.iv[h].e
              /\ h \in Inside(st, s, n) => new # {}
  <2>1. \A i \in st.sc[s] : i # h => ~Holds(st, i, n)
    BY <1>12, <1>5
  <2>2. ASSUME NEW i \in c.sc[s], i # h, i \notin new
        PROVE  i \in st.sc[s] /\ ~Holds(st, i, n) /\ c.iv[i] = st.iv[i]
    BY <2>1, <2>2, <1>9, <1>11
  <2>3. h \notin new /\ h \in Ids
    BY <1>4
  <2>4. \A i \in Inside(st, s, n) : i = h
    BY <2>1, <1>4, <1>6 DEF Holds
  <2>5. ASSUME NEW i \in new
        PROVE  h \in Inside(st, s, n) /\ c.iv[i].b = n + 1 /\ c.iv[i].e = st.iv[h].e
    <3>1. whose(i) = h /\ h \in Inside(st, s, n)
      BY <2>4, <1>2
    <3>2. c.iv[i] = [b |-> n + 1, e |-> st.iv[h].e]
      BY <3>1, <1>4, <1>8
    <3>3. QED
      BY <3>1, <3>2
  <2>6. h \in Inside(st, s, n) => new # {}
    BY DEF new
  <2>7. h \notin Single(st, s, n) => h \in c.sc[s]
    BY <1>9
  <2>8. ASSUME h \in c.sc[s]
        PROVE  \/ /\ h \in AtBegin(st, s, n) /\ c.iv[h].b = n + 1
                  /\ c.iv[h].e = st.iv[h].e /\ new = {}
               \/ /\ h \in AtEnd(st, s, n) /\ c.iv[h].b = st.iv[h].b
                  /\ c.iv[h].e = n - 1 /\ new = {}
               \/ /\ h \in Inside(st, s, n) /\ c.iv[h].b = st.iv[h].b
                  /\ c.iv[h].e = n - 1
    <3>1. h \notin Single(st, s, n)
      BY <2>3, <2>8, <1>9
    <3>2. h \notin Inside(st, s, n) => new = {}
      BY <2>5
    <3>3. CASE h \in AtBegin(st, s, n)
      <4>1. h \notin Inside(st, s, n)
        BY <3>3, <2>3, <1>4, <1>6
      <4>2. c.iv[h] = [b |-> n + 1, e |-> st.iv[h].e]
        BY <3>3, <2>3, <1>8
      <4>3. QED
        BY <4>1, <4>2, <3>2, <3>3
    <3>4. CASE h \in AtEnd(st, s, n)
      <4>1. h \notin Inside(st, s, n) /\ h \notin AtBegin(st, s, n)
        BY <3>4, <2>3, <1>4, <1>6
      <4>2. c.iv[h] = [b |-> st.iv[h].b, e |-> n - 1]
        BY <4>1, <3>4, <2>3, <1>8
      <4>3. QED
        BY <4>1, <4>2, <3>2, <3>4
    <3>5. CASE h \in Inside(st, s, n)
      <4>1. h \notin AtBegin(st, s, n)
        BY <3>5, <2>3, <1>4, <1>6
      <4>2. c.iv[h] = [b |-> st.iv[h].b, e |-> n - 1]
        BY <4>1, <3>5, <2>3, <1>8
      <4>3. QED
        BY <4>2, <3>5
    <3>6. QED
      BY <3>1, <3>3, <3>4, <3>5, <1>6, <1>12
  <2>9. QED
    BY <2>2, <2>5, <2>6, <2>7, <2>8
<1>13. ASSUME ~Taken(st, s, n)
       PROVE  /\ c.sc[s] = st.sc[s]
              /\ \A i \in st.sc[s] : c.iv[i] = st.iv[i]
  <2>1. Inside(st, s, n) = {} /\ Single(st, s, n) = {}
    BY <1>13, <1>4, <1>6 DEF Taken, Holds
  <2>2. new = {}
    BY <2>1 DEF new
  <2>3. QED
    BY <2>1, <2>2, <1>9, <1>11, <1>13 DEF Taken
\* Other lists are left alone.
<1>14. ASSUME NEW t \in Scopes, t # s, NEW i \in st.sc[t]
       PROVE  c.iv[i] = st.iv[i]
  <2>1. i \in Ids /\ i \notin new /\ i \notin st.sc[s]
    BY <1>4, <1>14 DEF Sound, Owned
  <2>2. QED
    BY <2>1, <1>6, <1>8
<1>15. ASSUME NEW t \in Scopes, NEW i \in st.sc[t]
       PROVE  /\ i \in Ids /\ st.iv[i].b \in Nat /\ st.iv[i].e \in Nat
              /\ st.iv[i].b <= st.iv[i].e
  BY <1>4 DEF Sound, Full
<1>16. CASE ~Taken(st, s, n)
  <2>1. \A t \in Scopes : c.sc[t] = st.sc[t] /\ \A i \in st.sc[t] : c.iv[i] = st.iv[i]
    BY <1>9, <1>13, <1>14, <1>16
  <2>2. Full(c) /\ Gaps(c) /\ Owned(c)
    BY <2>1 DEF Sound, Full, Gaps, Owned
  <2>3. \A t \in Scopes, m \in Nat : Taken(c, t, m) <=> Taken(st, t, m)
    BY <2>1 DEF Taken, Holds
  <2>4. QED
    BY <2>2, <2>3, <1>10, <1>16 DEF Sound
<1>17. CASE Taken(st, s, n)
  <2>1. PICK h \in st.sc[s] : Holds(st, h, n)
    BY <1>17 DEF Taken
  <2>2. /\ h \in Ids /\ st.iv[h].b \in Nat /\ st.iv[h].e \in Nat
        /\ st.iv[h].b <= n /\ n <= st.iv[h].e
    BY <2>1, <1>15 DEF Holds
  \* h and new are parts of what h was, without n.
  <2>3. ASSUME NEW i \in c.sc[s], i = h \/ i \in new
        PROVE  /\ c.iv[i].b \in Nat /\ c.iv[i].e \in Nat
               /\ c.iv[i].b <= c.iv[i].e
               /\ st.iv[h].b <= c.iv[i].b /\ c.iv[i].e <= st.iv[h].e
               /\ n < c.iv[i].b \/ c.iv[i].e < n
    BY <2>1, <2>2, <2>3, <1>6, <1>12
  <2>4. ASSUME NEW i \in c.sc[s], i # h, i \notin new
        PROVE  /\ i \in st.sc[s] /\ c.iv[i] = st.iv[i]
               /\ c.iv[i].b \in Nat /\ c.iv[i].e \in Nat /\ c.iv[i].b <= c.iv[i].e
               /\ c.iv[i].e + 1 < st.iv[h].b \/ st.iv[h].e + 1 < c.iv[i].b
    <3>1. i \in st.sc[s] /\ c.iv[i] = st.iv[i]
      BY <2>1, <2>4, <1>12
    <3>2. QED
      BY <3>1, <2>4, <1>15 DEF Sound, Gaps
  <2>5. Full(c)
    <3> SUFFICES ASSUME NEW t \in Scopes, NEW i \in c.sc[t]
                 PROVE  c.iv[i].b <= c.iv[i].e
      BY DEF Full
    <3>1. CASE t # s
      BY <3>1, <1>9, <1>14, <1>15
    <3>2. CASE t = s
      BY <3>2, <2>3, <2>4
    <3>3. QED
      BY <3>1, <3>2
  <2>6. Gaps(c)
    <3> SUFFICES ASSUME NEW t \in Scopes, NEW i \in c.sc[t], NEW j \in c.sc[t], i # j
                 PROVE  \/ c.iv[i].e + 1 < c.iv[j].b
                        \/ c.iv[j].e + 1 < c.iv[i].b
      BY DEF Gaps
    <3>1. CASE t # s
      BY <3>1, <1>9, <1>14 DEF Sound, Gaps
    <3>2. CASE t = s
      <4>1. CASE i # h /\ i \notin new /\ j # h /\ j \notin new
        BY <4>1, <3>2, <2>4 DEF Sound, Gaps
      <4>2. CASE (i = h \/ i \in new) /\ j # h /\ j \notin new
        BY <4>2, <3>2, <2>2, <2>3, <2>4
      <4>3. CASE (j = h \/ j \in new) /\ i # h /\ i \notin new
        BY <4>3, <3>2, <2>2, <2>3, <2>4
      <4>4. CASE i = h /\ j \in new
        BY <4>4, <3>2, <2>1, <2>2, <1>6, <1>12
      <4>5. CASE j = h /\ i \in new
        BY <4>5, <3>2, <2>1, <2>2, <1>6, <1>12
      <4>6. QED
        BY <4>1, <4>2, <4>3, <4>4, <4>5, <1>7
    <3>3. QED
      BY <3>1, <3>2
  <2>7. Owned(c)
    BY <1>4, <1>9 DEF Sound, Owned
  <2>8. ASSUME NEW m \in Nat
        PROVE  Taken(c, s, m) <=> Taken(st, s, m) /\ m # n
    <3>1. ASSUME NEW i \in c.sc[s], Holds(c, i, m)
          PROVE  Taken(st, s, m) /\ m # n
      <4>1. CASE i = h \/ i \in new
        BY <4>1, <3>1, <2>2, <2>3 DEF Holds, Taken
      <4>2. CASE i # h /\ i \notin new
        BY <4>2, <3>1, <2>2, <2>4 DEF Holds, Taken
      <4>3. QED
        BY <4>1, <4>2
    <3>2. ASSUME NEW i \in st.sc[s], Holds(st, i, m), m # n
          PROVE  Taken(c, s, m)
      <4>1. CASE ~Holds(st, i, n)
        BY <4>1, <3>2, <1>11 DEF Taken, Holds
      <4>2. CASE i = h
        <5>1. h \notin Single(st, s, n)
          BY <4>2, <3>2, <2>2, <1>6 DEF Holds
        <5>2. h \in c.sc[s]
          BY <5>1, <2>1, <1>12
        <5>3. CASE h \in Inside(st, s, n) /\ n < m
          <6>1. PICK j \in new : TRUE
            BY <5>3, <2>1, <1>12
          <6>2. j \in c.sc[s] /\ Holds(c, j, m)
            BY <6>1, <5>3, <4>2, <3>2, <2>1, <2>2, <1>9, <1>12 DEF Holds
          <6>3. QED
            BY <6>2 DEF Taken
        <5>4. CASE ~(h \in Inside(st, s, n) /\ n < m)
          <6>1. Holds(c, h, m)
            BY <5>2, <5>4, <4>2, <3>2, <2>1, <2>2, <1>6, <1>12 DEF Holds
          <6>2. QED
            BY <6>1, <5>2 DEF Taken
        <5>5. QED
          BY <5>3, <5>4
      <4>3. QED
        BY <4>1, <4>2, <2>1, <1>5
    <3>3. QED
      BY <3>1, <3>2 DEF Taken
  <2>9. ASSUME NEW t \in Scopes, t # s, NEW m \in Nat
        PROVE  Taken(c, t, m) <=> Taken(st, t, m)
    BY <2>9, <1>9, <1>14 DEF Taken, Holds
  <2>10. QED
    BY <2>5, <2>6, <2>7, <2>8, <2>9, <1>10 DEF Sound
<1>18. QED
  BY <1>16, <1>17

-----------------------------------------------------------------------------
\* Some number is above all committed ones.
Bounded(st) == \E N \in Nat : \A s \in Scopes, m \in Nat : Taken(st, s, m) => m <= N

\* The next value of a scope is a number that is not committed in it.
LEMMA NextIsFree ==
  ASSUME NEW st, Sound(st), Bounded(st), NEW s \in Scopes
  PROVE  /\ getNextValueSimple(st, s) \in Nat \ {0}
         /\ ~Taken(st, s, getNextValueSimple(st, s))
<1> USE DEF Interval
<1>1. CASE st.sc[s] = {}
  BY <1>1, NumeratorAssumption DEF getNextValueSimple, Taken
<1>2. CASE st.sc[s] # {}
  <2>1. \A i \in st.sc[s] : /\ st.iv[i].b \in Nat /\ st.iv[i].e \in Nat
                            /\ st.iv[i].b <= st.iv[i].e
    BY DEF Sound, IvState, Full
  <2>2. Ends(st, s) # {} /\ Ends(st, s) \subseteq Nat
    BY <2>1, <1>2 DEF Ends
  <2>3. \A k \in Ends(st, s) : Taken(st, s, k)
    BY <2>1 DEF Ends, Taken, Holds
  <2> DEFINE T == {N \in Nat : \A k \in Ends(st, s) : k <= N}
  <2>4. T # {} /\ T \subseteq Nat
    BY <2>2, <2>3 DEF Bounded
  <2>5. PICK N \in T : \A y \in T : ~(<<y, N>> \in OpToRel(<, Nat))
    BY <2>4, NatLessThanWellFounded, WFMin
  <2>6. N \in Nat /\ \A y \in T : ~(y < N)
    BY <2>4, <2>5 DEF OpToRel
  <2>7. N \in Ends(st, s)
    <3> SUFFICES ASSUME N \notin Ends(st, s) PROVE FALSE
      OBVIOUS
    <3>1. PICK k \in Ends(st, s) : TRUE
      BY <2>2
    <3>2. \A j \in Ends(st, s) : j < N /\ j \in Nat
      BY <2>2, <2>6
    <3>3. N - 1 \in T
      BY <3>1, <3>2, <2>6
    <3>4. QED
      BY <3>3, <2>6
  <2>8. \A k \in Ends(st, s) : k <= N
    OBVIOUS
  <2> HIDE DEF T
  <2>9. \E m \in Ends(st, s) : \A k \in Ends(st, s) : k <= m
    BY <2>7, <2>8
  <2>10. PICK m \in Ends(st, s) : /\ \A k \in Ends(st, s) : k <= m
                                  /\ getNextValueSimple(st, s) = m + 1
    BY <2>9, <1>2 DEF getNextValueSimple
  <2>11. m \in Nat /\ m + 1 \in Nat \ {0}
    BY <2>2
  <2>12. ~Taken(st, s, m + 1)
    <3> SUFFICES ASSUME NEW i \in st.sc[s] PROVE ~(m + 1 <= st.iv[i].e)
      BY DEF Taken, Holds
    <3>1. st.iv[i].e \in Ends(st, s) /\ st.iv[i].e \in Nat
      BY <2>1 DEF Ends
    <3>2. QED
      BY <3>1, <2>10, <2>11
  <2>13. QED
    BY <2>10, <2>11, <2>12
<1>3. QED
  BY <1>1, <1>2

-----------------------------------------------------------------------------
\* The number n of s is committed, or revoked, and no other.
Commits(st, c, s, n) ==
  \A t \in Scopes, m \in Nat : Taken(c, t, m) <=> Taken(st, t, m) \/ (t = s /\ m = n)
Revokes(st, c, s, n) ==
  \A t \in Scopes, m \in Nat : Taken(c, t, m) <=> Taken(st, t, m) /\ ~(t = s /\ m = n)
\* The number n of s is committed, then the number k of r is revoked.
Changes(st, c, s, n, r, k) ==
  \A t \in Scopes, m \in Nat :
    Taken(c, t, m) <=> (Taken(st, t, m) \/ (t = s /\ m = n)) /\ ~(t = r /\ m = k)

\* What one run of numerate() does to the committed numbers.
Effect(st, c) ==
  \/ \A t \in Scopes, m \in Nat : Taken(c, t, m) <=> Taken(st, t, m)
  \/ \E s \in Scopes, n \in Nat : Commits(st, c, s, n)
  \/ \E s \in Scopes, n \in Nat : Revokes(st, c, s, n)
  \/ \E s \in Scopes, n \in Nat, r \in Scopes, k \in Nat : Changes(st, c, s, n, r, k)

\* A write of a document is added and nothing else.
LEMMA AddPutSound ==
  ASSUME NEW st, Sound(st), NEW d \in Docs, NEW v \in Document
  PROVE  /\ Sound(AddPut(st, d, v))
         /\ \A t \in Scopes, m \in Nat : Taken(AddPut(st, d, v), t, m) <=> Taken(st, t, m)
<1> DEFINE c == AddPut(st, d, v)
<1>1. /\ c.iv = st.iv /\ c.sc = st.sc /\ c.todo = Append(st.todo, PutDocument(d, v))
      /\ c = [iv |-> c.iv, sc |-> c.sc, todo |-> c.todo]
  <2>1. st \in IvState
    BY DEF Sound
  <2>2. PICK x : x = PutDocument(d, v)
    OBVIOUS
  <2>3. c = [st EXCEPT !.todo = Append(st.todo, x)]
    BY <2>1, <2>2 DEF AddPut, IvState
  <2> HIDE DEF c
  <2>4. QED
    BY <2>1, <2>2, <2>3 DEF IvState
<1> HIDE DEF c
<1>2. c.todo \in Seq(Write)
  <2>1. PutDocument(d, v) \in [kind: {"document"}, id: Docs, value: Document]
    BY DEF PutDocument
  <2>2. PutDocument(d, v) \in Write
    BY <2>1 DEF Write
  <2>3. QED
    BY <2>2, <1>1 DEF Sound, IvState
<1>3. c \in IvState
  BY <1>1, <1>2 DEF Sound, IvState
<1>4. Sound(c)
  BY <1>1, <1>3 DEF Sound, Full, Gaps, Owned
<1>5. \A t \in Scopes, m \in Nat : Taken(c, t, m) <=> Taken(st, t, m)
  BY <1>1 DEF Taken, Holds
<1>6. QED
  BY <1>4, <1>5 DEF c

\* numerate() keeps the lists sound and commits one number, revokes one, or
\* both, whatever the document and its previous state are.
LEMMA NumerateSound ==
  ASSUME NEW st, Sound(st), Bounded(st),
         NEW v \in Unused(st), NEW w \in Unused(st), v # w,
         NEW d \in Docs, NEW cur \in Document, NEW prev \in Document
  PROVE  /\ Sound(numerate(st, d, cur, prev))
         /\ Effect(st, numerate(st, d, cur, prev))
<1> DEFINE c == numerate(st, d, cur, prev)
<1>1. /\ cur.num \in Nat /\ prev.num \in Nat
      /\ cur.scope \in Scopes /\ prev.scope \in Scopes
  BY DEF Document
<1>2. CASE c = st
  BY <1>2 DEF Effect
<1>3. CASE cur.num = 0 /\ prev.num = 0 /\ c = GiveNumber(st, d, cur)
  <2> DEFINE n == getNextValueSimple(st, cur.scope)
             a == commitValue(st, cur.scope, n)
             x == [cur EXCEPT !.num = n]
  <2>1. n \in Nat /\ n # 0
    BY <1>1, NextIsFree
  <2>2. x \in Document
    BY <2>1 DEF Document
  <2>3. c = AddPut(a, d, x)
    BY <1>3 DEF GiveNumber
  <2> HIDE DEF n, x, c
  <2>4. /\ Sound(a)
        /\ \A t \in Scopes, m \in Nat :
             Taken(a, t, m) <=> Taken(st, t, m) \/ (t = cur.scope /\ m = n)
    BY <2>1, <1>1, CommitSound
  <2> HIDE DEF a
  <2>5. /\ Sound(c)
        /\ \A t \in Scopes, m \in Nat : Taken(c, t, m) <=> Taken(a, t, m)
    BY <2>2, <2>3, <2>4, AddPutSound
  <2>6. Effect(st, c)
    <3>1. Commits(st, c, cur.scope, n)
      BY <2>4, <2>5 DEF Commits
    <3>2. QED
      BY <3>1, <2>1, <1>1 DEF Effect
  <2>7. QED
    BY <2>5, <2>6 DEF c
<1>4. CASE c = Restore(st, d, cur, prev)
  <2> DEFINE x == [cur EXCEPT !.num = prev.num]
  <2>1. x \in Document
    BY <1>1 DEF Document
  <2>2. c = AddPut(st, d, x)
    BY <1>4 DEF Restore
  <2> HIDE DEF x, c
  <2>3. /\ Sound(c)
        /\ \A t \in Scopes, m \in Nat : Taken(c, t, m) <=> Taken(st, t, m)
    BY <2>1, <2>2, AddPutSound
  <2>4. QED
    BY <2>3 DEF c, Effect
<1>5. CASE cur.num # 0 /\ c = commitValue(st, cur.scope, cur.num)
  <2> HIDE DEF c
  <2>1. /\ Sound(c)
        /\ \A t \in Scopes, m \in Nat :
             Taken(c, t, m) <=> Taken(st, t, m) \/ (t = cur.scope /\ m = cur.num)
    BY <1>1, <1>5, CommitSound
  <2>2. Commits(st, c, cur.scope, cur.num)
    BY <2>1 DEF Commits
  <2>3. QED
    BY <2>1, <2>2, <1>1 DEF c, Effect
<1>6. CASE cur.num # 0 /\ c = revokeValue(st, cur.scope, cur.num)
  <2> HIDE DEF c
  <2>1. /\ Sound(c)
        /\ \A t \in Scopes, m \in Nat :
             Taken(c, t, m) <=> Taken(st, t, m) /\ ~(t = cur.scope /\ m = cur.num)
    BY <1>1, <1>6, RevokeSound
  <2>2. Revokes(st, c, cur.scope, cur.num)
    BY <2>1 DEF Revokes
  <2>3. QED
    BY <2>1, <2>2, <1>1 DEF c, Effect
<1>7. CASE /\ cur.num # 0 /\ prev.num # 0
           /\ c = revokeValue(commitValue(st, cur.scope, cur.num), prev.scope, prev.num)
  <2> DEFINE a == commitValue(st, cur.scope, cur.num)
  <2> HIDE DEF c
  <2>1. /\ Sound(a)
        /\ \A t \in Scopes, m \in Nat :
             Taken(a, t, m) <=> Taken(st, t, m) \/ (t = cur.scope /\ m = cur.num)
        /\ Unused(a) # {}
    BY <1>1, <1>7, CommitSound
  <2>2. c = revokeValue(a, prev.scope, prev.num)
    BY <1>7
  <2> HIDE DEF a
  <2>3. /\ Sound(c)
        /\ \A t \in Scopes, m \in Nat :
             Taken(c, t, m) <=> Taken(a, t, m) /\ ~(t = prev.scope /\ m = prev.num)
    <3>1. prev.num \in Nat /\ prev.num # 0 /\ prev.scope \in Scopes
      BY <1>1, <1>7
    <3>2. QED
      BY <3>1, <2>1, <2>2, RevokeSound
  <2>4. Effect(st, c)
    <3>1. Changes(st, c, cur.scope, cur.num, prev.scope, prev.num)
      BY <2>1, <2>3 DEF Changes
    <3>2. QED
      BY <3>1, <1>1 DEF Effect
  <2>5. QED
    BY <2>3, <2>4 DEF c
<1>8. QED
  BY <1>1, <1>2, <1>3, <1>4, <1>5, <1>6, <1>7 DEF numerate

\* An effect of one step keeps the committed numbers bounded.
LEMMA EffectBounded ==
  ASSUME NEW st, NEW c, Bounded(st), Effect(st, c)
  PROVE  Bounded(c)
<1>1. PICK N \in Nat : \A s \in Scopes, m \in Nat : Taken(st, s, m) => m <= N
  BY DEF Bounded
<1>2. CASE \A t \in Scopes, m \in Nat : Taken(c, t, m) => Taken(st, t, m)
  BY <1>1, <1>2 DEF Bounded
<1>3. CASE \E s \in Scopes, n \in Nat : \A t \in Scopes, m \in Nat :
             Taken(c, t, m) => Taken(st, t, m) \/ (t = s /\ m = n)
  <2>1. PICK n \in Nat : \A t \in Scopes, m \in Nat :
                           Taken(c, t, m) => Taken(st, t, m) \/ m = n
    BY <1>3
  <2>2. \A t \in Scopes, m \in Nat : Taken(c, t, m) => m <= N + n
    BY <2>1, <1>1
  <2>3. N + n \in Nat
    OBVIOUS
  <2>4. QED
    BY <2>2, <2>3 DEF Bounded
<1>4. QED
  <2>1. CASE \E s \in Scopes, n \in Nat : Revokes(st, c, s, n)
    BY <2>1, <1>2 DEF Revokes
  <2>2. CASE \E s \in Scopes, n \in Nat, r \in Scopes, k \in Nat : Changes(st, c, s, n, r, k)
    <3>1. PICK s \in Scopes, n \in Nat, r \in Scopes, k \in Nat : Changes(st, c, s, n, r, k)
      BY <2>2
    <3>2. \A t \in Scopes, m \in Nat : Taken(c, t, m) => Taken(st, t, m) \/ (t = s /\ m = n)
      BY <3>1 DEF Changes
    <3>3. QED
      BY <3>2, <1>3
  <2>3. CASE \E s \in Scopes, n \in Nat : Commits(st, c, s, n)
    <3>1. PICK s \in Scopes, n \in Nat : Commits(st, c, s, n)
      BY <2>3
    <3>2. \A t \in Scopes, m \in Nat : Taken(c, t, m) => Taken(st, t, m) \/ (t = s /\ m = n)
      BY <3>1 DEF Commits
    <3>3. QED
      BY <3>2, <1>3
  <2>4. CASE \A t \in Scopes, m \in Nat : Taken(c, t, m) <=> Taken(st, t, m)
    BY <2>4, <1>2
  <2>5. QED
    BY <2>1, <2>2, <2>3, <2>4 DEF Effect

-----------------------------------------------------------------------------
\* A list and the uris of no list are finite.
LEMMA FiniteLists ==
  ASSUME NEW st \in IvState, NEW s \in Scopes
  PROVE  IsFiniteSet(st.sc[s]) /\ IsFiniteSet(Unused(st))
<1>1. st.sc[s] \in SUBSET Ids /\ Unused(st) \in SUBSET Ids
  BY DEF IvState, Unused
<1>2. QED
  BY <1>1, FS_Subset, NumeratorAssumption

\* When there are uris enough there are two of them.
LEMMA EnoughTwo ==
  ASSUME NEW st \in IvState, NEW s \in Scopes, Enough(st)
  PROVE  \E v, w \in Unused(st) : v # w
<1> DEFINE U == Unused(st)
<1>1. IsFiniteSet(U) /\ IsFiniteSet(st.sc[s])
  BY FiniteLists
<1>2. Cardinality(st.sc[s]) + 2 <= Cardinality(U)
  BY DEF Enough
<1> HIDE DEF U
<1>3. /\ Cardinality(U) \in Nat /\ Cardinality(st.sc[s]) \in Nat
      /\ ExistsBijection(1 .. Cardinality(U), U)
  BY <1>1, FS_CardinalityType
<1>4. PICK f \in Bijection(1 .. Cardinality(U), U) : TRUE
  BY <1>3 DEF ExistsBijection
<1>5. 1 \in 1 .. Cardinality(U) /\ 2 \in 1 .. Cardinality(U)
  BY <1>2, <1>3
<1>6. f[1] \in U /\ f[2] \in U /\ f[1] # f[2]
  BY <1>4, <1>5 DEF Bijection, Injection, IsInjective
<1>7. QED
  BY <1>6 DEF U

(* The inductive invariant.  Until a crash the lists are sound, which every*)
(* step of commitValue() and revokeValue() needs, and bounded, without     *)
(* which there is no next value.                                           *)
NInv == whole \in BOOLEAN /\ (whole => TypeOK /\ Sound(Now) /\ Bounded(Now))

\* What a run of the script does, as a step of the specification.
LEMMA NumerateStep ==
  ASSUME NInv, whole, Numerate
  PROVE  /\ TypeOK' /\ Sound(Now)' /\ Bounded(Now)'
         /\ Effect(Now, Now')
         /\ Sound(Now) /\ UNCHANGED whole
<1> DEFINE r == Head(queue)
           c == numerate(Now, r.doc, docs[r.doc], r.prev)
<1>1. TypeOK /\ Sound(Now) /\ Bounded(Now)
  BY DEF NInv
<1>2. queue # <<>> /\ queue \in Seq([doc: Docs, prev: Document])
  BY <1>1 DEF Numerate, TypeOK
<1>3. r.doc \in Docs /\ r.prev \in Document
  <2>1. \A R : \A x \in Seq(R) : x # <<>> => Head(x) \in R
    OBVIOUS
  <2>2. r \in [doc: Docs, prev: Document]
    BY <2>1, <1>2
  <2>3. QED
    BY <2>2
<1>4. docs[r.doc] \in Document
  BY <1>1, <1>3 DEF TypeOK
<1>5. PICK v \in Unused(Now), w \in Unused(Now) : v # w
  <2>1. Now \in IvState /\ r.prev.scope \in Scopes /\ Enough(Now)
    BY <1>1, <1>3 DEF Sound, Document, Numerate
  <2>2. QED
    BY <2>1, EnoughTwo
<1>6. Sound(c) /\ Effect(Now, c)
  BY <1>1, <1>3, <1>4, <1>5, NumerateSound
<1>7. /\ t_interval' = c.iv /\ t_scope' = c.sc /\ todo' = c.todo
      /\ running' = TRUE
      /\ UNCHANGED <<setting, docs, queue, interval, scope, saves, crashes, whole>>
  BY DEF Numerate
<1> HIDE DEF r, c
<1>8. Now' = [iv |-> c.iv, sc |-> c.sc, todo |-> <<>>]
  BY <1>7 DEF Now
<1> DEFINE q == Now'
<1>9. q.iv = c.iv /\ q.sc = c.sc /\ q = [iv |-> q.iv, sc |-> q.sc, todo |-> <<>>]
  BY <1>8
<1> HIDE DEF q
<1>10. \A t \in Scopes, m \in Nat : Taken(q, t, m) <=> Taken(c, t, m)
  BY <1>9 DEF Taken, Holds
<1>11. c.iv \in [Ids -> Interval] /\ c.sc \in [Scopes -> SUBSET Ids] /\ c.todo \in Seq(Write)
  BY <1>6 DEF Sound, IvState
<1>12. q \in IvState
  <2>1. PICK f, g, e : f = c.iv /\ g = c.sc /\ e = <<>>
    OBVIOUS
  <2>2. e \in Seq(Write)
    BY <2>1
  <2>3. q = [iv |-> f, sc |-> g, todo |-> e]
    BY <2>1, <1>8 DEF q
  <2>4. f \in [Ids -> Interval] /\ g \in [Scopes -> SUBSET Ids]
    BY <2>1, <1>11
  <2>5. QED
    BY <2>2, <2>3, <2>4 DEF IvState
<1>13. Sound(q)
  BY <1>6, <1>9, <1>12 DEF Sound, Full, Gaps, Owned
<1>14. Effect(Now, q)
  <2>1. \A s \in Scopes, n \in Nat, t \in Scopes, k \in Nat :
          Changes(Now, c, s, n, t, k) => Changes(Now, q, s, n, t, k)
    BY <1>10 DEF Changes
  <2>2. \A s \in Scopes, n \in Nat :
          /\ Commits(Now, c, s, n) => Commits(Now, q, s, n)
          /\ Revokes(Now, c, s, n) => Revokes(Now, q, s, n)
    BY <1>10 DEF Commits, Revokes
  <2>3. CASE \A t \in Scopes, m \in Nat : Taken(c, t, m) <=> Taken(Now, t, m)
    BY <2>3, <1>10 DEF Effect
  <2>4. CASE \E s \in Scopes, n \in Nat : Commits(Now, c, s, n)
    <3>1. PICK s \in Scopes, n \in Nat : Commits(Now, c, s, n)
      BY <2>4
    <3>2. Commits(Now, q, s, n)
      BY <3>1, <2>2
    <3>3. QED
      BY <3>2 DEF Effect
  <2>5. CASE \E s \in Scopes, n \in Nat : Revokes(Now, c, s, n)
    <3>1. PICK s \in Scopes, n \in Nat : Revokes(Now, c, s, n)
      BY <2>5
    <3>2. Revokes(Now, q, s, n)
      BY <3>1, <2>2
    <3>3. QED
      BY <3>2 DEF Effect
  <2>6. CASE \E s \in Scopes, n \in Nat, t \in Scopes, k \in Nat :
               Changes(Now, c, s, n, t, k)
    <3>1. PICK s \in Scopes, n \in Nat, t \in Scopes, k \in Nat :
                 Changes(Now, c, s, n, t, k)
      BY <2>6
    <3>2. Changes(Now, q, s, n, t, k)
      BY <3>1, <2>1
    <3>3. QED
      BY <3>2 DEF Effect
  <2>7. QED
    BY <2>3, <2>4, <2>5, <2>6, <1>6 DEF Effect
<1>15. Bounded(q)
  BY <1>1, <1>14, EffectBounded
<1>16. TypeOK'
  BY <1>1, <1>2, <1>7, <1>11 DEF TypeOK
<1>17. QED
  BY <1>1, <1>7, <1>13, <1>14, <1>15, <1>16 DEF q

\* Initially every list is empty.
LEMMA InitInv == Init => NInv
<1> SUFFICES ASSUME Init PROVE TypeOK /\ Sound(Now) /\ Bounded(Now)
  BY DEF NInv, Init
<1>1. [b |-> 0, e |-> 0] \in Interval
  BY DEF Interval
<1>2. \A s \in Scopes : NoDocument(s) \in Document
  BY DEF NoDocument, Document
<1>3. /\ t_interval \in [Ids -> Interval] /\ interval \in [Ids -> Interval]
      /\ t_scope = [s \in Scopes |-> {}] /\ scope = [s \in Scopes |-> {}]
  BY <1>1 DEF Init
<1>4. TypeOK
  <2>1. docs \in [Docs -> Document]
    BY <1>2 DEF Init
  <2>2. scope \in [Scopes -> SUBSET Ids] /\ t_scope \in [Scopes -> SUBSET Ids]
    BY <1>3
  <2>3. /\ queue \in Seq([doc: Docs, prev: Document]) /\ todo \in Seq(Write)
        /\ running = FALSE /\ whole = TRUE /\ crashes \in Nat /\ setting \in Settings
    BY DEF Init
  <2>4. saves \in 0 .. MaxSave
    BY NumeratorAssumption DEF Init
  <2>5. QED
    BY <2>1, <2>2, <2>3, <2>4, <1>3 DEF TypeOK
<1>5. /\ Now.iv = t_interval /\ Now.sc = t_scope
      /\ Now \in IvState
  BY <1>3 DEF Now, IvState
<1>6. \A s \in Scopes : Now.sc[s] = {}
  BY <1>3, <1>5
<1>7. Sound(Now)
  BY <1>5, <1>6 DEF Sound, Full, Gaps, Owned
<1>8. Bounded(Now)
  BY <1>6 DEF Bounded, Taken
<1>9. QED
  BY <1>4, <1>7, <1>8

\* The steps that leave the view of the script alone.
Quiet == UNCHANGED <<t_interval, t_scope, whole>>

\* A step that is none of the script leaves the scopes alone.
LEMMA QuietStep ==
  ASSUME NInv, whole, Quiet
  PROVE  Sound(Now)' /\ Bounded(Now)' /\ Now' = Now
<1>1. Now' = Now
  BY DEF Quiet, Now
<1>2. Sound(Now) /\ Bounded(Now)
  BY DEF NInv
<1>3. QED
  BY <1>1, <1>2

\* A user's save.
LEMMA SaveStep ==
  ASSUME TypeOK, NEW d \in Docs, NEW del \in BOOLEAN, NEW s \in setting.scopes,
         NEW n \in setting.typed \cup {0, docs[d].num},
         Save(d, [there |-> TRUE, num |-> n, deleted |-> del, scope |-> s])
  PROVE  TypeOK' /\ Quiet
<1> DEFINE v == [there |-> TRUE, num |-> n, deleted |-> del, scope |-> s]
<1>1. TypeOK
  OBVIOUS
<1>2. /\ setting.typed \subseteq Nat /\ setting.scopes \subseteq Scopes
      /\ setting.saves \in 0 .. MaxSave /\ docs[d] \in Document /\ docs[d].num \in Nat
      /\ MaxSave \in Nat
  BY <1>1, NumeratorAssumption DEF TypeOK, Document
<1>3. v \in Document
  BY <1>2 DEF Document
<1>4. /\ docs' = [docs EXCEPT ![d] = v]
      /\ queue' = Append(queue, [doc |-> d, prev |-> docs[d]])
      /\ saves' = saves + 1 /\ saves < setting.saves
      /\ UNCHANGED <<setting, numeration, running, crashes, whole>>
  BY DEF Save
<1> HIDE DEF v
<1>5. docs' \in [Docs -> Document]
  BY <1>1, <1>3, <1>4 DEF TypeOK
<1>6. [doc |-> d, prev |-> docs[d]] \in [doc: Docs, prev: Document]
  BY <1>2
<1>7. queue' \in Seq([doc: Docs, prev: Document]) /\ queue' # <<>>
  BY <1>1, <1>4, <1>6 DEF TypeOK
<1>8. saves' \in 0 .. MaxSave
  BY <1>1, <1>2, <1>4 DEF TypeOK
<1>9. QED
  BY <1>1, <1>4, <1>5, <1>7, <1>8 DEF TypeOK, Quiet, numeration

\* One item of the transaction reaches the database.
LEMMA CommitItemStep ==
  ASSUME TypeOK, CommitItem
  PROVE  TypeOK' /\ Quiet
<1> DEFINE w == Head(todo)
<1>1. TypeOK
  OBVIOUS
<1>2. w \in Write /\ Tail(todo) \in Seq(Write)
  BY <1>1 DEF TypeOK, CommitItem
<1>3. /\ w.kind = "interval" => w.id \in Ids
      /\ w.kind = "scope" => w.id \in Scopes
      /\ w.kind = "document" => w.id \in Docs /\ w.value \in Document
  BY <1>2 DEF Write
<1>4. /\ interval' = IF w.kind = "interval"
                     THEN [interval EXCEPT ![w.id] = t_interval[w.id]] ELSE interval
      /\ scope' = IF w.kind = "scope"
                  THEN [scope EXCEPT ![w.id] = t_scope[w.id]] ELSE scope
      /\ docs' = IF w.kind = "document" THEN [docs EXCEPT ![w.id] = w.value] ELSE docs
      /\ todo' = Tail(todo)
      /\ UNCHANGED <<setting, queue, t_interval, t_scope, running, saves, crashes, whole>>
  BY DEF CommitItem
<1> HIDE DEF w
<1>5. interval' \in [Ids -> Interval]
  BY <1>1, <1>3, <1>4 DEF TypeOK
<1>6. scope' \in [Scopes -> SUBSET Ids]
  BY <1>1, <1>3, <1>4 DEF TypeOK
<1>7. docs' \in [Docs -> Document]
  BY <1>1, <1>3, <1>4 DEF TypeOK
<1>8. QED
  BY <1>1, <1>2, <1>4, <1>5, <1>6, <1>7 DEF TypeOK, Quiet

\* The record is taken from the queue.
LEMMA FinishStep ==
  ASSUME TypeOK, Finish
  PROVE  TypeOK' /\ Quiet
<1>1. TypeOK
  OBVIOUS
<1>2. Tail(queue) \in Seq([doc: Docs, prev: Document])
  BY <1>1 DEF TypeOK, Finish
<1>3. QED
  BY <1>1, <1>2 DEF TypeOK, Finish, Quiet, numeration

\* Every step before a crash.
LEMMA AnyStep ==
  ASSUME NInv, whole, whole', [Next]_vars
  PROVE  /\ TypeOK' /\ Sound(Now)' /\ Bounded(Now)'
         /\ Quiet \/ Numerate
<1>1. CASE Numerate
  BY <1>1, NumerateStep
<1>2. CASE UNCHANGED vars
  <2>1. Quiet
    BY <1>2 DEF vars, numeration, Quiet
  <2>2. TypeOK'
    BY <1>2 DEF NInv, TypeOK, vars, numeration
  <2>3. QED
    BY <2>1, <2>2, QuietStep
<1>3. CASE \E d \in Docs, del \in BOOLEAN, s \in setting.scopes :
             \E n \in setting.typed \cup {0, docs[d].num} :
               Save(d, [there |-> TRUE, num |-> n, deleted |-> del, scope |-> s])
  BY <1>3, SaveStep, QuietStep DEF NInv
<1>4. CASE CommitItem
  BY <1>4, CommitItemStep, QuietStep DEF NInv
<1>5. CASE Finish
  BY <1>5, FinishStep, QuietStep DEF NInv
<1>6. CASE Crash
  BY <1>6 DEF Crash
<1>7. QED
  BY <1>1, <1>2, <1>3, <1>4, <1>5, <1>6 DEF Next

\* Nothing restores whole.
LEMMA WholeStep == [Next]_vars => whole' = whole \/ whole' = FALSE
  BY SMTT(30), ZenonT(30) DEF Next, vars, Save, Numerate, CommitItem, Finish, Crash

\* The invariant holds in every state.
LEMMA Invariant == Spec => []NInv
<1>1. NInv /\ [Next]_vars => NInv'
  <2> SUFFICES ASSUME NInv, [Next]_vars PROVE NInv'
    OBVIOUS
  <2>1. whole' \in BOOLEAN /\ (whole' => whole)
    <3>1. CASE whole' = whole
      BY <3>1 DEF NInv
    <3>2. CASE whole' = FALSE
      BY <3>2
    <3>3. QED
      BY <3>1, <3>2, WholeStep
  <2>2. CASE ~whole'
    BY <2>1, <2>2 DEF NInv
  <2>3. CASE whole'
    BY <2>1, <2>3, AnyStep DEF NInv
  <2>4. QED
    BY <2>2, <2>3
<1>2. QED
  BY <1>1, InitInv, PTL DEF Spec

\* commitValue() and revokeValue() keep the intervals of a scope apart, for
\* every number of documents, scopes and saves.
THEOREM ApartTheorem == Spec => []Apart
<1>1. NInv => Apart
  <2>1. Now.iv = t_interval /\ Now.sc = t_scope
    BY DEF Now
  <2>2. QED
    BY <2>1 DEF NInv, Sound, Gaps, Apart
<1>2. QED
  BY <1>1, Invariant, PTL

-----------------------------------------------------------------------------
(* The refinement.                                                         *)

\* A run of numerate() is a step of the promise.
LEMMA EffectPromised ==
  ASSUME Sound(Now), Sound(Now'), Effect(Now, Now')
  PROVE  Promise!Promised \/ committed' = committed
<1>1. Now \in IvState /\ Now' \in IvState
  BY DEF Sound
<1>2. /\ committed = [s \in Scopes |-> Covered(Now, s)]
      /\ committed' = [s \in Scopes |-> Covered(Now', s)]
  BY DEF committed
<1>3. \A s \in Scopes : /\ committed[s] \subseteq Nat /\ committed'[s] \subseteq Nat
                        /\ \A n \in Nat : n \in committed[s] <=> Taken(Now, s, n)
                        /\ \A n \in Nat : n \in committed'[s] <=> Taken(Now', s, n)
  BY <1>1, <1>2, CoveredIsTaken
<1>4. DOMAIN committed = Scopes /\ DOMAIN committed' = Scopes
  BY <1>2
<1>5. /\ committed = [s \in Scopes |-> committed[s]]
      /\ committed' = [s \in Scopes |-> committed'[s]]
  BY <1>2
<1> DEFINE a == committed
           b == committed'
           x == Now
           y == Now'
<1>6. /\ a = [s \in Scopes |-> a[s]] /\ b = [s \in Scopes |-> b[s]]
      /\ \A s \in Scopes : /\ a[s] \subseteq Nat /\ b[s] \subseteq Nat
                           /\ \A n \in Nat : n \in a[s] <=> Taken(x, s, n)
                           /\ \A n \in Nat : n \in b[s] <=> Taken(y, s, n)
  BY <1>3, <1>5
<1> HIDE DEF a, b, x, y
<1>7. CASE \A t \in Scopes, m \in Nat : Taken(y, t, m) <=> Taken(x, t, m)
  <2>1. \A s \in Scopes : b[s] = a[s]
    BY <1>6, <1>7
  <2>2. b = a
    BY <2>1, <1>6
  <2>3. QED
    BY <2>2 DEF a, b
<1>8. ASSUME NEW s \in Scopes, NEW n \in Nat, Commits(x, y, s, n)
      PROVE  n \in b[s] /\ b = [a EXCEPT ![s] = @ \cup {n}]
  <2>1. n \in b[s] /\ b[s] = a[s] \cup {n} /\ \A t \in Scopes : t # s => b[t] = a[t]
    BY <1>6, <1>8 DEF Commits
  <2>2. QED
    BY <2>1, <1>6
<1>9. ASSUME NEW s \in Scopes, NEW n \in Nat, Revokes(x, y, s, n)
      PROVE  b = [a EXCEPT ![s] = @ \ {n}]
  <2>1. b[s] = a[s] \ {n} /\ \A t \in Scopes : t # s => b[t] = a[t]
    BY <1>6, <1>9 DEF Revokes
  <2>2. QED
    BY <2>1, <1>6
<1>10. ASSUME NEW s \in Scopes, NEW n \in Nat, NEW r \in Scopes, NEW k \in Nat,
              Changes(x, y, s, n, r, k), k \in a[r], <<s, n>> # <<r, k>>
       PROVE  n \in b[s] /\ b = [[a EXCEPT ![s] = @ \cup {n}] EXCEPT ![r] = @ \ {k}]
  <2>1. n \in b[s]
    BY <1>6, <1>10 DEF Changes
  <2>2. \A t \in Scopes :
          /\ t = r => b[t] = (IF t = s THEN a[t] \cup {n} ELSE a[t]) \ {k}
          /\ t # r => b[t] = IF t = s THEN a[t] \cup {n} ELSE a[t]
    BY <1>6, <1>10 DEF Changes
  <2> DEFINE g == [a EXCEPT ![s] = @ \cup {n}]
             h == [g EXCEPT ![r] = @ \ {k}]
  <2>3. /\ DOMAIN g = Scopes
        /\ \A t \in Scopes : g[t] = IF t = s THEN a[t] \cup {n} ELSE a[t]
    BY <1>6
  <2> HIDE DEF g
  <2>4. /\ h = [t \in Scopes |-> h[t]]
        /\ \A t \in Scopes : h[t] = IF t = r THEN g[t] \ {k} ELSE g[t]
    BY <2>3
  <2> HIDE DEF h
  <2>5. \A t \in Scopes : b[t] = h[t]
    BY <2>2, <2>3, <2>4
  <2>6. b = h
    BY <2>4, <2>5, <1>6
  <2>7. QED
    BY <2>1, <2>6 DEF g, h
<1>11. CASE \E s \in Scopes, n \in Nat : Commits(x, y, s, n)
  <2>1. PICK s \in Scopes, n \in Nat : Commits(x, y, s, n)
    BY <1>11
  <2>2. n \in committed'[s] /\ Promise!Commit(s, n)
    BY <2>1, <1>8 DEF a, b, Promise!Commit
  <2>3. QED
    BY <2>2 DEF Promise!Promised
<1>12. ASSUME NEW s \in Scopes, NEW n \in Nat, Revokes(x, y, s, n)
       PROVE  Promise!Promised \/ committed' = committed
  <2>1. b = [a EXCEPT ![s] = @ \ {n}]
    BY <1>9, <1>12
  <2>2. CASE n \in a[s]
    BY <2>1, <2>2 DEF a, b, Promise!Revoke, Promise!Promised
  <2>3. CASE n \notin a[s]
    <3>1. a[s] \ {n} = a[s]
      BY <2>3
    <3>2. b = a
      BY <3>1, <2>1, <1>6
    <3>3. QED
      BY <3>2 DEF a, b
  <2>4. QED
    BY <2>2, <2>3
<1>13. ASSUME NEW s \in Scopes, NEW n \in Nat, NEW r \in Scopes, NEW k \in Nat,
              Changes(x, y, s, n, r, k)
       PROVE  Promise!Promised \/ committed' = committed
  <2>1. CASE <<s, n>> = <<r, k>>
    <3>1. Revokes(x, y, s, n)
      BY <2>1, <1>13 DEF Changes, Revokes
    <3>2. QED
      BY <3>1, <1>12
  <2>2. CASE <<s, n>> # <<r, k>> /\ k \in a[r]
    <3>1. n \in b[s] /\ b = [[a EXCEPT ![s] = @ \cup {n}] EXCEPT ![r] = @ \ {k}]
      BY <2>2, <1>10, <1>13
    <3>2. n \in committed'[s] /\ k \in committed[r] /\ Promise!Change(s, n, r, k)
      BY <3>1, <2>2 DEF a, b, Promise!Change
    <3>3. QED
      BY <3>2 DEF Promise!Promised
  <2>3. CASE <<s, n>> # <<r, k>> /\ k \notin a[r]
    <3>1. Commits(x, y, s, n)
      BY <2>3, <1>6, <1>13 DEF Changes, Commits
    <3>2. QED
      BY <3>1, <1>11
  <2>4. QED
    BY <2>1, <2>2, <2>3
<1>14. Effect(x, y)
  BY DEF x, y
<1>15. QED
  BY <1>7, <1>11, <1>12, <1>13, <1>14 DEF Effect

\* Until a crash the interval lists of every scope are the set of numbers the
\* header of numerator.js speaks of: each run of numerate() commits one number,
\* revokes one or does both, and takes or frees no other.
THEOREM PromiseTheorem == Spec => ScopeIsSet
<1>1. Init => Promise!Init
  <2> SUFFICES ASSUME Init PROVE committed = [s \in Scopes |-> {}] /\ whole = TRUE
    BY DEF Promise!Init
  <2>1. Now.sc = [s \in Scopes |-> {}]
    BY DEF Init, Now
  <2>2. \A s \in Scopes : Covered(Now, s) = {}
    BY <2>1 DEF Covered
  <2>3. QED
    BY <2>2 DEF Init, committed
<1>2. NInv /\ [Next]_vars => [Promise!Next]_<<committed, whole>>
  <2> SUFFICES ASSUME NInv, [Next]_vars
               PROVE  [Promise!Next]_<<committed, whole>>
    OBVIOUS
  <2>1. CASE whole' = FALSE
    BY <2>1 DEF Promise!Next
  <2>2. whole \in BOOLEAN
    BY DEF NInv
  <2>3. CASE whole /\ whole'
    <3>1. CASE Numerate
      <4>1. Sound(Now) /\ Sound(Now') /\ Effect(Now, Now') /\ UNCHANGED whole
        BY <3>1, <2>3, NumerateStep
      <4>2. QED
        BY <4>1, EffectPromised DEF Promise!Next
    <3>2. CASE Quiet
      <4>1. committed' = committed /\ whole' = whole
        BY <3>2, <2>3, QuietStep DEF committed, Quiet
      <4>2. QED
        BY <4>1
    <3>3. QED
      BY <3>1, <3>2, <2>3, AnyStep
  <2>4. QED
    BY <2>1, <2>2, <2>3, WholeStep
<1>3. QED
  BY <1>1, <1>2, Invariant, PTL DEF Spec, ScopeIsSet, Promise!Spec
-----------------------------------------------------------------------------
(* The writes of a transaction.  After a crash intervals may overlap: what *)
(* follows needs no sound lists.                                           *)

\* The elements of two sequences in a row, and of a sequence without its head.
LEMMA RangeConcat ==
  ASSUME NEW R, NEW a \in Seq(R), NEW b \in Seq(R)
  PROVE  Range(a \o b) = Range(a) \cup Range(b)
<1> DEFINE s == a \o b
<1>1. /\ s \in Seq(R) /\ Len(s) = Len(a) + Len(b) /\ Len(a) \in Nat /\ Len(b) \in Nat
      /\ \A k \in 1 .. Len(s) : s[k] = IF k <= Len(a) THEN a[k] ELSE b[k - Len(a)]
  OBVIOUS
<1>2. DOMAIN s = 1 .. Len(s) /\ DOMAIN a = 1 .. Len(a) /\ DOMAIN b = 1 .. Len(b)
  BY <1>1
<1> HIDE DEF s
<1>3. \A k \in DOMAIN a : k \in DOMAIN s /\ s[k] = a[k]
  BY <1>1, <1>2
<1>4. \A k \in DOMAIN b : Len(a) + k \in DOMAIN s /\ s[Len(a) + k] = b[k]
  BY <1>1, <1>2
<1>5. \A k \in DOMAIN s : \/ k \in DOMAIN a /\ s[k] = a[k]
                          \/ k - Len(a) \in DOMAIN b /\ s[k] = b[k - Len(a)]
  BY <1>1, <1>2
<1>6. Range(s) = Range(a) \cup Range(b)
  <2>1. Range(a) \subseteq Range(s)
    BY <1>3 DEF Range
  <2>2. Range(b) \subseteq Range(s)
    BY <1>4 DEF Range
  <2>3. Range(s) \subseteq Range(a) \cup Range(b)
    BY <1>5 DEF Range
  <2>4. QED
    BY <2>1, <2>2, <2>3
<1>7. QED
  BY <1>6 DEF s

LEMMA RangeTail ==
  ASSUME NEW R, NEW a \in Seq(R), a # <<>>
  PROVE  /\ Head(a) \in R /\ Tail(a) \in Seq(R)
         /\ Range(a) = {Head(a)} \cup Range(Tail(a))
<1>1. /\ a = <<Head(a)>> \o Tail(a) /\ Tail(a) \in Seq(R) /\ Head(a) \in R
      /\ <<Head(a)>> \in Seq(R)
  OBVIOUS
<1>2. PICK x : x = <<Head(a)>>
  OBVIOUS
<1>3. Range(x) = {Head(a)}
  BY <1>2 DEF Range
<1>4. PICK t : t = Tail(a)
  OBVIOUS
<1>5. x \in Seq(R) /\ t \in Seq(R) /\ a = x \o t
  BY <1>1, <1>2, <1>4
<1>6. Range(a) = Range(x) \cup Range(t)
  BY <1>5, RangeConcat
<1>7. QED
  BY <1>1, <1>3, <1>4, <1>6

\* The uris of c are those of st but for one, which is new.
UsesOne(st, c) ==
  \E u \in Unused(st) : /\ \A t \in Scopes : c.sc[t] \subseteq st.sc[t] \cup {u}
                        /\ Unused(st) \ {u} \subseteq Unused(c)

\* Every interval of a list that is not as it was is put, and so is every list.
Wrote(st, c) ==
  /\ c \in IvState
  /\ Range(st.todo) \subseteq Range(c.todo)
  /\ \A w \in Range(c.todo) \ Range(st.todo) : w.kind # "document"
  /\ \A t \in Scopes : c.sc[t] = st.sc[t] \/ PutScope(t) \in Range(c.todo)
  /\ \A t \in Scopes : \A i \in c.sc[t] :
       (i \in st.sc[t] /\ c.iv[i] = st.iv[i]) \/ PutInterval(i) \in Range(c.todo)

\* No end of an interval is new but n or less.
EndsBy(st, c, n) == \A i \in Ids : c.iv[i].e <= n \/ \E j \in Ids : c.iv[i].e = st.iv[j].e

\* The parts of commitValue().
LEMMA JoinBothWrote ==
  ASSUME NEW st \in IvState, NEW s \in Scopes, NEW n \in Nat,
         NEW p \in st.sc[s], NEW q \in st.sc[s], Unused(st) # {},
         NEW c, c = JoinBoth(st, s, p, q)
  PROVE  Wrote(st, c) /\ UsesOne(st, c) /\ EndsBy(st, c, n)
<1>1. PICK x : x = [b |-> st.iv[p].b, e |-> st.iv[q].e]
  OBVIOUS
<1>2. p \in Ids /\ q \in Ids /\ x \in Interval /\ x.e = st.iv[q].e
  BY <1>1 DEF IvState, Interval
<1>3. /\ c.iv = [st.iv EXCEPT ![p] = x]
      /\ c.sc = [st.sc EXCEPT ![s] = st.sc[s] \ {q}]
      /\ c.todo = st.todo \o <<PutInterval(p), PutScope(s)>>
      /\ c = [iv |-> c.iv, sc |-> c.sc, todo |-> c.todo]
  BY <1>1, <1>2 DEF JoinBoth, IvState
<1>4. PICK y : y = <<PutInterval(p), PutScope(s)>>
  OBVIOUS
<1>5. /\ y \in Seq(Write) /\ Range(y) = {PutInterval(p), PutScope(s)}
      /\ PutInterval(p).kind # "document" /\ PutScope(s).kind # "document"
  <2>1. PutInterval(p) \in Write /\ PutScope(s) \in Write
    BY <1>2 DEF Write, PutInterval, PutScope
  <2>2. y \in Seq(Write)
    BY <2>1, <1>4
  <2>3. Range(y) = {PutInterval(p), PutScope(s)}
    BY <1>4 DEF Range
  <2>4. QED
    BY <2>2, <2>3 DEF PutInterval, PutScope
<1>6. /\ c.todo = st.todo \o y /\ st.todo \in Seq(Write) /\ c.todo \in Seq(Write)
      /\ Range(c.todo) = Range(st.todo) \cup Range(y)
  <2>1. c.todo = st.todo \o y /\ st.todo \in Seq(Write) /\ y \in Seq(Write)
    BY <1>3, <1>4, <1>5 DEF IvState
  <2>2. Range(st.todo \o y) = Range(st.todo) \cup Range(y)
    BY <2>1, RangeConcat
  <2>3. st.todo \o y \in Seq(Write)
    BY <2>1
  <2>4. QED
    BY <2>1, <2>2, <2>3
<1>7. c.iv \in [Ids -> Interval] /\ c.sc \in [Scopes -> SUBSET Ids]
  BY <1>2, <1>3 DEF IvState
<1>8. c \in IvState
  BY <1>3, <1>6, <1>7 DEF IvState
<1>9. /\ \A i \in Ids : i # p => c.iv[i] = st.iv[i]
      /\ c.iv[p] = x
      /\ c.sc[s] = st.sc[s] \ {q}
      /\ \A t \in Scopes : t # s => c.sc[t] = st.sc[t]
      /\ \A t \in Scopes : c.sc[t] \subseteq Ids
  BY <1>2, <1>3, <1>7 DEF IvState
<1>10. Wrote(st, c)
  BY <1>5, <1>6, <1>8, <1>9 DEF Wrote
<1>11. UsesOne(st, c)
  <2>1. \A t \in Scopes : c.sc[t] \subseteq st.sc[t]
    BY <1>9
  <2>2. Unused(st) \subseteq Unused(c)
    BY <2>1 DEF Unused
  <2>3. QED
    BY <2>1, <2>2 DEF UsesOne
<1>12. EndsBy(st, c, n)
  BY <1>2, <1>9 DEF EndsBy
<1>13. QED
  BY <1>10, <1>11, <1>12

LEMMA JoinOneWrote ==
  ASSUME NEW st \in IvState, NEW s \in Scopes, NEW n \in Nat,
         NEW r \in st.sc[s], NEW x \in Interval, x.e = n \/ x.e = st.iv[r].e,
         Unused(st) # {}, NEW c, c = JoinOne(st, r, x)
  PROVE  Wrote(st, c) /\ UsesOne(st, c) /\ EndsBy(st, c, n)
<1>1. r \in Ids
  BY DEF IvState
<1>2. /\ c.iv = [st.iv EXCEPT ![r] = x]
      /\ c.sc = st.sc
      /\ c.todo = Append(st.todo, PutInterval(r))
      /\ c = [iv |-> c.iv, sc |-> c.sc, todo |-> c.todo]
  BY <1>1 DEF IvState, JoinOne
<1>3. PICK y : y = <<PutInterval(r)>>
  OBVIOUS
<1>4. y \in Seq(Write) /\ Range(y) = {PutInterval(r)} /\ PutInterval(r).kind # "document"
  <2>1. PutInterval(r) \in Write
    BY <1>1 DEF Write, PutInterval
  <2>2. y \in Seq(Write)
    BY <2>1, <1>3
  <2>3. Range(y) = {PutInterval(r)}
    BY <1>3 DEF Range
  <2>4. QED
    BY <2>2, <2>3 DEF PutInterval
<1>5. /\ st.todo \in Seq(Write) /\ c.todo = st.todo \o y /\ c.todo \in Seq(Write)
      /\ Range(c.todo) = Range(st.todo) \cup Range(y)
  <2>1. st.todo \in Seq(Write)
    BY DEF IvState
  <2>2. c.todo = st.todo \o y
    BY <2>1, <1>2, <1>3
  <2>3. QED
    BY <2>1, <2>2, <1>4, RangeConcat
<1>6. c.iv \in [Ids -> Interval] /\ c.sc \in [Scopes -> SUBSET Ids]
  BY <1>1, <1>2 DEF IvState
<1>7. c \in IvState
  BY <1>2, <1>5, <1>6 DEF IvState
<1>8. c.iv[r] = x /\ \A i \in Ids : i # r => c.iv[i] = st.iv[i]
  BY <1>1, <1>2 DEF IvState
<1>9. Wrote(st, c)
  <2>1. \A t \in Scopes : c.sc[t] \subseteq Ids
    BY <1>6
  <2>2. QED
    BY <2>1, <1>2, <1>4, <1>5, <1>7, <1>8 DEF Wrote
<1>10. UsesOne(st, c)
  BY <1>2 DEF UsesOne, Unused
<1>11. EndsBy(st, c, n)
  BY <1>1, <1>8 DEF EndsBy
<1>12. QED
  BY <1>9, <1>10, <1>11

LEMMA NewIntervalWrote ==
  ASSUME NEW st \in IvState, NEW s \in Scopes, NEW n \in Nat,
         NEW u \in Unused(st), NEW c, c = NewInterval(st, s, u, n)
  PROVE  Wrote(st, c) /\ UsesOne(st, c) /\ EndsBy(st, c, n)
<1>1. PICK x : x = [b |-> n, e |-> n]
  OBVIOUS
<1>2. u \in Ids /\ x \in Interval /\ x.e = n
  BY <1>1 DEF Unused, Interval
<1>3. /\ c.iv = [st.iv EXCEPT ![u] = x]
      /\ c.sc = [st.sc EXCEPT ![s] = st.sc[s] \cup {u}]
      /\ c.todo = st.todo \o <<PutInterval(u), PutScope(s)>>
      /\ c = [iv |-> c.iv, sc |-> c.sc, todo |-> c.todo]
  BY <1>1, <1>2 DEF NewInterval, IvState
<1>4. PICK y : y = <<PutInterval(u), PutScope(s)>>
  OBVIOUS
<1>5. /\ y \in Seq(Write) /\ Range(y) = {PutInterval(u), PutScope(s)}
      /\ PutInterval(u).kind # "document" /\ PutScope(s).kind # "document"
  <2>1. PutInterval(u) \in Write /\ PutScope(s) \in Write
    BY <1>2 DEF Write, PutInterval, PutScope
  <2>2. y \in Seq(Write)
    BY <2>1, <1>4
  <2>3. Range(y) = {PutInterval(u), PutScope(s)}
    BY <1>4 DEF Range
  <2>4. QED
    BY <2>2, <2>3 DEF PutInterval, PutScope
<1>6. /\ c.todo = st.todo \o y /\ st.todo \in Seq(Write) /\ c.todo \in Seq(Write)
      /\ Range(c.todo) = Range(st.todo) \cup Range(y)
  <2>1. c.todo = st.todo \o y /\ st.todo \in Seq(Write) /\ y \in Seq(Write)
    BY <1>3, <1>4, <1>5 DEF IvState
  <2>2. Range(st.todo \o y) = Range(st.todo) \cup Range(y)
    BY <2>1, RangeConcat
  <2>3. st.todo \o y \in Seq(Write)
    BY <2>1
  <2>4. QED
    BY <2>1, <2>2, <2>3
<1>7. c.iv \in [Ids -> Interval] /\ c.sc \in [Scopes -> SUBSET Ids]
  BY <1>2, <1>3 DEF IvState
<1>8. c \in IvState
  BY <1>3, <1>6, <1>7 DEF IvState
<1>9. /\ \A i \in Ids : i # u => c.iv[i] = st.iv[i]
      /\ c.iv[u] = x
      /\ c.sc[s] = st.sc[s] \cup {u}
      /\ \A t \in Scopes : t # s => c.sc[t] = st.sc[t]
      /\ \A t \in Scopes : c.sc[t] \subseteq Ids
  BY <1>2, <1>3, <1>7 DEF IvState
<1>10. Wrote(st, c)
  BY <1>5, <1>6, <1>8, <1>9 DEF Wrote
<1>11. UsesOne(st, c)
  <2>1. \A t \in Scopes : c.sc[t] \subseteq st.sc[t] \cup {u}
    BY <1>9
  <2>2. Unused(st) \ {u} \subseteq Unused(c)
    BY <2>1 DEF Unused
  <2>3. QED
    BY <2>1, <2>2 DEF UsesOne
<1>12. EndsBy(st, c, n)
  BY <1>2, <1>9 DEF EndsBy
<1>13. QED
  BY <1>10, <1>11, <1>12

\* commitValue() puts all that it changes and uses at most one uri.
LEMMA CommitWrote ==
  ASSUME NEW st \in IvState, NEW s \in Scopes, NEW n \in Nat, Unused(st) # {},
         NEW c, c = commitValue(st, s, n)
  PROVE  Wrote(st, c) /\ UsesOne(st, c) /\ EndsBy(st, c, n)
<1> DEFINE p == CHOOSE i \in Before(st, s, n) : TRUE
           q == CHOOSE i \in After(st, s, n) : TRUE
           u == CHOOSE i \in Unused(st) : TRUE
<1>1. CASE Taken(st, s, n)
  <2>1. c = st
    BY <1>1 DEF commitValue
  <2>2. QED
    BY <2>1 DEF Wrote, UsesOne, EndsBy
<1>2. CASE ~Taken(st, s, n) /\ Before(st, s, n) # {} /\ After(st, s, n) # {}
  <2>1. c = JoinBoth(st, s, p, q) /\ p \in Before(st, s, n) /\ q \in After(st, s, n)
    BY <1>2 DEF commitValue
  <2> HIDE DEF p, q
  <2>2. p \in st.sc[s] /\ q \in st.sc[s]
    BY <2>1 DEF Before, After
  <2>3. QED
    BY <2>1, <2>2, JoinBothWrote
<1>3. CASE ~Taken(st, s, n) /\ Before(st, s, n) # {} /\ After(st, s, n) = {}
  <2>1. c = JoinBefore(st, p, n) /\ p \in Before(st, s, n)
    BY <1>3 DEF commitValue
  <2> HIDE DEF p
  <2>2. PICK x : x = [b |-> st.iv[p].b, e |-> n]
    OBVIOUS
  <2>3. p \in st.sc[s] /\ p \in Ids /\ x \in Interval /\ x.e = n
    BY <2>1, <2>2 DEF Before, IvState, Interval
  <2>4. c = JoinOne(st, p, x)
    BY <2>1, <2>2, <2>3 DEF JoinOne, JoinBefore, IvState
  <2>5. QED
    BY <2>3, <2>4, JoinOneWrote
<1>4. CASE ~Taken(st, s, n) /\ Before(st, s, n) = {} /\ After(st, s, n) # {}
  <2>1. c = JoinAfter(st, q, n) /\ q \in After(st, s, n)
    BY <1>4 DEF commitValue
  <2> HIDE DEF q
  <2>2. PICK x : x = [b |-> n, e |-> st.iv[q].e]
    OBVIOUS
  <2>3. q \in st.sc[s] /\ q \in Ids /\ x \in Interval /\ x.e = st.iv[q].e
    BY <2>1, <2>2 DEF After, IvState, Interval
  <2>4. c = JoinOne(st, q, x)
    BY <2>1, <2>2, <2>3 DEF JoinOne, JoinAfter, IvState
  <2>5. QED
    BY <2>3, <2>4, JoinOneWrote
<1>5. CASE ~Taken(st, s, n) /\ Before(st, s, n) = {} /\ After(st, s, n) = {}
  <2>1. c = NewInterval(st, s, u, n) /\ u \in Unused(st)
    BY <1>5 DEF commitValue
  <2> HIDE DEF u
  <2>2. QED
    BY <2>1, NewIntervalWrote
<1>6. QED
  BY <1>1, <1>2, <1>3, <1>4, <1>5

\* A finite set has an injection to a finite set that is not smaller.
LEMMA InjectionExists ==
  ASSUME NEW S, NEW T, IsFiniteSet(S), IsFiniteSet(T), Cardinality(S) <= Cardinality(T)
  PROVE  \E f \in [S -> T] : \A i, j \in S : f[i] = f[j] => i = j
<1>1. PICK m, k : m = Cardinality(S) /\ k = Cardinality(T)
  OBVIOUS
<1>2. m \in Nat /\ ExistsBijection(1 .. m, S)
  BY <1>1, FS_CardinalityType
<1>3. k \in Nat /\ ExistsBijection(1 .. k, T)
  BY <1>1, FS_CardinalityType
<1>4. PICK g \in Bijection(1 .. m, S) : TRUE
  BY <1>2 DEF ExistsBijection
<1>5. PICK h \in Bijection(1 .. k, T) : TRUE
  BY <1>3 DEF ExistsBijection
<1>6. \A x \in S : \E a \in 1 .. m : g[a] = x
  BY <1>4 DEF Bijection, Surjection
<1>7. h \in [1 .. k -> T] /\ \A a, b \in 1 .. k : h[a] = h[b] => a = b
  BY <1>5 DEF Bijection, Injection, IsInjective
<1> DEFINE no(x) == CHOOSE a \in 1 .. m : g[a] = x
           f == [x \in S |-> h[no(x)]]
<1>8. \A x \in S : no(x) \in 1 .. m /\ g[no(x)] = x
  BY <1>6
<1> HIDE DEF no
<1>9. \A x \in S : no(x) \in 1 .. k
  BY <1>1, <1>2, <1>3, <1>8
<1>10. f \in [S -> T]
  BY <1>7, <1>9
<1>11. \A i, j \in S : f[i] = f[j] => i = j
  BY <1>7, <1>8, <1>9
<1>12. QED
  BY <1>10, <1>11

\* revokeValue() has its second halves when the uris are as many as the list.
LEMMA HalvesEnough ==
  ASSUME NEW st \in IvState, NEW s \in Scopes, NEW n \in Nat,
         Cardinality(st.sc[s]) <= Cardinality(Unused(st))
  PROVE  Halves(st, s, n) # {}
<1>1. IsFiniteSet(st.sc[s]) /\ IsFiniteSet(Unused(st))
  BY FiniteLists
<1>2. PICK f \in [st.sc[s] -> Unused(st)] : \A i, j \in st.sc[s] : f[i] = f[j] => i = j
  BY <1>1, InjectionExists
<1>3. Inside(st, s, n) \subseteq st.sc[s]
  BY DEF Inside
<1>4. [i \in Inside(st, s, n) |-> f[i]] \in Halves(st, s, n)
  BY <1>2, <1>3 DEF Halves
<1>5. QED
  BY <1>4

\* revokeValue() puts all that it changes.
LEMMA RevokeWrote ==
  ASSUME NEW st \in IvState, NEW s \in Scopes, NEW n \in Nat, Halves(st, s, n) # {},
         NEW c, c = revokeValue(st, s, n)
  PROVE  Wrote(st, c) /\ EndsBy(st, c, n)
<1> DEFINE half == CHOOSE f \in Halves(st, s, n) : TRUE
           new  == {half[i] : i \in Inside(st, s, n)}
           whose(j) == CHOOSE i \in Inside(st, s, n) : half[i] = j
<1>1. half \in [Inside(st, s, n) -> Unused(st)]
  BY DEF Halves
<1>2. /\ new \subseteq Unused(st)
      /\ \A j \in new : whose(j) \in Inside(st, s, n)
  BY <1>1
<1>3. /\ c.iv = [i \in Ids |->
                  IF i \in new THEN [b |-> n + 1, e |-> st.iv[whose(i)].e]
                  ELSE IF i \in AtBegin(st, s, n) THEN [b |-> n + 1, e |-> st.iv[i].e]
                  ELSE IF i \in AtEnd(st, s, n) \cup Inside(st, s, n)
                  THEN [b |-> st.iv[i].b, e |-> n - 1]
                  ELSE st.iv[i]]
      /\ c.sc = [st.sc EXCEPT ![s] = (st.sc[s] \ Single(st, s, n)) \cup new]
      /\ c.todo = st.todo \o Puts(Cut(st, s, n)) \o Puts(new) \o <<PutScope(s)>>
      /\ c = [iv |-> c.iv, sc |-> c.sc, todo |-> c.todo]
  BY DEF revokeValue
<1> HIDE DEF half, whose
<1>4. /\ \A t \in Scopes : st.sc[t] \subseteq Ids
      /\ new \subseteq Ids
      /\ \A i \in Ids : st.iv[i] \in Interval /\ st.iv[i].b \in Nat /\ st.iv[i].e \in Nat
  BY <1>2 DEF IvState, Unused, Interval
<1> HIDE DEF new
<1>5. /\ Inside(st, s, n) \subseteq Ids /\ AtBegin(st, s, n) \subseteq Ids
      /\ AtEnd(st, s, n) \subseteq Ids /\ Cut(st, s, n) \in SUBSET Ids
      /\ \A i \in AtEnd(st, s, n) \cup Inside(st, s, n) : st.iv[i].b < n
  BY <1>4 DEF Inside, AtBegin, AtEnd, Cut
<1>6. ASSUME NEW i \in Ids
      PROVE  /\ c.iv[i] \in Interval
             /\ c.iv[i].e <= n \/ \E j \in Ids : c.iv[i].e = st.iv[j].e
             /\ i \in new \/ i \in Cut(st, s, n) \/ c.iv[i] = st.iv[i]
  <2>1. c.iv[i] = IF i \in new THEN [b |-> n + 1, e |-> st.iv[whose(i)].e]
                  ELSE IF i \in AtBegin(st, s, n) THEN [b |-> n + 1, e |-> st.iv[i].e]
                  ELSE IF i \in AtEnd(st, s, n) \cup Inside(st, s, n)
                  THEN [b |-> st.iv[i].b, e |-> n - 1]
                  ELSE st.iv[i]
    BY <1>3
  <2>2. CASE i \in new
    <3>1. c.iv[i] = [b |-> n + 1, e |-> st.iv[whose(i)].e]
      BY <2>1, <2>2
    <3>2. whose(i) \in Ids
      BY <2>2, <1>2, <1>5
    <3>3. QED
      BY <2>2, <3>1, <3>2, <1>4 DEF Interval
  <2>3. CASE i \notin new /\ i \in AtBegin(st, s, n)
    <3>1. c.iv[i] = [b |-> n + 1, e |-> st.iv[i].e]
      BY <2>1, <2>3
    <3>2. QED
      BY <2>3, <3>1, <1>4 DEF Interval, Cut
  <2>4. CASE /\ i \notin new /\ i \notin AtBegin(st, s, n)
             /\ i \in AtEnd(st, s, n) \cup Inside(st, s, n)
    <3>1. c.iv[i] = [b |-> st.iv[i].b, e |-> n - 1]
      BY <2>1, <2>4
    <3>2. n - 1 \in Nat /\ n - 1 <= n
      BY <2>4, <1>4, <1>5
    <3>3. c.iv[i].e = n - 1
      BY <3>1
    <3>4. QED
      BY <2>4, <3>1, <3>2, <3>3, <1>4 DEF Interval, Cut
  <2>5. CASE /\ i \notin new /\ i \notin AtBegin(st, s, n)
             /\ i \notin AtEnd(st, s, n) \cup Inside(st, s, n)
    <3>1. c.iv[i] = st.iv[i]
      BY <2>1, <2>5
    <3>2. QED
      BY <3>1, <1>4
  <2>6. QED
    BY <2>2, <2>3, <2>4, <2>5
<1>7. /\ c.sc[s] = (st.sc[s] \ Single(st, s, n)) \cup new
      /\ \A t \in Scopes : t # s => c.sc[t] = st.sc[t]
      /\ c.sc \in [Scopes -> SUBSET Ids]
  BY <1>3, <1>4 DEF IvState
<1>8. PICK x, y, z : x = Puts(Cut(st, s, n)) /\ y = Puts(new) /\ z = <<PutScope(s)>>
  OBVIOUS
<1>9. /\ x \in Seq(Write) /\ Range(x) = {PutInterval(i) : i \in Cut(st, s, n)}
      /\ y \in Seq(Write) /\ Range(y) = {PutInterval(i) : i \in new}
  BY <1>4, <1>5, <1>8, PutsType
<1>10. z \in Seq(Write) /\ Range(z) = {PutScope(s)}
  <2>1. PutScope(s) \in Write
    BY DEF Write, PutScope
  <2>2. QED
    BY <2>1, <1>8 DEF Range
<1>11. /\ c.todo \in Seq(Write)
       /\ Range(c.todo) = Range(st.todo) \cup Range(x) \cup Range(y) \cup Range(z)
  <2>1. PICK a : a = st.todo
    OBVIOUS
  <2>2. a \in Seq(Write)
    BY <2>1 DEF IvState
  <2>3. a \o x \in Seq(Write) /\ Range(a \o x) = Range(a) \cup Range(x)
    <3>1. Range(a \o x) = Range(a) \cup Range(x)
      BY <2>2, <1>9, RangeConcat
    <3>2. a \o x \in Seq(Write)
      BY <2>2, <1>9
    <3>3. QED
      BY <3>1, <3>2
  <2>4. PICK d : d = a \o x
    OBVIOUS
  <2>5. d \o y \in Seq(Write) /\ Range(d \o y) = Range(d) \cup Range(y)
    <3>1. d \in Seq(Write)
      BY <2>3, <2>4
    <3>2. Range(d \o y) = Range(d) \cup Range(y)
      BY <3>1, <1>9, RangeConcat
    <3>3. d \o y \in Seq(Write)
      BY <3>1, <1>9
    <3>4. QED
      BY <3>2, <3>3
  <2>6. PICK f : f = d \o y
    OBVIOUS
  <2>7. f \o z \in Seq(Write) /\ Range(f \o z) = Range(f) \cup Range(z)
    <3>1. f \in Seq(Write)
      BY <2>5, <2>6
    <3>2. Range(f \o z) = Range(f) \cup Range(z)
      BY <3>1, <1>10, RangeConcat
    <3>3. f \o z \in Seq(Write)
      BY <3>1, <1>10
    <3>4. QED
      BY <3>2, <3>3
  <2>8. c.todo = f \o z
    BY <2>1, <2>4, <2>6, <1>3, <1>8
  <2>9. QED
    BY <2>1, <2>3, <2>4, <2>5, <2>6, <2>7, <2>8
<1>12. c \in IvState
  <2>1. c.iv \in [Ids -> Interval]
    BY <1>3, <1>6
  <2>2. QED
    BY <2>1, <1>3, <1>7, <1>11 DEF IvState
<1>13. Wrote(st, c)
  <2>1. \A w \in Range(c.todo) \ Range(st.todo) : w.kind # "document"
    BY <1>9, <1>10, <1>11 DEF PutInterval, PutScope
  <2>2. \A t \in Scopes : c.sc[t] = st.sc[t] \/ PutScope(t) \in Range(c.todo)
    BY <1>7, <1>10, <1>11
  <2>3. ASSUME NEW t \in Scopes, NEW i \in c.sc[t]
        PROVE  \/ i \in st.sc[t] /\ c.iv[i] = st.iv[i]
               \/ PutInterval(i) \in Range(c.todo)
    <3>1. i \in Ids
      BY <1>7
    <3>2. i \in new \/ i \in st.sc[t]
      BY <1>7
    <3>3. i \in new \/ i \in Cut(st, s, n) => PutInterval(i) \in Range(c.todo)
      BY <1>9, <1>11
    <3>4. QED
      BY <3>1, <3>2, <3>3, <1>6
  <2>4. QED
    BY <2>1, <2>2, <2>3, <1>11, <1>12 DEF Wrote
<1>14. QED
  BY <1>6, <1>13 DEF EndsBy

\* Some number is above the ends of all intervals.
Capped(st) == \E N \in Nat : \A i \in Ids : st.iv[i].e <= N

\* commitValue() and revokeValue() keep it so.
LEMMA EndsCapped ==
  ASSUME NEW st \in IvState, NEW c \in IvState, NEW n \in Nat, Capped(st), EndsBy(st, c, n)
  PROVE  Capped(c)
<1>1. PICK N \in Nat : \A i \in Ids : st.iv[i].e <= N
  BY DEF Capped
<1>2. \A i \in Ids : st.iv[i].e \in Nat /\ c.iv[i].e \in Nat
  BY DEF IvState, Interval
<1>3. ASSUME NEW i \in Ids PROVE c.iv[i].e <= N + n
  <2>1. CASE c.iv[i].e <= n
    BY <2>1, <1>2
  <2>2. CASE \E j \in Ids : c.iv[i].e = st.iv[j].e
    BY <2>2, <1>1, <1>2
  <2>3. QED
    BY <2>1, <2>2 DEF EndsBy
<1>4. N + n \in Nat
  OBVIOUS
<1>5. QED
  BY <1>3, <1>4 DEF Capped

\* So there is a next value, though it may be taken after a crash.
LEMMA NextNumber ==
  ASSUME NEW st \in IvState, Capped(st), NEW s \in Scopes
  PROVE  getNextValueSimple(st, s) \in Nat \ {0}
<1>1. CASE st.sc[s] = {}
  BY <1>1, NumeratorAssumption DEF getNextValueSimple
<1>2. CASE st.sc[s] # {}
  <2>1. \A i \in st.sc[s] : i \in Ids /\ st.iv[i].e \in Nat
    BY DEF IvState, Interval
  <2>2. Ends(st, s) # {} /\ Ends(st, s) \subseteq Nat
    BY <2>1, <1>2 DEF Ends
  <2> DEFINE T == {N \in Nat : \A k \in Ends(st, s) : k <= N}
  <2>3. T # {} /\ T \subseteq Nat
    BY <2>1 DEF Capped, Ends
  <2>4. PICK N \in T : \A y \in T : ~(<<y, N>> \in OpToRel(<, Nat))
    BY <2>3, NatLessThanWellFounded, WFMin
  <2>5. N \in Nat /\ \A y \in T : ~(y < N)
    BY <2>3, <2>4 DEF OpToRel
  <2>6. N \in Ends(st, s)
    <3> SUFFICES ASSUME N \notin Ends(st, s) PROVE FALSE
      OBVIOUS
    <3>1. PICK k \in Ends(st, s) : TRUE
      BY <2>2
    <3>2. \A j \in Ends(st, s) : j < N /\ j \in Nat
      BY <2>2, <2>5
    <3>3. N - 1 \in T
      BY <3>1, <3>2, <2>5
    <3>4. QED
      BY <3>3, <2>5
  <2>7. \A k \in Ends(st, s) : k <= N
    OBVIOUS
  <2> HIDE DEF T
  <2>8. \E m \in Ends(st, s) : \A k \in Ends(st, s) : k <= m
    BY <2>6, <2>7
  <2>9. PICK m \in Ends(st, s) : getNextValueSimple(st, s) = m + 1
    BY <2>8, <1>2 DEF getNextValueSimple
  <2>10. QED
    BY <2>2, <2>9
<1>3. QED
  BY <1>1, <1>2

\* After one uri there is one for each interval of a list.
LEMMA RoomAfter ==
  ASSUME NEW st \in IvState, NEW c \in IvState, Enough(st), UsesOne(st, c), NEW s \in Scopes
  PROVE  Cardinality(c.sc[s]) <= Cardinality(Unused(c))
<1>1. PICK u \in Unused(st) : /\ \A t \in Scopes : c.sc[t] \subseteq st.sc[t] \cup {u}
                              /\ Unused(st) \ {u} \subseteq Unused(c)
  BY DEF UsesOne
<1>2. PICK S, T, U, V : S = st.sc[s] /\ T = c.sc[s] /\ U = Unused(st) /\ V = Unused(c)
  OBVIOUS
<1>3. IsFiniteSet(S) /\ IsFiniteSet(T) /\ IsFiniteSet(U) /\ IsFiniteSet(V)
  BY <1>2, FiniteLists
<1>4. Cardinality(S) + 2 <= Cardinality(U)
  BY <1>2 DEF Enough
<1>5. T \in SUBSET (S \cup {u}) /\ (U \ {u}) \in SUBSET V /\ u \in U
  BY <1>1, <1>2
<1>6. /\ IsFiniteSet(S \cup {u})
      /\ Cardinality(S \cup {u}) = Cardinality(S) \/ Cardinality(S \cup {u}) = Cardinality(S) + 1
  BY <1>3, FS_AddElement
<1>7. Cardinality(U \ {u}) = Cardinality(U) - 1
  BY <1>3, <1>5, FS_RemoveElement
<1>8. Cardinality(T) <= Cardinality(S \cup {u})
  BY <1>5, <1>6, FS_Subset
<1>9. Cardinality(U \ {u}) <= Cardinality(V)
  BY <1>3, <1>5, FS_Subset
<1>10. /\ Cardinality(S) \in Nat /\ Cardinality(T) \in Nat
       /\ Cardinality(U) \in Nat /\ Cardinality(V) \in Nat
  BY <1>3, FS_CardinalityType
<1>11. Cardinality(T) <= Cardinality(V)
  BY <1>4, <1>6, <1>7, <1>8, <1>9, <1>10
<1>12. QED
  BY <1>2, <1>11

\* The lists, and the intervals in them, that c does not share with the
\* database db are writes of c.
Recorded(db, c, W) ==
  /\ \A t \in Scopes : c.sc[t] = db.sc[t] \/ PutScope(t) \in W
  /\ \A t \in Scopes : \A i \in c.sc[t] :
       (i \in db.sc[t] /\ c.iv[i] = db.iv[i]) \/ PutInterval(i) \in W

\* A write of a document is added and nothing else.
LEMMA AddPutWrote ==
  ASSUME NEW st \in IvState, NEW a \in IvState, Capped(a), Recorded(st, a, Range(a.todo)),
         \A w \in Range(a.todo) : w.kind # "document",
         NEW d \in Docs, NEW v \in Document, NEW c, c = AddPut(a, d, v)
  PROVE  /\ c \in IvState /\ Capped(c) /\ Recorded(st, c, Range(c.todo))
         /\ PutDocument(d, v) \in Range(c.todo)
         /\ \A w \in Range(c.todo) : w.kind = "document" => w = PutDocument(d, v)
<1>1. PICK x : x = PutDocument(d, v)
  OBVIOUS
<1>2. x \in Write
  BY <1>1 DEF Write, PutDocument
<1>3. c = [a EXCEPT !.todo = Append(a.todo, x)]
  BY <1>1 DEF AddPut, IvState
<1>4. a.todo \in Seq(Write)
  BY DEF IvState
<1>5. /\ c.iv = a.iv /\ c.sc = a.sc /\ c.todo = Append(a.todo, x)
      /\ c = [iv |-> c.iv, sc |-> c.sc, todo |-> c.todo]
  BY <1>3 DEF IvState
<1>6. PICK y : y = <<x>>
  OBVIOUS
<1>7. y \in Seq(Write) /\ Range(y) = {x}
  BY <1>2, <1>6 DEF Range
<1>8. c.todo = a.todo \o y /\ c.todo \in Seq(Write)
  BY <1>2, <1>4, <1>5, <1>6
<1>9. Range(a.todo \o y) = Range(a.todo) \cup Range(y)
  BY <1>4, <1>7, RangeConcat
<1>10. c \in IvState
  BY <1>5, <1>8 DEF IvState
<1>11. Range(c.todo) = Range(a.todo) \cup {x}
  BY <1>7, <1>8, <1>9
<1>12. Capped(c)
  BY <1>5 DEF Capped
<1>13. Recorded(st, c, Range(c.todo))
  BY <1>5, <1>11 DEF Recorded
<1>14. x \in Range(c.todo) /\ \A w \in Range(c.todo) : w.kind = "document" => w = x
  BY <1>11
<1>15. QED
  BY <1>1, <1>10, <1>12, <1>13, <1>14

\* The number that a document without one is given.
NumberOf(st, cur, prev) ==
  IF prev.num = 0 THEN getNextValueSimple(st, cur.scope) ELSE prev.num

\* The documents that are written.
DocumentWrites(st, c, d, cur, prev) ==
  /\ \A w \in Range(c.todo) : w.kind = "document" =>
       /\ cur.num = 0
       /\ w = PutDocument(d, [cur EXCEPT !.num = NumberOf(st, cur, prev)])
  /\ cur.num = 0 =>
       PutDocument(d, [cur EXCEPT !.num = NumberOf(st, cur, prev)]) \in Range(c.todo)

\* numerate() keeps the types, puts all that it changes, and writes a number to
\* a document that has none, also when a crash has left intervals that overlap.
LEMMA NumerateWrote ==
  ASSUME NEW st \in IvState, Capped(st), Enough(st), st.todo = <<>>,
         NEW d \in Docs, NEW cur \in Document, NEW prev \in Document,
         NEW c, c = numerate(st, d, cur, prev)
  PROVE  /\ c \in IvState /\ Capped(c) /\ Recorded(st, c, Range(c.todo))
         /\ DocumentWrites(st, c, d, cur, prev)
<1>1. /\ cur.num \in Nat /\ prev.num \in Nat
      /\ cur.scope \in Scopes /\ prev.scope \in Scopes
  BY DEF Document
<1>2. Range(st.todo) = {}
  BY DEF Range
<1>3. Unused(st) # {}
  BY <1>1, EnoughTwo
<1>4. ASSUME NEW s \in Scopes PROVE Cardinality(st.sc[s]) <= Cardinality(Unused(st))
  <2>1. IsFiniteSet(st.sc[s]) /\ IsFiniteSet(Unused(st))
    BY FiniteLists
  <2>2. Cardinality(st.sc[s]) \in Nat /\ Cardinality(Unused(st)) \in Nat
    BY <2>1, FS_CardinalityType
  <2>3. Cardinality(st.sc[s]) + 2 <= Cardinality(Unused(st))
    BY DEF Enough
  <2>4. QED
    BY <2>2, <2>3
<1>5. ASSUME NEW a, Wrote(st, a)
      PROVE  /\ a \in IvState /\ Recorded(st, a, Range(a.todo))
             /\ \A w \in Range(a.todo) : w.kind # "document"
  BY <1>2, <1>5 DEF Wrote, Recorded
<1>6. CASE cur.num # 0 /\ c = st
  <2>1. Recorded(st, c, Range(c.todo))
    BY <1>6 DEF Recorded
  <2>2. QED
    BY <2>1, <1>2, <1>6 DEF DocumentWrites
<1>7. CASE cur.num = 0
  <2>1. PICK n : n = NumberOf(st, cur, prev)
    OBVIOUS
  <2>2. n \in Nat
    BY <2>1, <1>1, NextNumber DEF NumberOf
  <2>3. PICK x : x = [cur EXCEPT !.num = n]
    OBVIOUS
  <2>4. x \in Document
    BY <2>2, <2>3 DEF Document
  <2>5. \E a \in IvState : /\ c = AddPut(a, d, x) /\ Capped(a)
                           /\ Recorded(st, a, Range(a.todo))
                           /\ \A w \in Range(a.todo) : w.kind # "document"
    <3>1. CASE prev.num = 0
      <4>1. n = getNextValueSimple(st, cur.scope)
        BY <2>1, <3>1 DEF NumberOf
      <4>2. PICK a : a = commitValue(st, cur.scope, n)
        OBVIOUS
      <4>3. c = AddPut(a, d, x)
        BY <4>1, <4>2, <3>1, <2>3, <1>7 DEF numerate, GiveNumber, NothingChanged
      <4>4. Wrote(st, a) /\ EndsBy(st, a, n)
        BY <4>2, <2>2, <1>1, <1>3, CommitWrote
      <4>5. a \in IvState /\ Capped(a)
        BY <4>4, <2>2, <1>5, EndsCapped
      <4>6. QED
        BY <4>3, <4>4, <4>5, <1>5
    <3>2. CASE prev.num # 0
      <4>1. n = prev.num
        BY <2>1, <3>2 DEF NumberOf
      <4>2. c = AddPut(st, d, x)
        BY <4>1, <3>2, <2>3, <1>7 DEF numerate, Restore, NothingChanged
      <4>3. Recorded(st, st, Range(st.todo))
        BY DEF Recorded
      <4>4. QED
        BY <4>2, <4>3, <1>2
    <3>3. QED
      BY <3>1, <3>2
  <2>6. PICK a \in IvState : /\ c = AddPut(a, d, x) /\ Capped(a)
                             /\ Recorded(st, a, Range(a.todo))
                             /\ \A w \in Range(a.todo) : w.kind # "document"
    BY <2>5
  <2>7. /\ c \in IvState /\ Capped(c) /\ Recorded(st, c, Range(c.todo))
        /\ PutDocument(d, x) \in Range(c.todo)
        /\ \A w \in Range(c.todo) : w.kind = "document" => w = PutDocument(d, x)
    BY <2>4, <2>6, AddPutWrote
  <2>8. DocumentWrites(st, c, d, cur, prev)
    <3>1. x = [cur EXCEPT !.num = NumberOf(st, cur, prev)]
      BY <2>1, <2>3
    <3>2. QED
      BY <3>1, <2>7, <1>7, Zenon DEF DocumentWrites
  <2>9. QED
    BY <2>7, <2>8
<1>8. CASE cur.num # 0 /\ c = commitValue(st, cur.scope, cur.num)
  <2>1. Wrote(st, c) /\ EndsBy(st, c, cur.num)
    BY <1>1, <1>3, <1>8, CommitWrote
  <2>2. c \in IvState /\ Capped(c)
    BY <2>1, <1>1, <1>5, EndsCapped
  <2>3. QED
    BY <2>1, <2>2, <1>5, <1>8 DEF DocumentWrites
<1>9. CASE cur.num # 0 /\ c = revokeValue(st, cur.scope, cur.num)
  <2>1. Halves(st, cur.scope, cur.num) # {}
    BY <1>1, <1>4, HalvesEnough
  <2>2. Wrote(st, c) /\ EndsBy(st, c, cur.num)
    BY <2>1, <1>1, <1>9, RevokeWrote
  <2>3. c \in IvState /\ Capped(c)
    BY <2>2, <1>1, <1>5, EndsCapped
  <2>4. QED
    BY <2>2, <2>3, <1>5, <1>9 DEF DocumentWrites
<1>10. CASE /\ cur.num # 0
            /\ c = revokeValue(commitValue(st, cur.scope, cur.num), prev.scope, prev.num)
  <2>1. PICK a : a = commitValue(st, cur.scope, cur.num)
    OBVIOUS
  <2>2. Wrote(st, a) /\ UsesOne(st, a) /\ EndsBy(st, a, cur.num)
    BY <2>1, <1>1, <1>3, CommitWrote
  <2>3. a \in IvState /\ Capped(a)
    BY <2>2, <1>1, <1>5, EndsCapped
  <2>4. Halves(a, prev.scope, prev.num) # {}
    BY <2>2, <2>3, <1>1, RoomAfter, HalvesEnough
  <2>5. c = revokeValue(a, prev.scope, prev.num)
    BY <2>1, <1>10
  <2>6. Wrote(a, c) /\ EndsBy(a, c, prev.num)
    BY <2>3, <2>4, <2>5, <1>1, RevokeWrote
  <2>7. c \in IvState
    BY <2>6 DEF Wrote
  <2>8. Capped(c)
    BY <2>3, <2>6, <2>7, <1>1, EndsCapped
  <2>9. Wrote(st, c)
    BY <2>2, <2>6, <2>7 DEF Wrote
  <2>10. QED
    BY <2>7, <2>8, <2>9, <1>5, <1>10 DEF DocumentWrites
<1>11. QED
  BY <1>6, <1>7, <1>8, <1>9, <1>10 DEF numerate
-----------------------------------------------------------------------------
(* What holds over crashes as well.                                        *)

\* The database, as Now is the view of the script.
Db == [iv |-> interval, sc |-> scope, todo |-> <<>>]

\* What the script sees and the database has not is still to be sent.  c is
\* the view, W the writes to be sent.
Unsent(db, c, W) ==
  /\ \A t \in Scopes : c.sc[t] = db.sc[t] \/ PutScope(t) \in W
  /\ \A t \in Scopes : \A i \in c.sc[t] : c.iv[i] = db.iv[i] \/ PutInterval(i) \in W

\* The record k is not in hand.
Waits(hand, k) == ~(k = 1 /\ hand)

\* A document without a number has a record that waits, or the record in hand
\* is its own and its number is still to be sent.  D, Q, W and hand stand for
\* docs, queue, the writes of todo and running.
Awaited(D, Q, W, hand) ==
  /\ \A w \in W : w.kind = "document" => hand /\ w.id = Q[1].doc /\ w.value.num # 0
  /\ \A d \in Docs : D[d].there /\ D[d].num = 0 =>
       \/ \E k \in DOMAIN Q : Waits(hand, k) /\ Q[k].doc = d
       \/ \E w \in W : w.kind = "document" /\ w.id = d

BInv ==
  /\ TypeOK /\ (~running => todo = <<>>)
  /\ Capped(Now) /\ Capped(Db)
  /\ Unsent(Db, Now, Range(todo))
  /\ Awaited(docs, queue, Range(todo), running)

\* The two views and the writes are of their types.
LEMMA ViewTypes ==
  ASSUME TypeOK
  PROVE  /\ Now \in IvState /\ Db \in IvState
         /\ Now.iv = t_interval /\ Now.sc = t_scope /\ Now.todo = <<>>
         /\ Db.iv = interval /\ Db.sc = scope
<1>1. \A f \in [Ids -> Interval], g \in [Scopes -> SUBSET Ids] :
        [iv |-> f, sc |-> g, todo |-> <<>>] \in IvState
  BY DEF IvState
<1>2. QED
  BY <1>1 DEF TypeOK, Now, Db

\* Initially there is nothing.
LEMMA BInit == Init => BInv
<1> SUFFICES ASSUME Init PROVE BInv
  OBVIOUS
<1>1. TypeOK
  BY InitInv DEF NInv, Init
<1>2. todo = <<>> /\ running = FALSE /\ Range(todo) = {}
  BY DEF Init, Range
<1>3. \A i \in Ids : interval[i].e = 0 /\ t_interval[i].e = 0
  BY DEF Init
<1>4. Capped(Now) /\ Capped(Db)
  BY <1>1, <1>3, ViewTypes DEF Capped
<1>5. interval = t_interval /\ scope = t_scope
  BY DEF Init
<1>6. Unsent(Db, Now, Range(todo))
  BY <1>1, <1>5, ViewTypes DEF Unsent
<1>7. \A d \in Docs : ~docs[d].there
  BY DEF Init, NoDocument
<1>8. QED
  BY <1>1, <1>2, <1>4, <1>6, <1>7 DEF BInv, Awaited

\* A save leaves a record that waits.
LEMMA BSave ==
  ASSUME BInv, NEW d \in Docs, NEW del \in BOOLEAN, NEW s \in setting.scopes,
         NEW n \in setting.typed \cup {0, docs[d].num},
         Save(d, [there |-> TRUE, num |-> n, deleted |-> del, scope |-> s])
  PROVE  BInv'
<1>1. TypeOK /\ TypeOK'
  BY SaveStep DEF BInv
<1>2. /\ queue' = Append(queue, [doc |-> d, prev |-> docs[d]])
      /\ \A c \in Docs : c # d => docs'[c] = docs[c]
      /\ UNCHANGED <<interval, scope, t_interval, t_scope, todo, running>>
  BY <1>1 DEF Save, numeration, TypeOK
<1>3. PICK L : L = Len(queue) + 1
  OBVIOUS
<1>4. /\ DOMAIN queue' = 1 .. L /\ L \in DOMAIN queue' /\ queue'[L].doc = d
      /\ \A k \in DOMAIN queue : k \in DOMAIN queue' /\ queue'[k] = queue[k]
      /\ running => 1 \in DOMAIN queue /\ L # 1
  BY <1>1, <1>2, <1>3 DEF TypeOK
<1>5. Awaited(docs', queue', Range(todo), running)
  <2>1. \A w \in Range(todo) : w.kind = "document" =>
          running /\ w.id = queue'[1].doc /\ w.value.num # 0
    BY <1>4 DEF BInv, Awaited
  <2>2. ASSUME NEW c \in Docs, docs'[c].there /\ docs'[c].num = 0
        PROVE  \/ \E k \in DOMAIN queue' : Waits(running, k) /\ queue'[k].doc = c
               \/ \E w \in Range(todo) : w.kind = "document" /\ w.id = c
    <3>1. CASE c = d
      BY <3>1, <1>4 DEF Waits
    <3>2. CASE c # d
      <4>1. docs[c].there /\ docs[c].num = 0
        BY <3>2, <2>2, <1>2
      <4>2. \/ \E k \in DOMAIN queue : Waits(running, k) /\ queue[k].doc = c
            \/ \E w \in Range(todo) : w.kind = "document" /\ w.id = c
        BY <4>1 DEF BInv, Awaited
      <4>3. QED
        BY <4>2, <1>4
    <3>3. QED
      BY <3>1, <3>2
  <2>3. QED
    BY <2>1, <2>2 DEF Awaited
<1>6. Now' = Now /\ Db' = Db /\ todo' = todo /\ running' = running
  BY <1>2 DEF Now, Db
<1>7. QED
  BY <1>1, <1>5, <1>6 DEF BInv

\* A run of the script puts all that it changes, and a number to the document
\* if it has none.
LEMMA BNumerate ==
  ASSUME BInv, Numerate
  PROVE  BInv'
<1>1. TypeOK /\ Now \in IvState /\ Now.todo = <<>> /\ Db \in IvState
  BY ViewTypes DEF BInv
<1>2. PICK r : r = Head(queue)
  OBVIOUS
<1>3. r \in [doc: Docs, prev: Document] /\ queue # <<>> /\ ~running
  <2>1. queue # <<>> /\ queue \in Seq([doc: Docs, prev: Document]) /\ ~running
    BY <1>1 DEF Numerate, TypeOK
  <2>2. \A R : \A x \in Seq(R) : x # <<>> => Head(x) \in R
    OBVIOUS
  <2>3. QED
    BY <2>1, <2>2, <1>2
<1>4. r.doc \in Docs /\ r.prev \in Document /\ docs[r.doc] \in Document
  BY <1>1, <1>3 DEF TypeOK
<1>5. PICK c : c = numerate(Now, r.doc, docs[r.doc], r.prev)
  OBVIOUS
<1>6. Enough(Now) /\ Capped(Now)
  BY DEF Numerate, BInv
<1>7. /\ c \in IvState /\ Capped(c) /\ Recorded(Now, c, Range(c.todo))
      /\ DocumentWrites(Now, c, r.doc, docs[r.doc], r.prev)
  BY <1>1, <1>4, <1>5, <1>6, NumerateWrote
<1>8. /\ t_interval' = c.iv /\ t_scope' = c.sc /\ todo' = c.todo
      /\ running' = TRUE
      /\ UNCHANGED <<setting, docs, queue, interval, scope, saves, crashes, whole>>
  BY <1>2, <1>5 DEF Numerate
<1>9. c.iv \in [Ids -> Interval] /\ c.sc \in [Scopes -> SUBSET Ids] /\ c.todo \in Seq(Write)
  BY <1>7 DEF IvState
<1>10. TypeOK'
  BY <1>1, <1>3, <1>8, <1>9 DEF TypeOK
<1>11. PICK q : q = Now'
  OBVIOUS
<1>12. q.iv = c.iv /\ q.sc = c.sc
  BY <1>8, <1>11 DEF Now
<1>13. Capped(q)
  BY <1>7, <1>12 DEF Capped
<1>14. Db' = Db
  BY <1>8 DEF Db
<1>15. Unsent(Db, q, Range(c.todo))
  <2>1. Range(todo) = {}
    BY <1>3 DEF BInv, Range
  <2>2. /\ \A t \in Scopes : Now.sc[t] = Db.sc[t]
        /\ \A t \in Scopes : \A i \in Now.sc[t] : Now.iv[i] = Db.iv[i]
    BY <2>1 DEF BInv, Unsent
  <2>3. \A t \in Scopes : q.sc[t] = Db.sc[t] \/ PutScope(t) \in Range(c.todo)
    BY <2>2, <1>7, <1>12 DEF Recorded
  <2>4. \A t \in Scopes : \A i \in q.sc[t] :
          q.iv[i] = Db.iv[i] \/ PutInterval(i) \in Range(c.todo)
    BY <2>2, <1>7, <1>12 DEF Recorded
  <2>5. QED
    BY <2>3, <2>4 DEF Unsent
<1>16. Awaited(docs, queue, Range(c.todo), TRUE)
  <2>1. PICK v : v = [docs[r.doc] EXCEPT !.num = NumberOf(Now, docs[r.doc], r.prev)]
    OBVIOUS
  <2>2. queue[1] = r /\ 1 \in DOMAIN queue
    BY <1>1, <1>2, <1>3 DEF TypeOK
  <2>3. NumberOf(Now, docs[r.doc], r.prev) # 0
    <3>1. docs[r.doc].scope \in Scopes /\ r.prev.num \in Nat
      BY <1>4 DEF Document
    <3>2. getNextValueSimple(Now, docs[r.doc].scope) \in Nat \ {0}
      BY <3>1, <1>1, <1>6, NextNumber
    <3>3. QED
      BY <3>1, <3>2 DEF NumberOf
  <2>4. v.num = NumberOf(Now, docs[r.doc], r.prev)
    BY <2>1, <1>4 DEF Document
  <2>5. PICK z : z = PutDocument(r.doc, v)
    OBVIOUS
  <2>6. z.kind = "document" /\ z.id = r.doc /\ z.value = v
    BY <2>5 DEF PutDocument
  <2>7. /\ \A w \in Range(c.todo) : w.kind = "document" => w = z
        /\ docs[r.doc].num = 0 => z \in Range(c.todo)
    BY <2>1, <2>5, <1>7 DEF DocumentWrites
  <2>8. \A w \in Range(c.todo) : w.kind = "document" =>
          TRUE /\ w.id = queue[1].doc /\ w.value.num # 0
    BY <2>2, <2>3, <2>4, <2>6, <2>7
  <2>9. ASSUME NEW d \in Docs, docs[d].there /\ docs[d].num = 0
        PROVE  \/ \E k \in DOMAIN queue : Waits(TRUE, k) /\ queue[k].doc = d
               \/ \E w \in Range(c.todo) : w.kind = "document" /\ w.id = d
    <3>1. CASE d = r.doc
      BY <3>1, <2>6, <2>7, <2>9
    <3>2. CASE d # r.doc
      <4>1. Range(todo) = {}
        BY <1>3 DEF BInv, Range
      <4>2. PICK k \in DOMAIN queue : queue[k].doc = d
        BY <4>1, <2>9 DEF BInv, Awaited
      <4>3. k # 1
        BY <4>2, <3>2, <2>2
      <4>4. QED
        BY <4>2, <4>3 DEF Waits
    <3>3. QED
      BY <3>1, <3>2
  <2>10. QED
    BY <2>8, <2>9 DEF Awaited
<1>17. QED
  <2>1. (~running => todo = <<>>)'
    BY <1>8
  <2>2. Capped(Now)' /\ Capped(Db)' /\ Unsent(Db, Now, Range(todo))'
    BY <1>8, <1>11, <1>13, <1>14, <1>15 DEF BInv
  <2>3. Awaited(docs, queue, Range(todo), running)'
    BY <1>8, <1>16
  <2>4. QED
    BY <2>1, <2>2, <2>3, <1>10 DEF BInv

\* An item that is stored is one less to be sent.
LEMMA BCommitItem ==
  ASSUME BInv, CommitItem
  PROVE  BInv'
<1>1. TypeOK /\ TypeOK' /\ todo # <<>> /\ running /\ todo \in Seq(Write)
  BY CommitItemStep DEF BInv, CommitItem, TypeOK
<1>2. PICK w : w = Head(todo)
  OBVIOUS
<1>3. PICK V : V = Range(Tail(todo))
  OBVIOUS
<1>4. w \in Write /\ Range(todo) = {w} \cup V
  BY <1>1, <1>2, <1>3, RangeTail
<1>5. /\ w.kind = "interval" => w.id \in Ids
      /\ w.kind = "scope" => w.id \in Scopes
      /\ w.kind = "document" => w.id \in Docs /\ w.value \in Document
  BY <1>4 DEF Write
<1>6. /\ interval' = IF w.kind = "interval"
                     THEN [interval EXCEPT ![w.id] = t_interval[w.id]] ELSE interval
      /\ scope' = IF w.kind = "scope"
                  THEN [scope EXCEPT ![w.id] = t_scope[w.id]] ELSE scope
      /\ docs' = IF w.kind = "document" THEN [docs EXCEPT ![w.id] = w.value] ELSE docs
      /\ todo' = Tail(todo)
      /\ UNCHANGED <<setting, queue, t_interval, t_scope, running, saves, crashes, whole>>
  BY <1>2 DEF CommitItem
<1>7. PICK e : e = Db'
  OBVIOUS
<1>8. /\ e.iv = interval' /\ e.sc = scope' /\ Now' = Now
      /\ Db.iv = interval /\ Db.sc = scope /\ Now.iv = t_interval /\ Now.sc = t_scope
  BY <1>6, <1>7 DEF Db, Now
<1>9. /\ interval \in [Ids -> Interval] /\ t_interval \in [Ids -> Interval]
      /\ scope \in [Scopes -> SUBSET Ids] /\ t_scope \in [Scopes -> SUBSET Ids]
  BY <1>1 DEF TypeOK
<1>10. /\ \A i \in Ids : e.iv[i] = Db.iv[i] \/ e.iv[i] = Now.iv[i]
       /\ w.kind = "interval" => e.iv[w.id] = Now.iv[w.id]
       /\ \A i \in Ids : ~(w.kind = "interval" /\ i = w.id) => e.iv[i] = Db.iv[i]
  BY <1>5, <1>6, <1>8, <1>9
<1>11. /\ w.kind = "scope" => e.sc[w.id] = Now.sc[w.id]
       /\ \A t \in Scopes : ~(w.kind = "scope" /\ t = w.id) => e.sc[t] = Db.sc[t]
  BY <1>5, <1>6, <1>8, <1>9
<1>12. Capped(e)
  <2>1. PICK M \in Nat : \A i \in Ids : Db.iv[i].e <= M
    BY DEF BInv, Capped
  <2>2. PICK N \in Nat : \A i \in Ids : Now.iv[i].e <= N
    BY DEF BInv, Capped
  <2>3. \A i \in Ids : Db.iv[i].e \in Nat /\ Now.iv[i].e \in Nat
    BY <1>8, <1>9 DEF Interval
  <2>4. \A i \in Ids : e.iv[i].e <= M + N
    BY <2>1, <2>2, <2>3, <1>10
  <2>5. M + N \in Nat
    OBVIOUS
  <2>6. QED
    BY <2>4, <2>5 DEF Capped
<1>13. Unsent(e, Now, V)
  <2>1. ASSUME NEW t \in Scopes PROVE Now.sc[t] = e.sc[t] \/ PutScope(t) \in V
    <3>1. Now.sc[t] = Db.sc[t] \/ PutScope(t) \in Range(todo)
      BY DEF BInv, Unsent
    <3>2. PutScope(t) = w => w.kind = "scope" /\ w.id = t
      BY DEF PutScope
    <3>3. QED
      BY <3>1, <3>2, <1>4, <1>11
  <2>2. ASSUME NEW t \in Scopes, NEW i \in Now.sc[t]
        PROVE  Now.iv[i] = e.iv[i] \/ PutInterval(i) \in V
    <3>1. Now.iv[i] = Db.iv[i] \/ PutInterval(i) \in Range(todo)
      BY DEF BInv, Unsent
    <3>2. PutInterval(i) = w => w.kind = "interval" /\ w.id = i
      BY DEF PutInterval
    <3>3. i \in Ids
      BY <1>8, <1>9
    <3>4. QED
      BY <3>1, <3>2, <3>3, <1>4, <1>10
  <2>3. QED
    BY <2>1, <2>2 DEF Unsent
<1>14. Awaited(docs', queue, V, running)
  <2>1. \A x \in V : x.kind = "document" => running /\ x.id = queue[1].doc /\ x.value.num # 0
    BY <1>4 DEF BInv, Awaited
  <2>2. ASSUME NEW d \in Docs, docs'[d].there /\ docs'[d].num = 0
        PROVE  \/ \E k \in DOMAIN queue : Waits(running, k) /\ queue[k].doc = d
               \/ \E x \in V : x.kind = "document" /\ x.id = d
    <3>1. ~(w.kind = "document" /\ w.id = d)
      <4> SUFFICES ASSUME w.kind = "document", w.id = d PROVE FALSE
        OBVIOUS
      <4>1. docs'[d] = w.value
        BY <1>1, <1>6 DEF TypeOK
      <4>2. w.value.num # 0
        BY <1>4 DEF BInv, Awaited
      <4>3. QED
        BY <4>1, <4>2, <2>2
    <3>2. docs'[d] = docs[d]
      BY <3>1, <1>1, <1>5, <1>6 DEF TypeOK
    <3>3. \/ \E k \in DOMAIN queue : Waits(running, k) /\ queue[k].doc = d
          \/ \E x \in Range(todo) : x.kind = "document" /\ x.id = d
      BY <3>2, <2>2 DEF BInv, Awaited
    <3>4. QED
      BY <3>1, <3>3, <1>4
  <2>3. QED
    BY <2>1, <2>2 DEF Awaited
<1>15. QED
  <2>1. (~running => todo = <<>>)'
    BY <1>1, <1>6
  <2>2. Capped(Now)' /\ Capped(Db)' /\ Unsent(Db, Now, Range(todo))'
    BY <1>3, <1>6, <1>7, <1>8, <1>12, <1>13 DEF BInv
  <2>3. Awaited(docs, queue, Range(todo), running)'
    BY <1>3, <1>6, <1>14
  <2>4. QED
    BY <2>1, <2>2, <2>3, <1>1 DEF BInv

\* A record that is done with leaves nothing to be sent.
LEMMA BFinish ==
  ASSUME BInv, Finish
  PROVE  BInv'
<1>1. TypeOK /\ TypeOK'
  BY FinishStep DEF BInv
<1>2. /\ running /\ todo = <<>> /\ queue' = Tail(queue) /\ running' = FALSE
      /\ UNCHANGED <<docs, interval, scope, t_interval, t_scope, todo>>
  BY DEF Finish, numeration
<1>3. queue # <<>> /\ queue \in Seq([doc: Docs, prev: Document])
  BY <1>1, <1>2 DEF TypeOK
<1>4. \A k \in DOMAIN queue : k # 1 => k - 1 \in DOMAIN queue' /\ queue'[k - 1] = queue[k]
  BY <1>2, <1>3
<1>5. Range(todo) = {}
  BY <1>2 DEF Range
<1>6. Awaited(docs, queue', Range(todo), FALSE)
  <2>1. ASSUME NEW d \in Docs, docs[d].there /\ docs[d].num = 0
        PROVE  \E k \in DOMAIN queue' : Waits(FALSE, k) /\ queue'[k].doc = d
    <3>1. PICK k \in DOMAIN queue : Waits(running, k) /\ queue[k].doc = d
      BY <2>1, <1>5 DEF BInv, Awaited
    <3>2. k - 1 \in DOMAIN queue' /\ queue'[k - 1].doc = d
      BY <3>1, <1>2, <1>4 DEF Waits
    <3>3. QED
      BY <3>2 DEF Waits
  <2>2. QED
    BY <2>1, <1>5 DEF Awaited
<1>7. Now' = Now /\ Db' = Db /\ todo' = todo
  BY <1>2 DEF Now, Db
<1>8. QED
  BY <1>1, <1>2, <1>6, <1>7 DEF BInv

\* After a crash the script sees the database, and the record in hand waits.
LEMMA BCrash ==
  ASSUME BInv, Crash
  PROVE  BInv'
<1>1. TypeOK /\ running
  BY DEF BInv, Crash
<1>2. /\ crashes' = crashes + 1 /\ whole' = FALSE /\ t_interval' = interval
      /\ t_scope' = scope /\ todo' = <<>> /\ running' = FALSE
      /\ UNCHANGED <<setting, docs, queue, interval, scope, saves>>
  BY DEF Crash
<1>3. TypeOK'
  <2>1. crashes + 1 \in Nat /\ <<>> \in Seq(Write)
    BY <1>1 DEF TypeOK
  <2>2. crashes' \in Nat /\ todo' \in Seq(Write)
    BY <2>1, <1>2
  <2>3. /\ running' = FALSE /\ whole' = FALSE
        /\ t_interval' \in [Ids -> Interval] /\ t_scope' \in [Scopes -> SUBSET Ids]
    BY <1>1, <1>2 DEF TypeOK
  <2>4. /\ setting' \in Settings /\ docs' \in [Docs -> Document]
        /\ queue' \in Seq([doc: Docs, prev: Document])
        /\ interval' \in [Ids -> Interval] /\ scope' \in [Scopes -> SUBSET Ids]
        /\ saves' \in 0 .. MaxSave
    BY <1>1, <1>2 DEF TypeOK
  <2>5. QED
    BY <2>2, <2>3, <2>4 DEF TypeOK
<1>4. Now' = Db /\ Db' = Db
  BY <1>2 DEF Now, Db
<1>5. Unsent(Db, Db, Range(todo'))
  BY DEF Unsent
<1>6. Range(todo') = {}
  BY <1>2 DEF Range
<1>7. queue # <<>> /\ 1 \in DOMAIN queue
  BY <1>1 DEF TypeOK
<1>8. Awaited(docs, queue, Range(todo'), FALSE)
  <2>1. ASSUME NEW d \in Docs, docs[d].there /\ docs[d].num = 0
        PROVE  \E k \in DOMAIN queue : Waits(FALSE, k) /\ queue[k].doc = d
    <3>1. \/ \E k \in DOMAIN queue : Waits(running, k) /\ queue[k].doc = d
          \/ \E w \in Range(todo) : w.kind = "document" /\ w.id = d
      BY <2>1 DEF BInv, Awaited
    <3>2. \A w \in Range(todo) : w.kind = "document" => w.id = queue[1].doc
      BY DEF BInv, Awaited
    <3>3. QED
      BY <3>1, <3>2, <1>7 DEF Waits
  <2>2. QED
    BY <2>1, <1>6 DEF Awaited
<1>9. QED
  BY <1>2, <1>3, <1>4, <1>5, <1>8 DEF BInv

\* The invariant holds in every state.
LEMMA BInvariant == Spec => []BInv
<1>1. BInv /\ [Next]_vars => BInv'
  <2> SUFFICES ASSUME BInv, [Next]_vars PROVE BInv'
    OBVIOUS
  <2>1. CASE \E d \in Docs, del \in BOOLEAN, s \in setting.scopes :
               \E n \in setting.typed \cup {0, docs[d].num} :
                 Save(d, [there |-> TRUE, num |-> n, deleted |-> del, scope |-> s])
    BY <2>1, BSave
  <2>2. CASE Numerate
    BY <2>2, BNumerate
  <2>3. CASE CommitItem
    BY <2>3, BCommitItem
  <2>4. CASE Finish
    BY <2>4, BFinish
  <2>5. CASE Crash
    BY <2>5, BCrash
  <2>6. CASE UNCHANGED vars
    <3>1. /\ Now' = Now /\ Db' = Db /\ todo' = todo /\ running' = running
          /\ docs' = docs /\ queue' = queue
      BY <2>6 DEF vars, numeration, Now, Db
    <3>2. TypeOK'
      BY <2>6 DEF BInv, TypeOK, vars, numeration
    <3>3. QED
      BY <3>1, <3>2 DEF BInv
  <2>7. QED
    BY <2>1, <2>2, <2>3, <2>4, <2>5, <2>6 DEF Next
<1>2. QED
  BY <1>1, BInit, PTL DEF Spec

\* Every variable has its type in every state, over any number of crashes: no
\* run of numerate() makes an interval without an end or a list of what is no
\* interval, also not from the intervals that a half sent transaction left.
THEOREM TypeTheorem == Spec => []TypeOK
<1>1. BInv => TypeOK
  BY DEF BInv
<1>2. QED
  BY <1>1, BInvariant, PTL

\* The transaction of commitValue() and revokeValue() holds every change they
\* made: when it is sent the database is what the script saw, over crashes too.
THEOREM SentTheorem == Spec => []SentIsSeen
<1>1. BInv => SentIsSeen
  <2> SUFFICES ASSUME BInv, todo = <<>>
               PROVE  scope = t_scope /\
                      \A s \in Scopes : \A i \in scope[s] : interval[i] = t_interval[i]
    BY DEF SentIsSeen
  <2>1. Range(todo) = {}
    BY DEF Range
  <2>2. /\ \A t \in Scopes : t_scope[t] = scope[t]
        /\ \A t \in Scopes : \A i \in t_scope[t] : t_interval[i] = interval[i]
    BY <2>1 DEF BInv, Unsent, Now, Db
  <2>3. scope = t_scope
    BY <2>2 DEF BInv, TypeOK
  <2>4. QED
    BY <2>2, <2>3
<1>2. QED
  BY <1>1, BInvariant, PTL

\* When no record is left every document has a number, whatever users type,
\* clear or save while the script runs, and wherever the process dies.
THEOREM NumberedTheorem == Spec => []AllNumbered
<1>1. BInv => AllNumbered
  <2> SUFFICES ASSUME BInv, queue = <<>>, NEW d \in Docs, docs[d].there, docs[d].num = 0
               PROVE  FALSE
    BY DEF AllNumbered
  <2>1. ~running /\ Range(todo) = {}
    BY DEF BInv, TypeOK, Range
  <2>2. \E k \in DOMAIN queue : queue[k].doc = d
    BY <2>1 DEF BInv, Awaited
  <2>3. QED
    BY <2>2
<1>2. QED
  BY <1>1, BInvariant, PTL
-----------------------------------------------------------------------------
(* Uniqueness, for users that wait, type no numbers, recover nothing and   *)
(* leave the scope alone, until a crash.                                   *)

\* A document has one record in the queue,
OneRecord(Q) == \A j, k \in DOMAIN Q : Q[j].doc = Q[k].doc => j = k

\* which holds the number, the scope and the deletion that the document had,
Follows(v, p) ==
  /\ v.there
  /\ v.num # 0 => p.num = v.num
  /\ p.there => p.scope = v.scope
  /\ p.deleted => v.deleted
  /\ ~p.there => p.num = 0
Fits(D, Q, hand) == \A k \in DOMAIN Q : Waits(hand, k) => Follows(D[Q[k].doc], Q[k].prev)

\* and the script writes the number alone, to the document in hand.
Written(D, Q, W, hand) ==
  \A w \in W : w.kind = "document" =>
    /\ hand /\ w.id = Q[1].doc /\ w.value.there /\ D[w.id].there
    /\ w.value.deleted = D[w.id].deleted /\ w.value.scope = D[w.id].scope

\* A document that is not there has no number and is not deleted.
Absent(D) == \A d \in Docs : ~D[d].there => D[d].num = 0 /\ ~D[d].deleted

Tidy(D, Q, W, hand) ==
  OneRecord(Q) /\ Fits(D, Q, hand) /\ Written(D, Q, W, hand) /\ Absent(D)

\* The document has the number n, had it before the user cleared it, or is
\* about to get it.
Has(D, Q, W, hand, d, n) ==
  \/ D[d].num = n
  \/ D[d].num = 0 /\ \E k \in DOMAIN Q : Waits(hand, k) /\ Q[k].doc = d /\ Q[k].prev.num = n
  \/ \E w \in W : w.kind = "document" /\ w.id = d /\ w.value.num = n

\* The document is not deleted, or the script does not know yet that it is.
Live(D, Q, hand, d) ==
  /\ D[d].there
  /\ \/ ~D[d].deleted
     \/ \E k \in DOMAIN Q : /\ Waits(hand, k) /\ Q[k].doc = d
                            /\ Q[k].prev.there /\ ~Q[k].prev.deleted

Owns(D, Q, W, hand, d, n) == Live(D, Q, hand, d) /\ Has(D, Q, W, hand, d, n)

\* A number that a document owns is committed, and no other document of the
\* scope owns it.
Alone(D, Q, W, hand, st) ==
  /\ \A d \in Docs, n \in Nat \ {0} :
       Owns(D, Q, W, hand, d, n) => Taken(st, D[d].scope, n)
  /\ \A c, d \in Docs, n \in Nat \ {0} :
       /\ Owns(D, Q, W, hand, c, n) /\ Owns(D, Q, W, hand, d, n)
       /\ D[c].scope = D[d].scope
       => c = d

GInv ==
  whole /\ Gentle(setting) =>
    /\ Tidy(docs, queue, Range(todo), running)
    /\ Alone(docs, queue, Range(todo), running, Now)

Records == Seq([doc: Docs, prev: Document])

\* A record of the queue.
LEMMA RecordType ==
  ASSUME NEW Q \in Records, NEW k \in DOMAIN Q
  PROVE  Q[k].doc \in Docs /\ Q[k].prev \in Document
<1>1. \A R : \A x \in Seq(R) : \A j \in DOMAIN x : x[j] \in R
  OBVIOUS
<1>2. Q[k] \in [doc: Docs, prev: Document]
  BY <1>1 DEF Records
<1>3. QED
  BY <1>2

\* Fewer owners are alone as well.
LEMMA FewerOwners ==
  ASSUME NEW D, NEW Q, NEW W, NEW hand, NEW E, NEW P, NEW V, NEW hold, NEW st,
         Alone(D, Q, W, hand, st),
         \A d \in Docs, n \in Nat \ {0} : Owns(E, P, V, hold, d, n) =>
           Owns(D, Q, W, hand, d, n) /\ E[d].scope = D[d].scope
  PROVE  Alone(E, P, V, hold, st)
  BY DEF Alone

\* A user saves a document that has no record.
LEMMA GentleSave ==
  ASSUME NEW D \in [Docs -> Document], NEW Q \in Records, NEW W, NEW hand \in BOOLEAN,
         NEW st, hand => Q # <<>>, Tidy(D, Q, W, hand), Alone(D, Q, W, hand, st),
         NEW d \in Docs, \A k \in DOMAIN Q : Q[k].doc # d,
         NEW E, \A c \in Docs : c # d => E[c] = D[c],
         E[d].there, E[d].num = 0 \/ E[d].num = D[d].num,
         D[d].deleted => E[d].deleted, D[d].there => E[d].scope = D[d].scope,
         NEW P, P = Append(Q, [doc |-> d, prev |-> D[d]])
  PROVE  Tidy(E, P, W, hand) /\ Alone(E, P, W, hand, st)
<1>1. PICK L : L = Len(Q) + 1
  OBVIOUS
<1>2. /\ DOMAIN P = 1 .. L /\ L \in DOMAIN P /\ P[L].doc = d /\ P[L].prev = D[d]
      /\ \A k \in DOMAIN Q : k \in DOMAIN P /\ P[k] = Q[k] /\ k # L
      /\ \A k \in DOMAIN P : k # L => k \in DOMAIN Q
      /\ hand => 1 \in DOMAIN Q
  BY <1>1 DEF Records
<1>3. Waits(hand, L)
  BY <1>2 DEF Waits
<1>4. \A w \in W : w.kind = "document" => w.id # d /\ w.id \in Docs
  <2> SUFFICES ASSUME NEW w \in W, w.kind = "document" PROVE w.id # d /\ w.id \in Docs
    OBVIOUS
  <2>1. hand /\ w.id = Q[1].doc
    BY DEF Tidy, Written
  <2>2. Q[1].doc \in Docs
    BY <2>1, <1>2, RecordType
  <2>3. QED
    BY <2>1, <2>2, <1>2
<1>5. \A k \in DOMAIN Q : Q[k].doc \in Docs
  BY RecordType
<1>6. D[d] \in Document /\ D[d].num \in Nat
  BY DEF Document
<1>7. Tidy(E, P, W, hand)
  <2>1. OneRecord(P)
    <3> SUFFICES ASSUME NEW j \in DOMAIN P, NEW k \in DOMAIN P, P[j].doc = P[k].doc
                 PROVE  j = k
      BY DEF OneRecord
    <3>1. CASE j = L \/ k = L
      BY <3>1, <1>2
    <3>2. CASE j # L /\ k # L
      BY <3>2, <1>2 DEF Tidy, OneRecord
    <3>3. QED
      BY <3>1, <3>2
  <2>2. Fits(E, P, hand)
    <3> SUFFICES ASSUME NEW k \in DOMAIN P, Waits(hand, k)
                 PROVE  Follows(E[P[k].doc], P[k].prev)
      BY DEF Fits
    <3>1. CASE k = L
      <4>1. P[k].doc = d /\ P[k].prev = D[d]
        BY <3>1, <1>2
      <4>2. Follows(E[d], D[d])
        BY DEF Follows, Tidy, Absent
      <4>3. QED
        BY <4>1, <4>2
    <3>2. CASE k # L
      <4>1. k \in DOMAIN Q /\ P[k] = Q[k] /\ Q[k].doc # d /\ Q[k].doc \in Docs
        BY <3>2, <1>2, <1>5
      <4>2. E[Q[k].doc] = D[Q[k].doc]
        BY <4>1
      <4>3. QED
        BY <4>1, <4>2 DEF Tidy, Fits
    <3>3. QED
      BY <3>1, <3>2
  <2>3. Written(E, P, W, hand)
    <3> SUFFICES ASSUME NEW w \in W, w.kind = "document"
                 PROVE  /\ hand /\ w.id = P[1].doc /\ w.value.there /\ E[w.id].there
                        /\ w.value.deleted = E[w.id].deleted /\ w.value.scope = E[w.id].scope
      BY DEF Written
    <3>1. /\ hand /\ w.id = Q[1].doc /\ w.value.there /\ D[w.id].there
          /\ w.value.deleted = D[w.id].deleted /\ w.value.scope = D[w.id].scope
      BY DEF Tidy, Written
    <3>2. E[w.id] = D[w.id] /\ P[1] = Q[1]
      BY <3>1, <1>2, <1>4
    <3>3. QED
      BY <3>1, <3>2
  <2>4. Absent(E)
    BY DEF Tidy, Absent
  <2>5. QED
    BY <2>1, <2>2, <2>3, <2>4 DEF Tidy
<1>8. ASSUME NEW c \in Docs, NEW n \in Nat \ {0}, Owns(E, P, W, hand, c, n)
      PROVE  Owns(D, Q, W, hand, c, n) /\ E[c].scope = D[c].scope
  <2>1. CASE c = d
    <3>1. \A k \in DOMAIN P : P[k].doc = d => k = L
      BY <1>2
    <3>2. ~\E w \in W : w.kind = "document" /\ w.id = d
      BY <1>4
    <3>3. D[d].num = n
      BY <2>1, <3>1, <3>2, <1>2, <1>8 DEF Owns, Has
    <3>4. D[d].there
      BY <3>3 DEF Tidy, Absent
    <3>5. ~D[d].deleted
      BY <2>1, <3>1, <1>2, <1>8 DEF Owns, Live
    <3>6. QED
      BY <2>1, <3>3, <3>4, <3>5 DEF Owns, Live, Has
  <2>2. CASE c # d
    <3>1. E[c] = D[c]
      BY <2>2
    <3>2. \A k \in DOMAIN P : P[k].doc = c => k \in DOMAIN Q /\ P[k] = Q[k]
      BY <2>2, <1>2
    <3>3. Live(D, Q, hand, c)
      BY <3>1, <3>2, <1>8 DEF Owns, Live
    <3>4. Has(D, Q, W, hand, c, n)
      BY <3>1, <3>2, <1>8 DEF Owns, Has
    <3>5. QED
      BY <3>1, <3>3, <3>4 DEF Owns
  <2>3. QED
    BY <2>1, <2>2
<1>9. Alone(E, P, W, hand, st)
  BY <1>8, FewerOwners
<1>10. QED
  BY <1>7, <1>9

\* An item of the transaction that is stored.  If it is a document, its number
\* was owned before.
LEMMA GentleItem ==
  ASSUME NEW D \in [Docs -> Document], NEW Q \in Records, NEW W, NEW hand \in BOOLEAN,
         NEW st, Q # <<>>, hand, Tidy(D, Q, W, hand), Alone(D, Q, W, hand, st),
         NEW w \in W, NEW V \in SUBSET W,
         NEW E, w.kind # "document" => E = D,
         w.kind = "document" => /\ E[w.id] = w.value
                                /\ \A c \in Docs : c # w.id => E[c] = D[c]
  PROVE  Tidy(E, Q, V, hand) /\ Alone(E, Q, V, hand, st)
<1>1. CASE w.kind # "document"
  <2>1. E = D /\ V \subseteq W
    BY <1>1
  <2>2. Tidy(E, Q, V, hand)
    BY <2>1 DEF Tidy, Written
  <2>3. \A c \in Docs, n \in Nat \ {0} : Owns(E, Q, V, hand, c, n) =>
          Owns(D, Q, W, hand, c, n) /\ E[c].scope = D[c].scope
    <3> SUFFICES ASSUME NEW c \in Docs, NEW n \in Nat \ {0}, Owns(E, Q, V, hand, c, n)
                 PROVE  Owns(D, Q, W, hand, c, n)
      BY <2>1
    <3>1. Has(D, Q, W, hand, c, n)
      BY <2>1 DEF Owns, Has
    <3>2. Live(D, Q, hand, c)
      BY <2>1 DEF Owns
    <3>3. QED
      BY <3>1, <3>2 DEF Owns
  <2>4. QED
    BY <2>2, <2>3, FewerOwners
<1>2. CASE w.kind = "document"
  <2>1. /\ w.id = Q[1].doc /\ w.value.there /\ D[w.id].there
        /\ w.value.deleted = D[w.id].deleted /\ w.value.scope = D[w.id].scope
    BY <1>2 DEF Tidy, Written
  <2>2. PICK d : d = w.id
    OBVIOUS
  <2>3. 1 \in DOMAIN Q /\ d = Q[1].doc
    BY <2>1, <2>2 DEF Records
  <2>4. d \in Docs
    BY <2>3, RecordType
  <2>5. /\ E[d].there /\ E[d].num = w.value.num
        /\ E[d].deleted = D[d].deleted /\ E[d].scope = D[d].scope
        /\ \A c \in Docs : c # d => E[c] = D[c]
    BY <2>1, <2>2, <1>2
  <2>6. \A k \in DOMAIN Q : Waits(hand, k) => Q[k].doc # d /\ Q[k].doc \in Docs
    <3> SUFFICES ASSUME NEW k \in DOMAIN Q, Waits(hand, k)
                 PROVE  Q[k].doc # d /\ Q[k].doc \in Docs
      OBVIOUS
    <3>1. k # 1
      BY DEF Waits
    <3>2. Q[k].doc # d
      BY <3>1, <2>3 DEF Tidy, OneRecord
    <3>3. QED
      BY <3>2, RecordType
  <2>7. ASSUME NEW c \in Docs, NEW n \in Nat \ {0}, Owns(E, Q, V, hand, c, n)
        PROVE  Owns(D, Q, W, hand, c, n) /\ E[c].scope = D[c].scope
    <3>1. CASE c = d
      <4>1. \E x \in W : x.kind = "document" /\ x.id = d /\ x.value.num = n
        BY <3>1, <2>2, <2>5, <2>6, <2>7, <1>2 DEF Owns, Has
      <4>2. Has(D, Q, W, hand, d, n)
        BY <4>1 DEF Has
      <4>3. Live(D, Q, hand, d)
        BY <3>1, <2>1, <2>2, <2>5, <2>7 DEF Owns, Live
      <4>4. QED
        BY <3>1, <4>2, <4>3, <2>5 DEF Owns
    <3>2. CASE c # d
      <4>1. E[c] = D[c] /\ V \subseteq W
        BY <3>2, <2>5
      <4>2. Live(D, Q, hand, c)
        BY <4>1, <2>7 DEF Owns, Live
      <4>3. Has(D, Q, W, hand, c, n)
        BY <4>1, <2>7 DEF Owns, Has
      <4>4. QED
        BY <4>1, <4>2, <4>3 DEF Owns
    <3>3. QED
      BY <3>1, <3>2
  <2>8. Tidy(E, Q, V, hand)
    <3>1. Fits(E, Q, hand)
      BY <2>5, <2>6 DEF Tidy, Fits
    <3>2. Written(E, Q, V, hand)
      <4> SUFFICES ASSUME NEW x \in V, x.kind = "document"
                   PROVE  /\ hand /\ x.id = Q[1].doc /\ x.value.there /\ E[x.id].there
                          /\ x.value.deleted = E[x.id].deleted
                          /\ x.value.scope = E[x.id].scope
        BY DEF Written
      <4>1. /\ x.id = Q[1].doc /\ x.value.there
            /\ x.value.deleted = D[x.id].deleted /\ x.value.scope = D[x.id].scope
        BY DEF Tidy, Written
      <4>2. QED
        BY <4>1, <2>3, <2>5
    <3>3. Absent(E)
      BY <2>5 DEF Tidy, Absent
    <3>4. QED
      BY <3>1, <3>2, <3>3 DEF Tidy
  <2>9. Alone(E, Q, V, hand, st)
    BY <2>7, FewerOwners
  <2>10. QED
    BY <2>8, <2>9
<1>3. QED
  BY <1>1, <1>2

\* The record in hand is taken from the queue when all is sent.
LEMMA GentleFinish ==
  ASSUME NEW D \in [Docs -> Document], NEW Q \in Records, NEW st, Q # <<>>,
         Tidy(D, Q, {}, TRUE), Alone(D, Q, {}, TRUE, st), NEW P, P = Tail(Q)
  PROVE  Tidy(D, P, {}, FALSE) /\ Alone(D, P, {}, FALSE, st)
<1>1. \A k \in DOMAIN P : k + 1 \in DOMAIN Q /\ P[k] = Q[k + 1] /\ Waits(TRUE, k + 1)
  BY DEF Records, Waits
<1>2. \A j, k \in DOMAIN P : j + 1 = k + 1 => j = k
  BY DEF Records
<1>3. OneRecord(P)
  BY <1>1, <1>2 DEF Tidy, OneRecord
<1>4. Fits(D, P, FALSE)
  BY <1>1 DEF Tidy, Fits
<1>5. Tidy(D, P, {}, FALSE)
  BY <1>3, <1>4 DEF Tidy, Written
<1>6. ASSUME NEW c \in Docs, NEW n \in Nat \ {0}, Owns(D, P, {}, FALSE, c, n)
      PROVE  Owns(D, Q, {}, TRUE, c, n)
  <2>1. Live(D, Q, TRUE, c)
    BY <1>1, <1>6 DEF Owns, Live
  <2>2. Has(D, Q, {}, TRUE, c, n)
    BY <1>1, <1>6 DEF Owns, Has
  <2>3. QED
    BY <2>1, <2>2 DEF Owns
<1>7. Alone(D, P, {}, FALSE, st)
  BY <1>6, FewerOwners
<1>8. QED
  BY <1>5, <1>7

\* What numerate() does for a document of gentle users: a number that is not
\* committed is given to one that has none, the old one is put back, or the
\* number of one that is now deleted is freed.
LEMMA GentleCases ==
  ASSUME NEW st, NEW d, NEW cur \in Document, NEW prev \in Document, Follows(cur, prev),
         NEW c, c = numerate(st, d, cur, prev)
  PROVE  \/ cur.num = 0 /\ prev.num = 0 /\ c = GiveNumber(st, d, cur)
         \/ cur.num = 0 /\ prev.num # 0 /\ c = Restore(st, d, cur, prev)
         \/ cur.num # 0 /\ c = st
         \/ /\ cur.num # 0 /\ c = revokeValue(st, cur.scope, cur.num)
            /\ prev.num = cur.num /\ prev.there /\ cur.deleted /\ ~prev.deleted
<1>1. /\ cur.deleted \in BOOLEAN /\ prev.deleted \in BOOLEAN
      /\ cur.there \in BOOLEAN /\ prev.there \in BOOLEAN
  BY DEF Document
<1>2. CASE cur.num = 0
  BY <1>2 DEF numerate, NothingChanged
<1>3. CASE cur.num # 0
  <2>1. prev.num = cur.num /\ prev.there
    BY <1>3 DEF Follows
  <2>2. CASE cur.deleted = prev.deleted
    BY <1>3, <2>1, <2>2 DEF numerate, NothingChanged
  <2>3. CASE cur.deleted # prev.deleted
    <3>1. cur.deleted /\ ~prev.deleted
      BY <2>3, <1>1 DEF Follows
    <3>2. c = revokeValue(st, cur.scope, cur.num)
      BY <3>1, <1>3, <2>1, <2>3 DEF numerate, NothingChanged
    <3>3. QED
      BY <3>1, <3>2, <1>3, <2>1
  <2>4. QED
    BY <2>2, <2>3
<1>4. QED
  BY <1>2, <1>3

\* A run of the script.
LEMMA GentleNumerate ==
  ASSUME NEW D \in [Docs -> Document], NEW Q \in Records, Q # <<>>,
         NEW st, Sound(st), Bounded(st),
         NEW v \in Unused(st), NEW w \in Unused(st), v # w,
         Tidy(D, Q, {}, FALSE), Alone(D, Q, {}, FALSE, st),
         NEW d, d = Q[1].doc, NEW c, c = numerate(st, d, D[d], Q[1].prev),
         DocumentWrites(st, c, d, D[d], Q[1].prev), NEW W, W = Range(c.todo)
  PROVE  Tidy(D, Q, W, TRUE) /\ Alone(D, Q, W, TRUE, c)
<1>1. 1 \in DOMAIN Q
  BY DEF Records
<1>2. PICK cur, prev : cur = D[d] /\ prev = Q[1].prev
  OBVIOUS
<1>3. d \in Docs /\ cur \in Document /\ prev \in Document
  BY <1>1, <1>2, RecordType
<1>4. Follows(cur, prev)
  BY <1>1, <1>2 DEF Tidy, Fits, Waits
<1>5. \A k \in DOMAIN Q : Q[k].doc = d => k = 1
  BY <1>1 DEF Tidy, OneRecord
<1>6. PICK n : n = NumberOf(st, cur, prev)
  OBVIOUS
<1>7. /\ cur.num \in Nat /\ prev.num \in Nat /\ cur.scope \in Scopes
      /\ cur.deleted \in BOOLEAN /\ cur.there = TRUE
  BY <1>3, <1>4 DEF Document, Follows
<1>8. ASSUME NEW x \in W, x.kind = "document"
      PROVE  /\ cur.num = 0 /\ x.id = d /\ x.value.num = n
             /\ x.value.there = TRUE /\ x.value.deleted = cur.deleted
             /\ x.value.scope = cur.scope
  <2>1. PICK y : y = [cur EXCEPT !.num = n]
    OBVIOUS
  <2>2. /\ y.num = n /\ y.there = TRUE /\ y.deleted = cur.deleted
        /\ y.scope = cur.scope
    BY <2>1, <1>3, <1>7 DEF Document
  <2>3. cur.num = 0 /\ x = PutDocument(d, y)
    BY <2>1, <1>2, <1>6, <1>8 DEF DocumentWrites
  <2>4. QED
    BY <2>2, <2>3 DEF PutDocument
<1>9. Tidy(D, Q, W, TRUE)
  <2>1. Fits(D, Q, TRUE)
    BY DEF Tidy, Fits, Waits
  <2>2. Written(D, Q, W, TRUE)
    <3> SUFFICES ASSUME NEW x \in W, x.kind = "document"
                 PROVE  /\ TRUE /\ x.id = Q[1].doc /\ x.value.there /\ D[x.id].there
                        /\ x.value.deleted = D[x.id].deleted /\ x.value.scope = D[x.id].scope
      BY DEF Written
    <3>1. /\ x.id = d /\ x.value.there = TRUE /\ x.value.deleted = cur.deleted
          /\ x.value.scope = cur.scope
      BY <1>8
    <3>2. QED
      BY <3>1, <1>2, <1>7
  <2>3. QED
    BY <2>1, <2>2 DEF Tidy
<1>10. ASSUME NEW x \in Docs, x # d, NEW m \in Nat \ {0}, Owns(D, Q, W, TRUE, x, m)
       PROVE  Owns(D, Q, {}, FALSE, x, m)
  <2>1. Live(D, Q, FALSE, x)
    BY <1>10 DEF Owns, Live, Waits
  <2>2. Has(D, Q, {}, FALSE, x, m)
    BY <1>8, <1>10 DEF Owns, Has, Waits
  <2>3. QED
    BY <2>1, <2>2 DEF Owns
<1>11. ASSUME NEW m \in Nat \ {0}, Owns(D, Q, W, TRUE, d, m)
       PROVE  ~cur.deleted /\ (cur.num = m \/ (cur.num = 0 /\ m = n))
  <2>1. ~cur.deleted
    BY <1>2, <1>5, <1>11 DEF Owns, Live, Waits
  <2>2. cur.num = m \/ (cur.num = 0 /\ m = n)
    BY <1>2, <1>5, <1>8, <1>11 DEF Owns, Has, Waits
  <2>3. QED
    BY <2>1, <2>2
<1>12. \/ cur.num = 0 /\ prev.num = 0 /\ c = GiveNumber(st, d, cur)
       \/ cur.num = 0 /\ prev.num # 0 /\ c = Restore(st, d, cur, prev)
       \/ cur.num # 0 /\ c = st
       \/ /\ cur.num # 0 /\ c = revokeValue(st, cur.scope, cur.num)
          /\ prev.num = cur.num /\ prev.there /\ cur.deleted /\ ~prev.deleted
  <2>1. c = numerate(st, d, cur, prev)
    BY <1>2
  <2>2. QED
    BY <2>1, <1>3, <1>4, GentleCases
<1>13. CASE /\ cur.num # 0 \/ prev.num # 0
            /\ \A t \in Scopes, m \in Nat : Taken(c, t, m) <=> Taken(st, t, m)
  <2>1. ASSUME NEW x \in Docs, NEW m \in Nat \ {0}, Owns(D, Q, W, TRUE, x, m)
        PROVE  Owns(D, Q, {}, FALSE, x, m)
    <3>1. CASE x # d
      BY <3>1, <2>1, <1>10
    <3>2. CASE x = d
      <4>1. ~cur.deleted /\ (cur.num = m \/ (cur.num = 0 /\ m = n))
        BY <3>2, <2>1, <1>11
      <4>2. Live(D, Q, FALSE, d)
        BY <4>1, <1>2, <1>4 DEF Live, Follows
      <4>3. CASE cur.num = m
        BY <4>2, <4>3, <3>2, <1>2 DEF Owns, Has
      <4>4. CASE cur.num = 0 /\ m = n
        <5>1. m = prev.num
          BY <4>4, <1>6, <1>13 DEF NumberOf
        <5>2. Has(D, Q, {}, FALSE, d, m)
          BY <5>1, <4>4, <1>1, <1>2 DEF Has, Waits
        <5>3. QED
          BY <5>2, <4>2, <3>2 DEF Owns
      <4>5. QED
        BY <4>1, <4>3, <4>4
    <3>3. QED
      BY <3>1, <3>2
  <2>2. Alone(D, Q, W, TRUE, st)
    BY <2>1, FewerOwners
  <2>3. \A x \in Docs : D[x].scope \in Scopes
    BY DEF Document
  <2>4. Alone(D, Q, W, TRUE, c)
    BY <2>2, <2>3, <1>13 DEF Alone
  <2>5. QED
    BY <2>4, <1>9
<1>14. CASE cur.num = 0 /\ prev.num = 0 /\ c = GiveNumber(st, d, cur)
  <2>1. n = getNextValueSimple(st, cur.scope)
    BY <1>6, <1>14 DEF NumberOf
  <2>2. n \in Nat \ {0} /\ ~Taken(st, cur.scope, n)
    BY <2>1, <1>7, NextIsFree
  <2>3. PICK a : a = commitValue(st, cur.scope, n)
    OBVIOUS
  <2>4. /\ Sound(a)
        /\ \A t \in Scopes, m \in Nat :
             Taken(a, t, m) <=> Taken(st, t, m) \/ (t = cur.scope /\ m = n)
    BY <2>2, <2>3, <1>7, CommitSound
  <2>5. PICK y : y = [cur EXCEPT !.num = n]
    OBVIOUS
  <2>6. y \in Document /\ c = AddPut(a, d, y)
    BY <2>1, <2>2, <2>3, <2>5, <1>3, <1>14 DEF GiveNumber, Document
  <2>7. \A t \in Scopes, m \in Nat : Taken(c, t, m) <=> Taken(a, t, m)
    BY <2>4, <2>6, <1>3, AddPutSound
  <2>8. \A t \in Scopes, m \in Nat :
          Taken(c, t, m) <=> Taken(st, t, m) \/ (t = cur.scope /\ m = n)
    BY <2>4, <2>7
  <2>9. \A x \in Docs : D[x].scope \in Scopes
    BY DEF Document
  <2>10. \A m \in Nat \ {0} : Owns(D, Q, W, TRUE, d, m) => m = n
    BY <1>11, <1>14
  <2>11. \A x \in Docs, m \in Nat \ {0} : x # d /\ Owns(D, Q, W, TRUE, x, m) =>
           Taken(st, D[x].scope, m)
    BY <1>10 DEF Alone
  <2>12. ASSUME NEW x \in Docs, NEW m \in Nat \ {0}, Owns(D, Q, W, TRUE, x, m)
         PROVE  Taken(c, D[x].scope, m)
    BY <2>8, <2>9, <2>10, <2>11, <2>12, <1>2
  <2>13. ASSUME NEW x \in Docs, NEW y1 \in Docs, NEW m \in Nat \ {0},
                Owns(D, Q, W, TRUE, x, m), Owns(D, Q, W, TRUE, y1, m),
                D[x].scope = D[y1].scope
         PROVE  x = y1
    <3>1. CASE x = d \/ y1 = d
      BY <3>1, <2>2, <2>10, <2>11, <2>13, <1>2
    <3>2. CASE x # d /\ y1 # d
      BY <3>2, <2>13, <1>10 DEF Alone
    <3>3. QED
      BY <3>1, <3>2
  <2>14. Alone(D, Q, W, TRUE, c)
    BY <2>12, <2>13 DEF Alone
  <2>15. QED
    BY <2>14, <1>9
<1>15. CASE /\ cur.num # 0 /\ c = revokeValue(st, cur.scope, cur.num)
            /\ prev.num = cur.num /\ prev.there /\ cur.deleted /\ ~prev.deleted
  <2>1. \A t \in Scopes, m \in Nat :
          Taken(c, t, m) <=> Taken(st, t, m) /\ ~(t = cur.scope /\ m = cur.num)
    BY <1>7, <1>15, RevokeSound
  <2>2. Owns(D, Q, {}, FALSE, d, cur.num)
    BY <1>1, <1>2, <1>4, <1>15 DEF Owns, Live, Has, Waits, Follows
  <2>3. \A m \in Nat \ {0} : ~Owns(D, Q, W, TRUE, d, m)
    BY <1>11, <1>15
  <2>4. \A x \in Docs : D[x].scope \in Scopes
    BY DEF Document
  <2>5. ASSUME NEW x \in Docs, NEW m \in Nat \ {0}, Owns(D, Q, W, TRUE, x, m)
        PROVE  Taken(c, D[x].scope, m)
    <3>1. x # d /\ Owns(D, Q, {}, FALSE, x, m)
      BY <2>3, <2>5, <1>10
    <3>2. Taken(st, D[x].scope, m)
      BY <3>1 DEF Alone
    <3>3. ~(D[x].scope = cur.scope /\ m = cur.num)
      BY <3>1, <2>2, <1>2, <1>3, <1>7, <1>15 DEF Alone
    <3>4. QED
      BY <3>2, <3>3, <2>1, <2>4
  <2>6. \A x, y \in Docs, m \in Nat \ {0} :
          /\ Owns(D, Q, W, TRUE, x, m) /\ Owns(D, Q, W, TRUE, y, m)
          /\ D[x].scope = D[y].scope
          => x = y
    <3> SUFFICES ASSUME NEW x \in Docs, NEW y \in Docs, NEW m \in Nat \ {0},
                        Owns(D, Q, W, TRUE, x, m), Owns(D, Q, W, TRUE, y, m),
                        D[x].scope = D[y].scope
                 PROVE  x = y
      OBVIOUS
    <3>1. Owns(D, Q, {}, FALSE, x, m) /\ Owns(D, Q, {}, FALSE, y, m)
      BY <2>3, <1>10
    <3>2. QED
      BY <3>1 DEF Alone
  <2>7. Alone(D, Q, W, TRUE, c)
    BY <2>5, <2>6 DEF Alone
  <2>8. QED
    BY <2>7, <1>9
<1>16. CASE cur.num = 0 /\ prev.num # 0 /\ c = Restore(st, d, cur, prev)
  <2>1. PICK y : y = [cur EXCEPT !.num = prev.num]
    OBVIOUS
  <2>2. y \in Document /\ c = AddPut(st, d, y)
    BY <2>1, <1>3, <1>7, <1>16 DEF Restore, Document
  <2>3. \A t \in Scopes, m \in Nat : Taken(c, t, m) <=> Taken(st, t, m)
    BY <2>2, <1>3, AddPutSound
  <2>4. QED
    BY <2>3, <1>13, <1>16
<1>17. QED
  BY <1>12, <1>13, <1>14, <1>15, <1>16

\* The steps, for states in which users are gentle and no crash was.
LEMMA GentleStep ==
  ASSUME NInv, BInv, GInv, whole, whole', Gentle(setting), [Next]_vars
  PROVE  /\ Tidy(docs, queue, Range(todo), running)'
         /\ Alone(docs, queue, Range(todo), running, Now)'
<1>1. /\ Tidy(docs, queue, Range(todo), running)
      /\ Alone(docs, queue, Range(todo), running, Now)
  BY DEF GInv
<1>2. /\ TypeOK /\ docs \in [Docs -> Document] /\ queue \in Records
      /\ running \in BOOLEAN /\ (running => queue # <<>>)
  BY DEF BInv, TypeOK, Records
<1>3. CASE \E d \in Docs, del \in BOOLEAN, s \in setting.scopes :
             \E n \in setting.typed \cup {0, docs[d].num} :
               Save(d, [there |-> TRUE, num |-> n, deleted |-> del, scope |-> s])
  <2>1. PICK d \in Docs, del \in BOOLEAN, s \in setting.scopes :
               \E n \in setting.typed \cup {0, docs[d].num} :
                 Save(d, [there |-> TRUE, num |-> n, deleted |-> del, scope |-> s])
    BY <1>3
  <2>2. PICK n \in setting.typed \cup {0, docs[d].num} :
               Save(d, [there |-> TRUE, num |-> n, deleted |-> del, scope |-> s])
    BY <2>1
  <2>3. /\ \A k \in DOMAIN queue : queue[k].doc # d
        /\ n = 0 \/ n = docs[d].num
        /\ docs[d].deleted => del
        /\ docs[d].there => s = docs[d].scope
    BY <2>2 DEF Save, Gentle
  <2>4. /\ docs' = [docs EXCEPT ![d] =
                      [there |-> TRUE, num |-> n, deleted |-> del, scope |-> s]]
        /\ queue' = Append(queue, [doc |-> d, prev |-> docs[d]])
        /\ UNCHANGED <<t_interval, t_scope, todo, running>>
    BY <2>2 DEF Save, numeration
  <2>5. /\ docs'[d].there /\ docs'[d].num = n /\ docs'[d].deleted = del /\ docs'[d].scope = s
        /\ \A c \in Docs : c # d => docs'[c] = docs[c]
    BY <2>4, <1>2
  <2>6. PICK E, P : E = docs' /\ P = queue'
    OBVIOUS
  <2>7. /\ Tidy(E, P, Range(todo), running)
        /\ Alone(E, P, Range(todo), running, Now)
    <3>1. /\ \A c \in Docs : c # d => E[c] = docs[c]
          /\ E[d].there
          /\ E[d].num = 0 \/ E[d].num = docs[d].num
          /\ docs[d].deleted => E[d].deleted
          /\ docs[d].there => E[d].scope = docs[d].scope
          /\ P = Append(queue, [doc |-> d, prev |-> docs[d]])
      BY <2>3, <2>4, <2>5, <2>6
    <3>2. QED
      BY <3>1, <2>3, <1>1, <1>2, GentleSave
  <2>8. Now' = Now /\ todo' = todo /\ running' = running
    BY <2>4 DEF Now
  <2>9. QED
    BY <2>6, <2>7, <2>8
<1>4. CASE Numerate
  <2>1. PICK d, c : d = queue[1].doc /\ c = numerate(Now, d, docs[d], queue[1].prev)
    OBVIOUS
  <2>2. queue # <<>> /\ running = FALSE /\ todo = <<>> /\ Range(todo) = {}
    BY <1>2, <1>4 DEF Numerate, BInv, Range
  <2>3. /\ Sound(Now) /\ Bounded(Now) /\ Capped(Now) /\ Enough(Now)
        /\ Now \in IvState /\ Now.todo = <<>>
    BY <1>2, <1>4, ViewTypes DEF NInv, BInv, Numerate
  <2>4. 1 \in DOMAIN queue /\ Head(queue) = queue[1]
    BY <2>2, <1>2 DEF Records
  <2>5. d \in Docs /\ queue[1].prev \in Document /\ docs[d] \in Document
    BY <2>1, <2>4, <1>2, RecordType
  <2>6. PICK v \in Unused(Now), w \in Unused(Now) : v # w
    <3>1. docs[d].scope \in Scopes
      BY <2>5 DEF Document
    <3>2. QED
      BY <3>1, <2>3, EnoughTwo
  <2>7. DocumentWrites(Now, c, d, docs[d], queue[1].prev)
    BY <2>1, <2>3, <2>5, NumerateWrote
  <2>8. PICK W : W = Range(c.todo)
    OBVIOUS
  <2>9. Tidy(docs, queue, {}, FALSE) /\ Alone(docs, queue, {}, FALSE, Now)
    BY <2>2, <1>1
  <2>10. Tidy(docs, queue, W, TRUE) /\ Alone(docs, queue, W, TRUE, c)
    BY <2>1, <2>2, <2>3, <2>6, <2>7, <2>8, <2>9, <1>2, GentleNumerate
  <2>11. /\ t_interval' = c.iv /\ t_scope' = c.sc /\ todo' = c.todo
         /\ running' = TRUE /\ docs' = docs /\ queue' = queue
    BY <2>1, <2>4, <1>4 DEF Numerate
  <2>12. PICK q : q = Now'
    OBVIOUS
  <2>13. q.iv = c.iv /\ q.sc = c.sc
    BY <2>11, <2>12 DEF Now
  <2>14. \A t, m : Taken(q, t, m) <=> Taken(c, t, m)
    BY <2>13 DEF Taken, Holds
  <2>15. Alone(docs, queue, W, TRUE, q)
    BY <2>10, <2>14 DEF Alone
  <2>16. QED
    BY <2>8, <2>10, <2>11, <2>12, <2>15
<1>5. CASE CommitItem
  <2>1. todo # <<>> /\ running /\ todo \in Seq(Write) /\ queue # <<>>
    BY <1>2, <1>5 DEF BInv, CommitItem, TypeOK
  <2>2. PICK w, V : w = Head(todo) /\ V = Range(Tail(todo))
    OBVIOUS
  <2>3. w \in Write /\ Range(todo) = {w} \cup V
    BY <2>1, <2>2, RangeTail
  <2>4. /\ docs' = IF w.kind = "document" THEN [docs EXCEPT ![w.id] = w.value] ELSE docs
        /\ todo' = Tail(todo)
        /\ UNCHANGED <<queue, t_interval, t_scope, running>>
    BY <2>2, <1>5 DEF CommitItem
  <2>5. w.kind = "document" => w.id \in Docs
    BY <2>3 DEF Write
  <2>6. PICK E : E = docs'
    OBVIOUS
  <2>7. /\ w.kind # "document" => E = docs
        /\ w.kind = "document" => /\ E[w.id] = w.value
                                  /\ \A c \in Docs : c # w.id => E[c] = docs[c]
    BY <2>4, <2>5, <2>6, <1>2
  <2>8. PICK W : W = Range(todo)
    OBVIOUS
  <2>9. w \in W /\ V \in SUBSET W
    BY <2>3, <2>8
  <2>10. Tidy(docs, queue, W, running) /\ Alone(docs, queue, W, running, Now)
    BY <2>8, <1>1
  <2>11. Tidy(E, queue, V, running) /\ Alone(E, queue, V, running, Now)
    BY <2>1, <2>7, <2>9, <2>10, <1>2, GentleItem
  <2>12. Now' = Now
    BY <2>4 DEF Now
  <2>13. QED
    BY <2>2, <2>4, <2>6, <2>11, <2>12
<1>6. CASE Finish
  <2>1. running = TRUE /\ todo = <<>> /\ Range(todo) = {} /\ queue # <<>>
    BY <1>2, <1>6 DEF Finish, Range
  <2>2. Tidy(docs, queue, {}, TRUE) /\ Alone(docs, queue, {}, TRUE, Now)
    BY <2>1, <1>1
  <2>3. PICK P : P = Tail(queue)
    OBVIOUS
  <2>4. Tidy(docs, P, {}, FALSE) /\ Alone(docs, P, {}, FALSE, Now)
    BY <2>1, <2>2, <2>3, <1>2, GentleFinish
  <2>5. /\ queue' = P /\ running' = FALSE /\ docs' = docs /\ todo' = todo
        /\ UNCHANGED <<t_interval, t_scope>>
    BY <2>3, <1>6 DEF Finish, numeration
  <2>6. Now' = Now
    BY <2>5 DEF Now
  <2>7. QED
    BY <2>1, <2>4, <2>5, <2>6
<1>7. CASE Crash
  BY <1>7 DEF Crash
<1>8. CASE UNCHANGED vars
  <2>1. Now' = Now /\ UNCHANGED <<docs, queue, todo, running>>
    BY <1>8 DEF vars, numeration, Now
  <2>2. QED
    BY <2>1, <1>1
<1>9. QED
  BY <1>3, <1>4, <1>5, <1>6, <1>7, <1>8 DEF Next

\* The setting of a behaviour is one.
LEMMA SettingStep == [Next]_vars => setting' = setting
  BY SMTT(30), ZenonT(30) DEF Next, vars, Save, Numerate, CommitItem, Finish, Crash

\* Until a crash, when users wait for the number, type none, recover nothing
\* and leave the scope alone, no two documents that are not deleted have the
\* same number in a scope: the number that getNextValueSimple() gives is held by
\* none, and what revokeValue() frees was the deleted document's own.
THEOREM UniqueTheorem == Spec => []UniqueIfGentle
<1>1. Init => GInv
  <2> SUFFICES ASSUME Init PROVE /\ Tidy(docs, queue, Range(todo), running)
                                 /\ Alone(docs, queue, Range(todo), running, Now)
    BY DEF GInv
  <2>1. queue = <<>> /\ DOMAIN queue = {} /\ Range(todo) = {}
    BY DEF Init, Range
  <2>2. \A d \in Docs : ~docs[d].there /\ docs[d].num = 0 /\ ~docs[d].deleted
    BY DEF Init, NoDocument
  <2>3. Tidy(docs, queue, Range(todo), running)
    BY <2>1, <2>2 DEF Tidy, OneRecord, Fits, Written, Absent
  <2>4. Alone(docs, queue, Range(todo), running, Now)
    BY <2>2 DEF Alone, Owns, Live
  <2>5. QED
    BY <2>3, <2>4
<1>2. NInv /\ BInv /\ GInv /\ [Next]_vars => GInv'
  <2> SUFFICES ASSUME NInv, BInv, GInv, [Next]_vars, whole', Gentle(setting')
               PROVE  /\ Tidy(docs, queue, Range(todo), running)'
                      /\ Alone(docs, queue, Range(todo), running, Now)'
    BY DEF GInv
  <2>1. whole /\ Gentle(setting)
    BY WholeStep, SettingStep
  <2>2. QED
    BY <2>1, GentleStep
<1>3. BInv /\ GInv => UniqueIfGentle
  <2> SUFFICES ASSUME BInv, GInv, whole, Gentle(setting), NEW c \in Docs, NEW d \in Docs,
                      docs[c].there, docs[d].there, ~docs[c].deleted, ~docs[d].deleted,
                      docs[c].num # 0, docs[c].scope = docs[d].scope,
                      docs[c].num = docs[d].num
               PROVE  c = d
    BY DEF UniqueIfGentle, NumbersUnique
  <2>1. docs[c].num \in Nat \ {0}
    BY DEF BInv, TypeOK, Document
  <2>2. \A x \in {c, d} : Owns(docs, queue, Range(todo), running, x, docs[c].num)
    BY DEF Owns, Live, Has
  <2>3. QED
    BY <2>1, <2>2 DEF GInv, Alone
<1>4. QED
  BY <1>1, <1>2, <1>3, Invariant, BInvariant, PTL DEF Spec
=============================================================================
