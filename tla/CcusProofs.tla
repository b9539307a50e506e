----------------------------- MODULE CcusProofs -----------------------------
(***************************************************************************)
(* Theorems about the client cache update service, for any number of       *)
(* browsers, individuals, changes, messages, lost connections and restarts.*)
(***************************************************************************)
EXTENDS Ccus, FiniteSetTheorems, WellFoundedInduction, TLAPS

\* The items and the notes of messages.
Item   == {Handshake, DelAll} \cup {Add(u, n) : u \in Uris, n \in Counter}
            \cup {Del(u) : u \in Uris}
Record == [uri: Uris, u_count: Counter]
Note   == UNION {[S -> Counter] : S \in SUBSET Uris}

\* The types of all variables.
ServerType ==
  /\ version \in [Uris -> Counter]
  /\ queue \in Seq(Record) /\ read \in 0 .. Len(queue)
  /\ uri2counter \in [Uris -> Counter \cup {None}]
ClientType ==
  /\ idws2uris \in [Clients -> [Uris -> Counter \cup {None}]]
  /\ asked \in [Clients -> [Uris -> Counter]]
  /\ list \in [Clients -> [Uris -> Counter \cup {None}]]
  /\ subscribers \in [Clients -> [Uris -> Nat]]
  /\ socket \in [Clients -> {"connecting", "open", "closed"}]
  /\ timer \in [Clients -> {"off", "own", "old", "late"}]
  /\ buffer \in [Clients -> Seq(Item)]
  /\ up \in [Clients -> Seq(Seq(Item))]
  /\ down \in [Clients -> Seq(Note)]

\* No counter is ahead of the database.
QueueBound ==
  /\ \A k \in 1 .. Len(queue) : queue[k].u_count <= version[queue[k].uri]
  /\ \A u \in Uris : uri2counter[u] <= version[u]

\* The list of a browser goes with its subscribers, its buffer with its timer.
Paired(c) ==
  /\ \A u \in Uris : /\ subscribers[c][u] \in 0 .. MaxShown
                     /\ subscribers[c][u] = 0 <=> list[c][u] = None
  /\ buffer[c] # <<>> <=> timer[c] # "off"
  /\ socket[c] # "open" => up[c] = <<>> /\ down[c] = <<>>

\* What a browser shows is not newer than what it has last set out to show;
\* older when a reload failed.
HaveOK ==
  /\ have \in [Clients -> [Uris -> Counter]]
  /\ \A c \in Clients, u \in Uris : have[c][u] <= asked[c][u]

\* A browser asks for a subscription with a version it has set out to show.
Fits(h, it) == it.op = "+" => /\ it.uri \in Uris /\ it.counter \in Counter
                              /\ it.counter <= h[it.uri]
AsksForOwn(c) ==
  /\ \A u \in Uris : list[c][u] <= asked[c][u] /\ asked[c][u] <= version[u]
  /\ \A k \in 1 .. Len(buffer[c]) : Fits(asked[c], buffer[c][k])
  /\ \A i \in 1 .. Len(up[c]) : \A k \in 1 .. Len(up[c][i]) : Fits(asked[c], up[c][i][k])

\* It is told of versions that are there; and what the server believes it
\* was told it has set out to show, or a note with it is on the way.
Told(c) ==
  /\ \A k \in 1 .. Len(down[c]) : \A u \in DOMAIN down[c][k] :
       u \in Uris /\ down[c][k][u] \in Counter /\ down[c][k][u] <= version[u]
  /\ \A u \in Uris :
       \/ idws2uris[c][u] <= asked[c][u]
       \/ \E k \in 1 .. Len(down[c]) :
            u \in DOMAIN down[c][k] /\ down[c][k][u] = idws2uris[c][u]

Linked(c) == Paired(c) /\ AsksForOwn(c) /\ Told(c)
Inv == ServerType /\ ClientType /\ QueueBound /\ \A c \in Clients : Linked(c)
-----------------------------------------------------------------------------
(***************************************************************************)
(* Facts about numbers, sequences and messages.                            *)
(***************************************************************************)

\* The smallest of some natural numbers.
LEMMA MinFacts ==
  ASSUME NEW T, T \subseteq Nat, T # {}
  PROVE  Min(T) \in T
<1> DEFINE R == OpToRel(<, Nat)
<1>2. IsWellFoundedOn(R, Nat)
  BY NatLessThanWellFounded
<1>3. \A x, y \in Nat : x < y => <<x, y>> \in R
  BY DEF OpToRel
<1> HIDE DEF R
<1>4. PICK x \in T : \A y \in T : ~(<<y, x>> \in R)
  BY <1>2, WFMin
<1>5. ASSUME NEW y \in T PROVE x <= y
  <2>1. x \in Nat /\ y \in Nat
    OBVIOUS
  <2>2. <<y, x>> \notin R
    BY <1>4
  <2>3. ~(y < x)
    BY <1>3, <2>1, <2>2
  <2> QED
    BY <2>1, <2>3
<1> QED
  BY <1>5 DEF Min

\* A sequence without elements.
LEMMA EmptySeq ==
  ASSUME NEW S, NEW s \in Seq(S)
  PROVE  /\ Len(s) \in Nat /\ s = <<>> <=> Len(s) = 0
         /\ <<>> \in Seq(S) /\ Len(<<>>) = 0
OBVIOUS

\* A sequence with one more element.
LEMMA AppendFacts ==
  ASSUME NEW S, NEW s \in Seq(S), NEW x \in S
  PROVE  /\ Append(s, x) \in Seq(S) /\ Len(s) \in Nat
         /\ Len(Append(s, x)) = Len(s) + 1
         /\ \A k \in 1 .. Len(s) : Append(s, x)[k] = s[k]
         /\ Append(s, x)[Len(s) + 1] = x
OBVIOUS

\* A sequence without its first element.
LEMMA TailFacts ==
  ASSUME NEW S, NEW s \in Seq(S), s # <<>>
  PROVE  /\ Tail(s) \in Seq(S) /\ Head(s) \in S /\ Head(s) = s[1] /\ Len(s) \in Nat \ {0}
         /\ Len(Tail(s)) = Len(s) - 1
         /\ \A k \in 1 .. Len(Tail(s)) : k + 1 \in 1 .. Len(s) /\ Tail(s)[k] = s[k + 1]
<1>1. Tail(s) \in Seq(S) /\ Len(s) \in Nat \ {0} /\ Len(Tail(s)) = Len(s) - 1
      /\ Head(s) \in S /\ Head(s) = s[1]
  OBVIOUS
<1>2. \A k \in 1 .. Len(Tail(s)) : Tail(s)[k] = s[k + 1]
  BY <1>1
<1> QED
  BY <1>1, <1>2

\* One sequence after the other.
LEMMA ConcatFacts ==
  ASSUME NEW S, NEW s \in Seq(S), NEW r \in Seq(S)
  PROVE  /\ s \o r \in Seq(S) /\ Len(s) \in Nat /\ Len(r) \in Nat
         /\ Len(s \o r) = Len(s) + Len(r)
         /\ \A k \in 1 .. Len(s) : (s \o r)[k] = s[k]
         /\ \A k \in 1 .. Len(r) : (s \o r)[Len(s) + k] = r[k]
         /\ s \o r = <<>> <=> s = <<>> /\ r = <<>>
<1>1. /\ s \o r \in Seq(S) /\ Len(s) \in Nat /\ Len(r) \in Nat
      /\ Len(s \o r) = Len(s) + Len(r)
      /\ \A k \in 1 .. Len(s) : (s \o r)[k] = s[k]
  OBVIOUS
<1>2. \A k \in 1 .. Len(r) : (s \o r)[Len(s) + k] = r[k]
  <2> SUFFICES ASSUME NEW k \in 1 .. Len(r) PROVE (s \o r)[Len(s) + k] = r[k]
    OBVIOUS
  <2>1. Len(s) + k \in 1 .. Len(s) + Len(r) /\ Len(s) + k > Len(s) /\ Len(s) + k - Len(s) = k
    BY <1>1
  <2> QED
    BY <1>1, <2>1
<1>3. s \o r = <<>> <=> Len(s) + Len(r) = 0
  BY <1>1, EmptySeq
<1> QED
  BY <1>1, <1>2, <1>3, EmptySeq

\* What a message does to a subscription: it is kept, cancelled, or begins at
\* a version that the message names.
LEMMA MessageFacts ==
  ASSUME NEW ms \in Seq(Item), NEW u \in Uris, NEW ks,
         ks \subseteq Adds(ms, u)
  PROVE  \/ First(ms, ks) = None
         \/ \E k \in 1 .. Len(ms) : ms[k].op = "+" /\ ms[k].uri = u
                                      /\ First(ms, ks) = ms[k].counter
<1>1. CASE ks = {}
  BY <1>1 DEF First
<1>2. CASE ks # {}
  <2>1. DOMAIN ms = 1 .. Len(ms) /\ Len(ms) \in Nat
    OBVIOUS
  <2>2. ks \subseteq Nat
    BY <2>1 DEF Adds
  <2>3. Min(ks) \in ks
    BY <1>2, <2>2, MinFacts
  <2>4. First(ms, ks) = ms[Min(ks)].counter
    BY <1>2 DEF First
  <2> QED
    BY <2>1, <2>3, <2>4 DEF Adds
<1> QED
  BY <1>1, <1>2

\* The items of messages are told apart by op.
LEMMA ItemFacts ==
  /\ Handshake \in Item /\ Handshake.op # "+" /\ DelAll \in Item /\ DelAll.op # "+"
  /\ \A u \in Uris : Del(u) \in Item /\ Del(u).op # "+"
  /\ \A u \in Uris, n \in Counter : /\ Add(u, n) \in Item /\ Add(u, n).uri = u
                                    /\ Add(u, n).counter = n
<1>1. Handshake \in Item /\ DelAll \in Item /\ \A u \in Uris : Del(u) \in Item
  BY DEF Item
<1>2. \A u \in Uris, n \in Counter : Add(u, n) \in Item
  BY DEF Item
<1>3. Handshake.op # "+" /\ DelAll.op # "+"
  BY DEF Handshake, DelAll
<1>4. \A u \in Uris : Del(u).op # "+"
  BY DEF Del
<1>5. \A u \in Uris, n \in Counter : Add(u, n).uri = u /\ Add(u, n).counter = n
  BY DEF Add
<1> QED
  BY <1>1, <1>2, <1>3, <1>4, <1>5

\* What restore() sends: the list.
LEMMA RestoredFacts ==
  ASSUME ClientType, NEW c \in Clients
  PROVE  /\ Restored(c) \in Seq(Item)
         /\ \A k \in 1 .. Len(Restored(c)) :
              \E u \in Uris : list[c][u] # None /\ Restored(c)[k] = Add(u, list[c][u])
<1>1. PICK us : us = {u \in Uris : list[c][u] # None}
  OBVIOUS
<1>2. us \subseteq Uris /\ IsFiniteSet(us) /\ Cardinality(us) \in Nat
  BY <1>1, CcusAssumption, FS_Subset, FS_CardinalityType
<1>3. SetToSeq(us) \in [1 .. Cardinality(us) -> us]
  <2>1. PICK f \in Bijection(1 .. Cardinality(us), us) : TRUE
    BY <1>2, FS_NatBijection, FS_CardinalityType, FS_CountingElements DEF ExistsBijection
  <2>2. f \in [1 .. Cardinality(us) -> us] /\ IsInjective(f)
    BY <2>1 DEF Bijection, Injection, IsInjective
  <2> QED
    BY <2>2 DEF SetToSeq
<1>4. PICK q : q = SetToSeq(us)
  OBVIOUS
<1>5. Restored(c) = [k \in 1 .. Cardinality(us) |-> Add(q[k], list[c][q[k]])]
  BY <1>1, <1>4 DEF Restored
<1>6. ASSUME NEW k \in 1 .. Cardinality(us)
      PROVE  q[k] \in Uris /\ list[c][q[k]] # None /\ list[c][q[k]] \in Counter
  <2>1. q[k] \in us
    BY <1>3, <1>4
  <2> QED
    BY <1>1, <2>1 DEF ClientType
<1>7. Restored(c) \in Seq(Item) /\ Len(Restored(c)) = Cardinality(us)
  BY <1>2, <1>5, <1>6, ItemFacts
<1> QED
  BY <1>5, <1>6, <1>7
-----------------------------------------------------------------------------
(***************************************************************************)
(* Steps of one client and the others.                                     *)
(***************************************************************************)
Still(c) ==
  /\ idws2uris'[c] = idws2uris[c] /\ list'[c] = list[c] /\ subscribers'[c] = subscribers[c]
  /\ socket'[c] = socket[c] /\ timer'[c] = timer[c] /\ buffer'[c] = buffer[c]
  /\ up'[c] = up[c] /\ down'[c] = down[c]

\* The types of what a client has.
LEMMA ClientFacts ==
  ASSUME Inv, NEW c \in Clients
  PROVE  /\ idws2uris[c] \in [Uris -> Counter \cup {None}] /\ asked[c] \in [Uris -> Counter]
         /\ list[c] \in [Uris -> Counter \cup {None}] /\ subscribers[c] \in [Uris -> Nat]
         /\ socket[c] \in {"connecting", "open", "closed"}
         /\ timer[c] \in {"off", "own", "old", "late"}
         /\ buffer[c] \in Seq(Item) /\ up[c] \in Seq(Seq(Item)) /\ down[c] \in Seq(Note)
         /\ Paired(c) /\ AsksForOwn(c) /\ Told(c)
         /\ version \in [Uris -> Counter] /\ uri2counter \in [Uris -> Counter \cup {None}]
  BY DEF Inv, ServerType, ClientType, Linked

\* Counters are numbers.
LEMMA CounterFacts ==
  /\ MaxVersion \in Nat /\ Counter \subseteq Nat /\ Counter \subseteq Int /\ 0 \in Counter
  /\ None \in Int /\ None \notin Counter /\ \A n \in Counter : None <= n
  BY CcusAssumption DEF Counter, None

\* A client that does nothing, but for a new version it may set out to show.
LEMMA LinkedFrame ==
  ASSUME Inv, NEW c \in Clients, Still(c), version' \in [Uris -> Counter],
         asked'[c] \in [Uris -> Counter],
         \A u \in Uris : /\ version[u] <= version'[u]
                         /\ asked[c][u] <= asked'[c][u] /\ asked'[c][u] <= version'[u]
  PROVE  Linked(c)'
<1>1. /\ idws2uris[c] \in [Uris -> Counter \cup {None}] /\ asked[c] \in [Uris -> Counter]
      /\ list[c] \in [Uris -> Counter \cup {None}]
      /\ Paired(c) /\ AsksForOwn(c) /\ Told(c) /\ version \in [Uris -> Counter]
  BY ClientFacts
<1>2. \A u \in Uris : /\ idws2uris[c][u] \in Int /\ asked[c][u] \in Int /\ list[c][u] \in Int
                      /\ asked'[c][u] \in Int /\ version[u] \in Int /\ version'[u] \in Int
  BY <1>1, CounterFacts
<1>3. Paired(c)'
  BY <1>1 DEF Paired, Still
<1>4. ASSUME NEW it, Fits(asked[c], it) PROVE Fits(asked'[c], it)
  <2> SUFFICES ASSUME it.op = "+" PROVE it.uri \in Uris /\ it.counter \in Counter
                                        /\ it.counter <= asked'[c][it.uri]
    BY DEF Fits
  <2>1. it.uri \in Uris /\ it.counter \in Counter /\ it.counter <= asked[c][it.uri]
    BY <1>4 DEF Fits
  <2>2. it.counter \in Int
    BY <2>1, CounterFacts
  <2> QED
    BY <1>2, <2>1, <2>2
<1>5. AsksForOwn(c)'
  <2>1. \A u \in Uris : list'[c][u] <= asked'[c][u] /\ asked'[c][u] <= version'[u]
    BY <1>1, <1>2 DEF AsksForOwn, Still
  <2>2. \A k \in 1 .. Len(buffer'[c]) : Fits(asked'[c], buffer'[c][k])
    BY <1>1, <1>4 DEF AsksForOwn, Still
  <2>3. \A i \in 1 .. Len(up'[c]) : \A k \in 1 .. Len(up'[c][i]) : Fits(asked'[c], up'[c][i][k])
    BY <1>1, <1>4 DEF AsksForOwn, Still
  <2> QED
    BY <2>1, <2>2, <2>3 DEF AsksForOwn
<1>6. Told(c)'
  <2>1. ASSUME NEW k \in 1 .. Len(down[c]), NEW u \in DOMAIN down[c][k]
        PROVE  u \in Uris /\ down[c][k][u] \in Counter /\ down[c][k][u] <= version'[u]
    <3>1. u \in Uris /\ down[c][k][u] \in Counter /\ down[c][k][u] <= version[u]
      BY <1>1, <2>1 DEF Told
    <3>2. down[c][k][u] \in Int
      BY <3>1, CounterFacts
    <3> QED
      BY <1>2, <3>1, <3>2
  <2>2. ASSUME NEW u \in Uris
        PROVE  \/ idws2uris[c][u] <= asked'[c][u]
               \/ \E k \in 1 .. Len(down[c]) :
                    u \in DOMAIN down[c][k] /\ down[c][k][u] = idws2uris[c][u]
    <3>1. CASE idws2uris[c][u] <= asked[c][u]
      BY <1>2, <3>1
    <3> QED
      BY <1>1, <3>1 DEF Told
  <2> QED
    BY <2>1, <2>2 DEF Told, Still
<1> QED
  BY <1>3, <1>5, <1>6 DEF Linked

\* A step of one client.
Form(c) ==
  /\ idws2uris' = [idws2uris EXCEPT ![c] = idws2uris'[c]] /\ asked' = [asked EXCEPT ![c] = asked'[c]]
  /\ list' = [list EXCEPT ![c] = list'[c]]
  /\ subscribers' = [subscribers EXCEPT ![c] = subscribers'[c]]
  /\ socket' = [socket EXCEPT ![c] = socket'[c]] /\ timer' = [timer EXCEPT ![c] = timer'[c]]
  /\ buffer' = [buffer EXCEPT ![c] = buffer'[c]] /\ up' = [up EXCEPT ![c] = up'[c]]
  /\ down' = [down EXCEPT ![c] = down'[c]]
TypeOf(c) ==
  /\ idws2uris[c] \in [Uris -> Counter \cup {None}] /\ asked[c] \in [Uris -> Counter]
  /\ list[c] \in [Uris -> Counter \cup {None}] /\ subscribers[c] \in [Uris -> Nat]
  /\ socket[c] \in {"connecting", "open", "closed"}
  /\ timer[c] \in {"off", "own", "old", "late"}
  /\ buffer[c] \in Seq(Item) /\ up[c] \in Seq(Seq(Item)) /\ down[c] \in Seq(Note)

\* A variable that a step leaves alone.
LEMMA Unmoved ==
  ASSUME ClientType, NEW c \in Clients
  PROVE  /\ idws2uris = [idws2uris EXCEPT ![c] = idws2uris[c]]
         /\ asked = [asked EXCEPT ![c] = asked[c]] /\ list = [list EXCEPT ![c] = list[c]]
         /\ subscribers = [subscribers EXCEPT ![c] = subscribers[c]]
         /\ socket = [socket EXCEPT ![c] = socket[c]] /\ timer = [timer EXCEPT ![c] = timer[c]]
         /\ buffer = [buffer EXCEPT ![c] = buffer[c]] /\ up = [up EXCEPT ![c] = up[c]]
         /\ down = [down EXCEPT ![c] = down[c]]
         /\ TypeOf(c)
  BY DEF ClientType, TypeOf

\* A table with one new entry.
LEMMA ExceptFacts ==
  ASSUME NEW C, NEW S, NEW f \in [C -> S], NEW c \in C, NEW x \in S
  PROVE  [f EXCEPT ![c] = x] \in [C -> S] /\ \A d \in C \ {c} : [f EXCEPT ![c] = x][d] = f[d]
OBVIOUS

\* It is enough to look at the client that moves.
LEMMA OneMoves ==
  ASSUME Inv, NEW c \in Clients, UNCHANGED <<version, queue, read>>,
         uri2counter' \in [Uris -> Counter \cup {None}],
         \A u \in Uris : uri2counter'[u] <= version[u],
         Form(c), TypeOf(c)', Linked(c)'
  PROVE  Inv'
<1>1. ClientType' /\ \A d \in Clients \ {c} : Still(d) /\ asked'[d] = asked[d]
  <2>1. idws2uris' \in [Clients -> [Uris -> Counter \cup {None}]] /\ \A d \in Clients \ {c} : idws2uris'[d] = idws2uris[d]
    BY ExceptFacts DEF Inv, ClientType, Form, TypeOf
  <2>2. asked' \in [Clients -> [Uris -> Counter]] /\ \A d \in Clients \ {c} : asked'[d] = asked[d]
    BY ExceptFacts DEF Inv, ClientType, Form, TypeOf
  <2>3. list' \in [Clients -> [Uris -> Counter \cup {None}]] /\ \A d \in Clients \ {c} : list'[d] = list[d]
    BY ExceptFacts DEF Inv, ClientType, Form, TypeOf
  <2>4. subscribers' \in [Clients -> [Uris -> Nat]] /\ \A d \in Clients \ {c} : subscribers'[d] = subscribers[d]
    BY ExceptFacts DEF Inv, ClientType, Form, TypeOf
  <2>5. socket' \in [Clients -> {"connecting", "open", "closed"}] /\ \A d \in Clients \ {c} : socket'[d] = socket[d]
    BY ExceptFacts, ZenonT(30) DEF Inv, ClientType, Form, TypeOf
  <2>6. timer' \in [Clients -> {"off", "own", "old", "late"}] /\ \A d \in Clients \ {c} : timer'[d] = timer[d]
    BY ExceptFacts, ZenonT(30) DEF Inv, ClientType, Form, TypeOf
  <2>7. buffer' \in [Clients -> Seq(Item)] /\ \A d \in Clients \ {c} : buffer'[d] = buffer[d]
    <3>1. buffer \in [Clients -> Seq(Item)] /\ buffer'[c] \in Seq(Item)
      BY DEF Inv, ClientType, TypeOf
    <3>2. buffer' = [buffer EXCEPT ![c] = buffer'[c]]
      BY DEF Form
    <3> QED
      BY <3>1, <3>2, ExceptFacts, Zenon
  <2>8. up' \in [Clients -> Seq(Seq(Item))] /\ \A d \in Clients \ {c} : up'[d] = up[d]
    <3>1. up \in [Clients -> Seq(Seq(Item))] /\ up'[c] \in Seq(Seq(Item))
      BY DEF Inv, ClientType, TypeOf
    <3>2. up' = [up EXCEPT ![c] = up'[c]]
      BY DEF Form
    <3> QED
      BY <3>1, <3>2, ExceptFacts, Zenon
  <2>9. down' \in [Clients -> Seq(Note)] /\ \A d \in Clients \ {c} : down'[d] = down[d]
    <3>1. down \in [Clients -> Seq(Note)] /\ down'[c] \in Seq(Note)
      BY DEF Inv, ClientType, TypeOf
    <3>2. down' = [down EXCEPT ![c] = down'[c]]
      BY DEF Form
    <3> QED
      BY <3>1, <3>2, ExceptFacts, Zenon
  <2> QED
    BY <2>1, <2>2, <2>3, <2>4, <2>5, <2>6, <2>7, <2>8, <2>9 DEF ClientType, Still
<1>2. ServerType' /\ QueueBound'
  BY DEF Inv, ServerType, QueueBound
<1>3. ASSUME NEW d \in Clients \ {c} PROVE Linked(d)'
  <2>1. /\ version' \in [Uris -> Counter] /\ asked'[d] \in [Uris -> Counter]
        /\ asked'[d] = asked[d] /\ version' = version /\ Still(d)
    BY <1>1 DEF Inv, ServerType, ClientType
  <2>2. \A u \in Uris : version[u] \in Int /\ asked[d][u] \in Int /\ asked[d][u] <= version[u]
    BY <2>1, CounterFacts DEF Inv, Linked, AsksForOwn
  <2> QED
    BY <2>1, <2>2, LinkedFrame
<1> QED
  BY <1>1, <1>2, <1>3 DEF Inv

\* A message that fits a browser still fits it when it has newer versions.
LEMMA FitsGrow ==
  ASSUME NEW h \in [Uris -> Counter], NEW g \in [Uris -> Counter],
         \A u \in Uris : h[u] <= g[u], NEW it, Fits(h, it)
  PROVE  Fits(g, it)
<1> SUFFICES ASSUME it.op = "+" PROVE it.uri \in Uris /\ it.counter \in Counter
                                      /\ it.counter <= g[it.uri]
  BY DEF Fits
<1>1. it.uri \in Uris /\ it.counter \in Counter /\ it.counter <= h[it.uri]
  BY DEF Fits
<1>2. it.counter \in Int /\ h[it.uri] \in Int /\ g[it.uri] \in Int
  BY <1>1, CounterFacts
<1> QED
  BY <1>1, <1>2

\* The numbers of a client.
LEMMA Numbers ==
  ASSUME Inv, NEW c \in Clients, NEW u \in Uris
  PROVE  /\ idws2uris[c][u] \in Int /\ asked[c][u] \in Int /\ list[c][u] \in Int
         /\ version[u] \in Int /\ uri2counter[u] \in Int
         /\ list[c][u] <= asked[c][u] /\ asked[c][u] <= version[u]
         /\ uri2counter[u] <= version[u] /\ None <= asked[c][u]
<1>1. /\ idws2uris[c] \in [Uris -> Counter \cup {None}] /\ asked[c] \in [Uris -> Counter]
      /\ list[c] \in [Uris -> Counter \cup {None}] /\ AsksForOwn(c)
      /\ version \in [Uris -> Counter] /\ uri2counter \in [Uris -> Counter \cup {None}]
  BY ClientFacts
<1>2. uri2counter[u] <= version[u]
  BY DEF Inv, QueueBound
<1> QED
  BY <1>1, <1>2, CounterFacts DEF AsksForOwn
-----------------------------------------------------------------------------
(***************************************************************************)
(* The server.                                                             *)
(***************************************************************************)

\* A change of an individual.
LEMMA ChangeStep ==
  ASSUME Inv, NEW u \in Uris, NEW by, Change(u, by)
  PROVE  Inv'
<1>1. /\ version \in [Uris -> Counter] /\ queue \in Seq(Record) /\ read \in 0 .. Len(queue)
      /\ uri2counter \in [Uris -> Counter \cup {None}] /\ QueueBound
  BY DEF Inv, ServerType
<1>2. /\ version' \in [Uris -> Counter] /\ version'[u] = version[u] + 1
      /\ \A w \in Uris : version[w] \in Int /\ version'[w] \in Int /\ version[w] <= version'[w]
  BY <1>1, CounterFacts DEF Change, Counter
<1>3. PICK r : r = [uri |-> u, u_count |-> version'[u]]
  OBVIOUS
<1>4. r \in Record /\ queue' = Append(queue, r) /\ r.uri = u /\ r.u_count = version'[u]
  BY <1>2, <1>3 DEF Record, Change
<1>5. /\ queue' \in Seq(Record) /\ Len(queue) \in Nat /\ Len(queue') = Len(queue) + 1
      /\ \A k \in 1 .. Len(queue) : queue'[k] = queue[k]
      /\ queue'[Len(queue) + 1] = r
  BY <1>1, <1>4, AppendFacts
<1>6. read' \in 0 .. Len(queue')
  BY <1>1, <1>5 DEF Change, serverVars
<1>7. ServerType'
  BY <1>1, <1>2, <1>5, <1>6 DEF ServerType, Change, serverVars
<1>8. QueueBound'
  <2>1. ASSUME NEW k \in 1 .. Len(queue') PROVE queue'[k].u_count <= version'[queue'[k].uri]
    <3>1. CASE k \in 1 .. Len(queue)
      <4>1. queue[k] \in Record /\ queue[k].u_count <= version[queue[k].uri]
        BY <1>1, <3>1 DEF QueueBound
      <4>2. queue[k].u_count \in Int /\ queue[k].uri \in Uris
        BY <4>1, CounterFacts DEF Record
      <4> QED
        BY <1>2, <1>5, <3>1, <4>1, <4>2
    <3>2. CASE k = Len(queue) + 1
      BY <1>2, <1>4, <1>5, <3>2
    <3> QED
      BY <1>5, <3>1, <3>2
  <2>2. \A w \in Uris : uri2counter'[w] <= version'[w]
    <3>1. \A w \in Uris : uri2counter[w] \in Int /\ uri2counter[w] <= version[w]
      BY <1>1, CounterFacts DEF QueueBound
    <3> QED
      BY <1>2, <3>1 DEF Change, serverVars
  <2> QED
    BY <2>1, <2>2 DEF QueueBound
<1>9. ASSUME NEW c \in Clients
      PROVE  /\ asked'[c] \in [Uris -> Counter] /\ Still(c)
             /\ \A w \in Uris : asked[c][w] <= asked'[c][w] /\ asked'[c][w] <= version'[w]
  <2>1. asked[c] \in [Uris -> Counter] /\ \A w \in Uris : asked[c][w] \in Int /\ asked[c][w] <= version[w]
    BY ClientFacts, Numbers
  <2>2. asked'[c] = IF c \in by THEN [asked[c] EXCEPT ![u] = version'[u]] ELSE asked[c]
    BY DEF Change
  <2>3. asked'[c] \in [Uris -> Counter]
    BY <1>2, <2>1, <2>2
  <2>4. \A w \in Uris : asked'[c][w] = asked[c][w] \/ (w = u /\ asked'[c][w] = version'[w])
    BY <2>1, <2>2
  <2>5. \A w \in Uris : asked[c][w] <= asked'[c][w] /\ asked'[c][w] <= version'[w]
    BY <1>2, <2>1, <2>4
  <2>6. Still(c)
    BY DEF Still, Change, serverVars
  <2> QED
    BY <2>3, <2>5, <2>6
<1>10. asked' \in [Clients -> [Uris -> Counter]]
  <2>1. asked' = [c \in Clients |-> asked'[c]]
    BY DEF Change
  <2> QED
    BY <1>9, <2>1
<1>11. ClientType'
  BY <1>10 DEF Inv, ClientType, Change, serverVars
<1>12. \A c \in Clients : Linked(c)'
  BY <1>2, <1>9, LinkedFrame
<1> QED
  BY <1>7, <1>8, <1>11, <1>12 DEF Inv

\* The next record of the queue: a number that is not ahead.
LEMMA ConsumeStep ==
  ASSUME Inv, Consume
  PROVE  Inv'
<1>1. /\ version \in [Uris -> Counter] /\ queue \in Seq(Record) /\ read \in 0 .. Len(queue)
      /\ uri2counter \in [Uris -> Counter \cup {None}] /\ QueueBound
  BY DEF Inv, ServerType
<1>2. read + 1 \in 1 .. Len(queue) /\ read' = read + 1
  BY <1>1 DEF Consume
<1>3. PICK r : r = queue[read + 1]
  OBVIOUS
<1>4. r \in Record /\ r.u_count <= version[r.uri] /\ r.uri \in Uris /\ r.u_count \in Counter
  <2>1. r \in Record
    BY <1>1, <1>2, <1>3
  <2>2. r.u_count <= version[r.uri]
    BY <1>1, <1>2, <1>3 DEF QueueBound
  <2> QED
    BY <2>1, <2>2 DEF Record
<1>5. uri2counter' = [uri2counter EXCEPT ![r.uri] = IF uri2counter[r.uri] = None THEN None ELSE r.u_count]
  BY <1>2, <1>3 DEF Consume
<1>6. uri2counter' \in [Uris -> Counter \cup {None}]
  BY <1>1, <1>4, <1>5
<1>7. \A u \in Uris : uri2counter'[u] <= version[u]
  <2> SUFFICES ASSUME NEW u \in Uris PROVE uri2counter'[u] <= version[u]
    OBVIOUS
  <2>1. uri2counter[u] <= version[u] /\ version[u] \in Counter
    BY <1>1 DEF QueueBound
  <2>2. uri2counter'[u] = uri2counter[u] \/ uri2counter'[u] = None \/ (u = r.uri /\ uri2counter'[u] = r.u_count)
    BY <1>1, <1>4, <1>5
  <2> QED
    BY <1>4, <2>1, <2>2, CounterFacts
<1>8. ServerType' /\ QueueBound'
  BY <1>1, <1>2, <1>6, <1>7 DEF Consume, ServerType, QueueBound
<1>9. ClientType'
  BY DEF Inv, ClientType, Consume, clientVars
<1>10. ASSUME NEW c \in Clients PROVE Linked(c)'
  <2>1. Linked(c)
    BY DEF Inv
  <2> QED
    BY <2>1 DEF Linked, Paired, AsksForOwn, Told, Consume, clientVars
<1> QED
  BY <1>8, <1>9, <1>10 DEF Inv

\* A message of a client: the counters it begins are the client's own.
LEMMA ServeStep ==
  ASSUME Inv, NEW c \in Clients, Serve(c)
  PROVE  Inv'
<1>1. /\ idws2uris[c] \in [Uris -> Counter \cup {None}] /\ asked[c] \in [Uris -> Counter]
      /\ up[c] \in Seq(Seq(Item)) /\ Paired(c) /\ AsksForOwn(c) /\ Told(c)
      /\ version \in [Uris -> Counter] /\ uri2counter \in [Uris -> Counter \cup {None}]
  BY ClientFacts
<1>2. ClientType /\ UNCHANGED <<version, queue, read, asked, list, subscribers, socket, buffer,
                                timer, down>>
  BY DEF Serve, clientVars, Inv
<1>3. up[c] # <<>>
  BY DEF Serve
<1>4. PICK ms : ms = Head(up[c])
  OBVIOUS
<1>5. /\ Tail(up[c]) \in Seq(Seq(Item)) /\ ms \in Seq(Item) /\ ms = up[c][1]
      /\ Len(up[c]) \in Nat \ {0} /\ Len(Tail(up[c])) = Len(up[c]) - 1
      /\ \A k \in 1 .. Len(Tail(up[c])) : k + 1 \in 1 .. Len(up[c]) /\ Tail(up[c])[k] = up[c][k + 1]
  BY <1>1, <1>3, <1>4, TailFacts
<1>6. \A k \in 1 .. Len(ms) : Fits(asked[c], ms[k])
  BY <1>1, <1>5 DEF AsksForOwn
<1>7. PICK s : s = [subs |-> idws2uris[c], cnt |-> uri2counter]
  OBVIOUS
<1>8. s.subs = idws2uris[c] /\ s.cnt = uri2counter
  BY <1>7
<1>9. /\ idws2uris' = [idws2uris EXCEPT ![c] = [u \in Uris |-> Subscribed(s, ms, u)]]
      /\ uri2counter' = [u \in Uris |-> Followed(s, ms, u)]
      /\ up' = [up EXCEPT ![c] = Tail(up[c])]
  BY <1>4, <1>7 DEF Serve
<1>10. ASSUME NEW u \in Uris, NEW ks, ks \subseteq Adds(ms, u)
       PROVE  /\ First(ms, ks) \in Counter \cup {None}
              /\ First(ms, ks) <= asked[c][u]
  <2>1. \/ First(ms, ks) = None
        \/ \E k \in 1 .. Len(ms) : ms[k].op = "+" /\ ms[k].uri = u /\ First(ms, ks) = ms[k].counter
    BY <1>5, <1>10, MessageFacts, SMTT(30)
  <2>2. CASE First(ms, ks) = None
    BY <1>1, <2>2, CounterFacts
  <2>3. ASSUME NEW k \in 1 .. Len(ms), ms[k].op = "+", ms[k].uri = u, First(ms, ks) = ms[k].counter
        PROVE  First(ms, ks) \in Counter /\ First(ms, ks) <= asked[c][u]
    BY <1>6, <2>3 DEF Fits
  <2> QED
    BY <2>1, <2>2, <2>3
<1>11. \A u \in Uris : \/ Subscribed(s, ms, u) = idws2uris[c][u]
                       \/ /\ Subscribed(s, ms, u) \in Counter \cup {None}
                          /\ Subscribed(s, ms, u) <= asked[c][u]
  <2> SUFFICES ASSUME NEW u \in Uris
               PROVE  \/ Subscribed(s, ms, u) = idws2uris[c][u]
                      \/ /\ Subscribed(s, ms, u) \in Counter \cup {None}
                         /\ Subscribed(s, ms, u) <= asked[c][u]
    OBVIOUS
  <2>1. Lasting(ms, u) \subseteq Adds(ms, u)
    BY DEF Lasting
  <2>2. Subscribed(s, ms, u) = idws2uris[c][u] \/ Subscribed(s, ms, u) = First(ms, Lasting(ms, u))
    BY <1>8 DEF Subscribed
  <2> QED
    BY <1>10, <2>1, <2>2
<1>12. \A u \in Uris : \/ Followed(s, ms, u) = uri2counter[u]
                       \/ /\ Followed(s, ms, u) \in Counter \cup {None}
                          /\ Followed(s, ms, u) <= asked[c][u]
  <2> SUFFICES ASSUME NEW u \in Uris
               PROVE  \/ Followed(s, ms, u) = uri2counter[u]
                      \/ /\ Followed(s, ms, u) \in Counter \cup {None}
                         /\ Followed(s, ms, u) <= asked[c][u]
    OBVIOUS
  <2>1. Followed(s, ms, u) = uri2counter[u] \/ Followed(s, ms, u) = First(ms, Adds(ms, u))
    BY <1>8 DEF Followed
  <2> QED
    BY <1>10, <2>1
<1>13. /\ idws2uris'[c] = [u \in Uris |-> Subscribed(s, ms, u)]
       /\ idws2uris' = [idws2uris EXCEPT ![c] = idws2uris'[c]]
  BY <1>2, <1>9 DEF ClientType
<1>14. up'[c] = Tail(up[c]) /\ up' = [up EXCEPT ![c] = up'[c]]
  <2>1. up = [d \in Clients |-> up[d]]
    BY <1>2 DEF ClientType
  <2> QED
    BY <1>9, <2>1
<1>15. uri2counter' \in [Uris -> Counter \cup {None}] /\ \A u \in Uris : uri2counter'[u] <= version[u]
  <2>1. ASSUME NEW u \in Uris
        PROVE  uri2counter'[u] \in Counter \cup {None} /\ uri2counter'[u] <= version[u]
    <3>1. /\ asked[c][u] \in Int /\ version[u] \in Int /\ asked[c][u] <= version[u]
          /\ uri2counter[u] \in Counter \cup {None} /\ uri2counter[u] <= version[u]
      BY <1>1, Numbers
    <3>2. uri2counter'[u] = Followed(s, ms, u)
      BY <1>9
    <3>3. CASE Followed(s, ms, u) = uri2counter[u]
      BY <3>1, <3>2, <3>3
    <3>4. CASE Followed(s, ms, u) \in Counter \cup {None} /\ Followed(s, ms, u) <= asked[c][u]
      <4>1. Followed(s, ms, u) \in Int
        BY <3>4, CounterFacts
      <4>2. Followed(s, ms, u) <= version[u]
        BY <3>1, <3>4, <4>1
      <4> QED
        BY <3>2, <3>4, <4>2
    <3> QED
      BY <1>12, <3>3, <3>4
  <2>2. uri2counter' = [u \in Uris |-> uri2counter'[u]]
    BY <1>9
  <2> QED
    BY <2>1, <2>2
<1>16. Form(c)
  BY <1>2, <1>13, <1>14, Unmoved DEF Form
<1>17. TypeOf(c)'
  <2>1. idws2uris'[c] \in [Uris -> Counter \cup {None}]
    BY <1>1, <1>11, <1>13
  <2>2. TypeOf(c)
    BY <1>2, Unmoved
  <2> QED
    BY <1>2, <1>5, <1>14, <2>1, <2>2 DEF TypeOf
<1>18. Paired(c)'
  BY <1>1, <1>2, <1>3 DEF Paired
<1>19. AsksForOwn(c)'
  <2>1. \A i \in 1 .. Len(up'[c]) : \A k \in 1 .. Len(up'[c][i]) : Fits(asked[c], up'[c][i][k])
    BY <1>1, <1>5, <1>14 DEF AsksForOwn
  <2> QED
    BY <1>1, <1>2, <2>1 DEF AsksForOwn
<1>20. Told(c)'
  <2>1. ASSUME NEW u \in Uris
        PROVE  \/ idws2uris'[c][u] <= asked[c][u]
               \/ \E k \in 1 .. Len(down[c]) :
                    u \in DOMAIN down[c][k] /\ down[c][k][u] = idws2uris'[c][u]
    <3>1. idws2uris'[c][u] = Subscribed(s, ms, u)
      BY <1>13
    <3>2. CASE Subscribed(s, ms, u) = idws2uris[c][u]
      BY <1>1, <3>1, <3>2 DEF Told
    <3> QED
      BY <1>11, <3>1, <3>2
  <2> QED
    BY <1>1, <1>2, <2>1 DEF Told
<1> QED
  BY <1>2, <1>15, <1>16, <1>17, <1>18, <1>19, <1>20, OneMoves DEF Linked

\* A pong: what the client was told of is on the way.
LEMMA PongStep ==
  ASSUME Inv, NEW c \in Clients, Pong(c)
  PROVE  Inv'
<1>1. /\ idws2uris[c] \in [Uris -> Counter \cup {None}] /\ asked[c] \in [Uris -> Counter]
      /\ down[c] \in Seq(Note) /\ Paired(c) /\ AsksForOwn(c) /\ Told(c)
      /\ version \in [Uris -> Counter] /\ uri2counter \in [Uris -> Counter \cup {None}]
  BY ClientFacts
<1>2. ClientType /\ UNCHANGED <<version, queue, read, uri2counter, asked, list, subscribers, socket,
                                buffer, timer, up>>
  BY DEF Pong, clientVars, Inv
<1>3. PICK note : note = [u \in Changed(c) |-> uri2counter[u]]
  OBVIOUS
<1>4. Changed(c) \subseteq Uris /\ \A u \in Changed(c) : uri2counter[u] \in Counter
  BY <1>1 DEF Changed
<1>5. /\ note \in Note /\ DOMAIN note = Changed(c)
      /\ \A u \in Changed(c) : note[u] = uri2counter[u]
  BY <1>3, <1>4 DEF Note
<1>6. /\ down' = [down EXCEPT ![c] = Append(down[c], note)]
      /\ idws2uris' = [idws2uris EXCEPT ![c] =
                         [u \in Uris |-> IF u \in Changed(c) THEN uri2counter[u] ELSE idws2uris[c][u]]]
      /\ socket[c] = "open"
  BY <1>3 DEF Pong
<1>7. /\ idws2uris'[c] = [u \in Uris |-> IF u \in Changed(c) THEN uri2counter[u] ELSE idws2uris[c][u]]
      /\ idws2uris' = [idws2uris EXCEPT ![c] = idws2uris'[c]]
  BY <1>2, <1>6 DEF ClientType
<1>8. down'[c] = Append(down[c], note) /\ down' = [down EXCEPT ![c] = down'[c]]
  <2>1. down = [d \in Clients |-> down[d]]
    BY <1>2 DEF ClientType
  <2> QED
    BY <1>6, <2>1
<1>9. /\ down'[c] \in Seq(Note) /\ Len(down[c]) \in Nat /\ Len(down'[c]) = Len(down[c]) + 1
      /\ \A k \in 1 .. Len(down[c]) : down'[c][k] = down[c][k]
      /\ down'[c][Len(down[c]) + 1] = note
  BY <1>1, <1>5, <1>8, AppendFacts
<1>10. Form(c)
  BY <1>2, <1>7, <1>8, Unmoved DEF Form
<1>11. TypeOf(c)'
  <2>1. idws2uris'[c] \in [Uris -> Counter \cup {None}]
    BY <1>1, <1>4, <1>7
  <2>2. TypeOf(c)
    BY <1>2, Unmoved
  <2> QED
    BY <1>2, <1>9, <2>1, <2>2 DEF TypeOf
<1>12. Paired(c)' /\ AsksForOwn(c)'
  BY <1>1, <1>2, <1>6 DEF Paired, AsksForOwn
<1>13. Told(c)'
  <2>1. ASSUME NEW k \in 1 .. Len(down'[c]), NEW u \in DOMAIN down'[c][k]
        PROVE  u \in Uris /\ down'[c][k][u] \in Counter /\ down'[c][k][u] <= version[u]
    <3>1. CASE k \in 1 .. Len(down[c])
      BY <1>1, <1>9, <3>1 DEF Told
    <3>2. CASE k = Len(down[c]) + 1
      <4>1. u \in Changed(c) /\ down'[c][k][u] = uri2counter[u]
        BY <1>5, <1>9, <3>2
      <4> QED
        BY <1>4, <4>1, Numbers
    <3> QED
      BY <1>9, <3>1, <3>2
  <2>2. ASSUME NEW u \in Uris
        PROVE  \/ idws2uris'[c][u] <= asked[c][u]
               \/ \E k \in 1 .. Len(down'[c]) :
                    u \in DOMAIN down'[c][k] /\ down'[c][k][u] = idws2uris'[c][u]
    <3>1. CASE u \in Changed(c)
      <4>1. Len(down[c]) + 1 \in 1 .. Len(down'[c])
        BY <1>9
      <4>2. idws2uris'[c][u] = uri2counter[u]
        BY <1>7, <3>1
      <4> QED
        BY <1>5, <1>9, <3>1, <4>1, <4>2
    <3>2. CASE u \notin Changed(c)
      <4>1. idws2uris'[c][u] = idws2uris[c][u]
        BY <1>7, <3>2
      <4>2. ASSUME NEW k \in 1 .. Len(down[c]) PROVE k \in 1 .. Len(down'[c]) /\ down'[c][k] = down[c][k]
        BY <1>9
      <4> QED
        BY <1>1, <4>1, <4>2 DEF Told
    <3> QED
      BY <3>1, <3>2
  <2> QED
    BY <1>2, <2>1, <2>2 DEF Told
<1>14. \A u \in Uris : uri2counter[u] <= version[u]
  BY DEF Inv, QueueBound
<1> QED
  BY <1>1, <1>2, <1>10, <1>11, <1>12, <1>13, <1>14, OneMoves DEF Linked
-----------------------------------------------------------------------------
(***************************************************************************)
(* The browser.                                                            *)
(***************************************************************************)

\* The timer sends the buffer, or drops it.
LEMMA TimerStep ==
  ASSUME Inv, NEW c \in Clients, TimerFires(c)
  PROVE  Inv'
<1>1. /\ buffer[c] \in Seq(Item) /\ up[c] \in Seq(Seq(Item)) /\ Paired(c) /\ AsksForOwn(c) /\ Told(c)
      /\ uri2counter \in [Uris -> Counter \cup {None}]
  BY ClientFacts
<1>2. ClientType /\ UNCHANGED <<version, queue, read, uri2counter, idws2uris, asked, list, subscribers,
                                socket, down>>
  BY DEF TimerFires, serverVars, Inv
<1>3. /\ up = [d \in Clients |-> up[d]] /\ buffer = [d \in Clients |-> buffer[d]]
      /\ timer = [d \in Clients |-> timer[d]]
  BY <1>2 DEF ClientType
<1>4. /\ buffer'[c] = <<>> /\ buffer' = [buffer EXCEPT ![c] = buffer'[c]]
      /\ timer'[c] = "off" /\ timer' = [timer EXCEPT ![c] = timer'[c]]
  BY <1>3 DEF TimerFires
<1>5. /\ up' = [up EXCEPT ![c] = up'[c]]
      /\ up'[c] = up[c] \/ (up'[c] = Append(up[c], buffer[c]) /\ socket[c] = "open")
  <2>1. CASE timer[c] = "own" /\ socket[c] = "open"
    <3>1. up' = [up EXCEPT ![c] = Append(up[c], buffer[c])]
      BY <2>1 DEF TimerFires
    <3> QED
      BY <1>3, <2>1, <3>1
  <2>2. CASE ~(timer[c] = "own" /\ socket[c] = "open")
    <3>1. up' = up
      BY <2>2 DEF TimerFires
    <3> QED
      BY <1>2, <3>1, Unmoved
  <2> QED
    BY <2>1, <2>2
<1>6. /\ up'[c] \in Seq(Seq(Item))
      /\ \A i \in 1 .. Len(up'[c]) : \A k \in 1 .. Len(up'[c][i]) : Fits(asked[c], up'[c][i][k])
  <2>1. CASE up'[c] = up[c]
    BY <1>1, <2>1 DEF AsksForOwn
  <2>2. CASE up'[c] = Append(up[c], buffer[c])
    <3>1. /\ up'[c] \in Seq(Seq(Item)) /\ Len(up[c]) \in Nat /\ Len(up'[c]) = Len(up[c]) + 1
          /\ \A i \in 1 .. Len(up[c]) : up'[c][i] = up[c][i]
          /\ up'[c][Len(up[c]) + 1] = buffer[c]
      BY <1>1, <2>2, AppendFacts
    <3>2. ASSUME NEW i \in 1 .. Len(up'[c]) PROVE \A k \in 1 .. Len(up'[c][i]) : Fits(asked[c], up'[c][i][k])
      <4>1. i \in 1 .. Len(up[c]) \/ i = Len(up[c]) + 1
        BY <3>1
      <4> QED
        BY <1>1, <3>1, <4>1 DEF AsksForOwn
    <3> QED
      BY <3>1, <3>2
  <2> QED
    BY <1>5, <2>1, <2>2
<1>7. Form(c)
  BY <1>2, <1>4, <1>5, Unmoved DEF Form
<1>8. TypeOf(c)'
  <2>1. TypeOf(c)
    BY <1>2, Unmoved
  <2>2. buffer'[c] \in Seq(Item)
    BY <1>1, <1>4, EmptySeq
  <2> QED
    BY <1>2, <1>4, <1>6, <2>1, <2>2 DEF TypeOf
<1>9. Paired(c)'
  BY <1>1, <1>2, <1>4, <1>5 DEF Paired
<1>10. AsksForOwn(c)'
  <2>1. \A k \in 1 .. Len(buffer'[c]) : Fits(asked[c], buffer'[c][k])
    BY <1>4
  <2> QED
    BY <1>1, <1>2, <1>6, <2>1 DEF AsksForOwn
<1>11. Told(c)'
  BY <1>1, <1>2 DEF Told
<1>12. \A u \in Uris : uri2counter[u] <= version[u]
  BY DEF Inv, QueueBound
<1> QED
  BY <1>1, <1>2, <1>7, <1>8, <1>9, <1>10, <1>11, <1>12, OneMoves DEF Linked

\* A note arrives: the browser sets out to show what it was told of, or newer.
LEMMA ReceiveStep ==
  ASSUME Inv, HaveOK, NEW c \in Clients, Receive(c)
  PROVE  Inv'
<1>1. /\ idws2uris[c] \in [Uris -> Counter \cup {None}] /\ asked[c] \in [Uris -> Counter]
      /\ list[c] \in [Uris -> Counter \cup {None}]
      /\ down[c] \in Seq(Note) /\ Paired(c) /\ AsksForOwn(c) /\ Told(c)
      /\ version \in [Uris -> Counter] /\ uri2counter \in [Uris -> Counter \cup {None}]
  BY ClientFacts
<1>2. ClientType /\ UNCHANGED <<version, queue, read, uri2counter, idws2uris, subscribers, socket,
                                buffer, timer, up>>
  BY DEF Receive, serverVars, Inv
<1>3. down[c] # <<>>
  BY DEF Receive
<1>4. PICK told : told = Head(down[c])
  OBVIOUS
<1>5. /\ Tail(down[c]) \in Seq(Note) /\ told = down[c][1]
      /\ Len(down[c]) \in Nat \ {0} /\ Len(Tail(down[c])) = Len(down[c]) - 1
      /\ \A k \in 1 .. Len(Tail(down[c])) : k + 1 \in 1 .. Len(down[c]) /\ Tail(down[c])[k] = down[c][k + 1]
  BY <1>1, <1>3, <1>4, TailFacts
<1>6. PICK new : new = {u \in DOMAIN told : told[u] # have[c][u]}
  OBVIOUS
<1>7. \A u \in DOMAIN told : u \in Uris /\ told[u] \in Counter /\ told[u] <= version[u]
  BY <1>1, <1>5 DEF Told
<1>8. /\ asked' = [asked EXCEPT ![c] = [u \in Uris |-> IF u \in new THEN version[u] ELSE asked[c][u]]]
      /\ list' = [list EXCEPT ![c] = [u \in Uris |->
                    IF u \in new /\ list[c][u] # None THEN told[u] ELSE list[c][u]]]
      /\ down' = [down EXCEPT ![c] = Tail(down[c])]
  BY <1>4, <1>6 DEF Receive
<1>9. /\ asked'[c] = [u \in Uris |-> IF u \in new THEN version[u] ELSE asked[c][u]]
      /\ asked' = [asked EXCEPT ![c] = asked'[c]]
  BY <1>2, <1>8 DEF ClientType
<1>10. /\ list'[c] = [u \in Uris |-> IF u \in new /\ list[c][u] # None THEN told[u] ELSE list[c][u]]
       /\ list' = [list EXCEPT ![c] = list'[c]]
  BY <1>2, <1>8 DEF ClientType
<1>11. down'[c] = Tail(down[c]) /\ down' = [down EXCEPT ![c] = down'[c]]
  <2>1. down = [d \in Clients |-> down[d]]
    BY <1>2 DEF ClientType
  <2> QED
    BY <1>8, <2>1
<1>12. asked'[c] \in [Uris -> Counter] /\ list'[c] \in [Uris -> Counter \cup {None}]
  <2>1. \A u \in new : told[u] \in Counter
    BY <1>6, <1>7
  <2> QED
    BY <1>1, <1>9, <1>10, <2>1
<1>13. ASSUME NEW u \in Uris
       PROVE  /\ asked[c][u] <= asked'[c][u] /\ asked'[c][u] <= version[u]
              /\ list'[c][u] <= asked'[c][u]
              /\ u \in DOMAIN told => told[u] <= asked'[c][u]
              /\ list'[c][u] = None <=> list[c][u] = None
  <2>1. /\ asked[c][u] \in Int /\ list[c][u] \in Int /\ version[u] \in Int
        /\ list[c][u] <= asked[c][u] /\ asked[c][u] <= version[u]
    BY Numbers
  <2>2. CASE u \in new
    <3>1. u \in DOMAIN told /\ told[u] \in Counter /\ told[u] \in Int /\ told[u] <= version[u]
          /\ told[u] # None
      BY <1>6, <1>7, <2>2, CounterFacts
    <3>2. /\ asked'[c][u] = version[u]
          /\ list'[c][u] = IF list[c][u] # None THEN told[u] ELSE list[c][u]
      BY <1>9, <1>10, <2>2
    <3> QED
      BY <2>1, <3>1, <3>2
  <2>3. CASE u \notin new
    <3>1. asked'[c][u] = asked[c][u] /\ list'[c][u] = list[c][u]
      BY <1>9, <1>10, <2>3
    <3>2. u \in DOMAIN told => told[u] = have[c][u]
      BY <1>6, <2>3
    <3>3. have[c][u] <= asked[c][u]
      BY DEF HaveOK
    <3> QED
      BY <2>1, <3>1, <3>2, <3>3
  <2> QED
    BY <2>2, <2>3
<1>14. Form(c)
  BY <1>2, <1>9, <1>10, <1>11, Unmoved DEF Form
<1>15. TypeOf(c)'
  <2>1. TypeOf(c)
    BY <1>2, Unmoved
  <2> QED
    BY <1>2, <1>5, <1>11, <1>12, <2>1 DEF TypeOf
<1>16. Paired(c)'
  <2>1. socket[c] = "open"
    BY <1>1, <1>3 DEF Paired
  <2> QED
    BY <1>1, <1>2, <1>13, <2>1 DEF Paired
<1>17. AsksForOwn(c)'
  <2>1. \A it : Fits(asked[c], it) => Fits(asked'[c], it)
    BY <1>1, <1>12, <1>13, FitsGrow
  <2>2. \A k \in 1 .. Len(buffer[c]) : Fits(asked'[c], buffer[c][k])
    BY <1>1, <2>1 DEF AsksForOwn
  <2>3. \A i \in 1 .. Len(up[c]) : \A k \in 1 .. Len(up[c][i]) : Fits(asked'[c], up[c][i][k])
    BY <1>1, <2>1 DEF AsksForOwn
  <2> QED
    BY <1>2, <1>13, <2>2, <2>3 DEF AsksForOwn
<1>18. Told(c)'
  <2>1. ASSUME NEW k \in 1 .. Len(down'[c]), NEW u \in DOMAIN down'[c][k]
        PROVE  u \in Uris /\ down'[c][k][u] \in Counter /\ down'[c][k][u] <= version[u]
    <3>1. k + 1 \in 1 .. Len(down[c]) /\ down'[c][k] = down[c][k + 1]
      BY <1>5, <1>11
    <3> QED
      BY <1>1, <3>1 DEF Told
  <2>2. ASSUME NEW u \in Uris
        PROVE  \/ idws2uris[c][u] <= asked'[c][u]
               \/ \E k \in 1 .. Len(down'[c]) :
                    u \in DOMAIN down'[c][k] /\ down'[c][k][u] = idws2uris[c][u]
    <3>1. asked[c][u] <= asked'[c][u] /\ idws2uris[c][u] \in Int /\ asked[c][u] \in Int /\ asked'[c][u] \in Int
      BY <1>12, <1>13, Numbers, CounterFacts
    <3>2. CASE idws2uris[c][u] <= asked[c][u]
      BY <3>1, <3>2
    <3>3. ASSUME NEW k \in 1 .. Len(down[c]), u \in DOMAIN down[c][k], down[c][k][u] = idws2uris[c][u]
          PROVE  \/ idws2uris[c][u] <= asked'[c][u]
                 \/ \E j \in 1 .. Len(down'[c]) :
                      u \in DOMAIN down'[c][j] /\ down'[c][j][u] = idws2uris[c][u]
      <4>1. CASE k = 1
        BY <1>5, <1>13, <3>3, <4>1
      <4>2. CASE k # 1
        <5>1. k - 1 \in 1 .. Len(down'[c])
          BY <1>5, <1>11, <4>2
        <5>2. down'[c][k - 1] = down[c][k]
          <6>1. (k - 1) + 1 = k
            OBVIOUS
          <6> QED
            BY <1>5, <1>11, <5>1, <6>1
        <5> QED
          BY <3>3, <5>1, <5>2
      <4> QED
        BY <4>1, <4>2
    <3> QED
      BY <1>1, <3>2, <3>3 DEF Told
  <2> QED
    BY <1>2, <2>1, <2>2 DEF Told
<1>19. \A u \in Uris : uri2counter[u] <= version[u]
  BY DEF Inv, QueueBound
<1> QED
  BY <1>1, <1>2, <1>14, <1>15, <1>16, <1>17, <1>18, <1>19, OneMoves DEF Linked

\* sendMessage(): the buffer and its timer.
LEMMA BufferFacts ==
  ASSUME Inv, NEW c \in Clients, NEW ms \in Seq(Item), Buffer(c, ms),
         \A k \in 1 .. Len(ms) : Fits(asked[c], ms[k])
  PROVE  /\ buffer' = [buffer EXCEPT ![c] = buffer'[c]] /\ timer' = [timer EXCEPT ![c] = timer'[c]]
         /\ buffer'[c] \in Seq(Item) /\ timer'[c] \in {"off", "own", "old", "late"}
         /\ buffer'[c] # <<>> <=> timer'[c] # "off"
         /\ \A k \in 1 .. Len(buffer'[c]) : Fits(asked[c], buffer'[c][k])
<1>1. /\ buffer[c] \in Seq(Item) /\ timer[c] \in {"off", "own", "old", "late"}
      /\ Paired(c) /\ AsksForOwn(c)
  BY ClientFacts
<1>2. buffer = [d \in Clients |-> buffer[d]] /\ timer = [d \in Clients |-> timer[d]]
  BY DEF Inv, ClientType
<1>3. buffer'[c] = buffer[c] \o ms /\ buffer' = [buffer EXCEPT ![c] = buffer'[c]]
  BY <1>2 DEF Buffer
<1>4. /\ timer'[c] = IF timer[c] # "off" \/ ms = <<>> THEN timer[c]
                     ELSE IF socket[c] = "closed" THEN "late" ELSE "own"
      /\ timer' = [timer EXCEPT ![c] = timer'[c]]
  BY <1>2 DEF Buffer
<1>5. /\ buffer'[c] \in Seq(Item) /\ Len(buffer[c]) \in Nat /\ Len(ms) \in Nat
      /\ Len(buffer'[c]) = Len(buffer[c]) + Len(ms)
      /\ \A k \in 1 .. Len(buffer[c]) : buffer'[c][k] = buffer[c][k]
      /\ \A k \in 1 .. Len(ms) : buffer'[c][Len(buffer[c]) + k] = ms[k]
      /\ buffer'[c] = <<>> <=> buffer[c] = <<>> /\ ms = <<>>
  BY <1>1, <1>3, ConcatFacts
<1>6. buffer[c] # <<>> <=> timer[c] # "off"
  BY <1>1 DEF Paired
<1>7. timer'[c] \in {"off", "own", "old", "late"} /\ (buffer'[c] # <<>> <=> timer'[c] # "off")
  BY <1>1, <1>4, <1>5, <1>6
<1>8. ASSUME NEW k \in 1 .. Len(buffer'[c]) PROVE Fits(asked[c], buffer'[c][k])
  <2>1. CASE k \in 1 .. Len(buffer[c])
    BY <1>1, <1>5, <2>1 DEF AsksForOwn
  <2>2. CASE k \notin 1 .. Len(buffer[c])
    <3>1. k - Len(buffer[c]) \in 1 .. Len(ms) /\ Len(buffer[c]) + (k - Len(buffer[c])) = k
      BY <1>5, <2>2
    <3>2. buffer'[c][Len(buffer[c]) + (k - Len(buffer[c]))] = ms[k - Len(buffer[c])]
      BY <1>5, <3>1
    <3> QED
      BY <3>1, <3>2
  <2> QED
    BY <2>1, <2>2
<1> QED
  BY <1>3, <1>4, <1>5, <1>7, <1>8

\* The individual is loaded: the version a browser has grows.
LEMMA LoadStep ==
  ASSUME Inv, NEW c \in Clients, NEW u \in Uris, Load(c, u)
  PROVE  Inv'
<1>1. /\ asked[c] \in [Uris -> Counter] /\ version \in [Uris -> Counter]
      /\ uri2counter \in [Uris -> Counter \cup {None}]
  BY ClientFacts
<1>2. ClientType /\ UNCHANGED <<version, queue, read, uri2counter, idws2uris, list, subscribers, socket,
                                buffer, timer, up, down>>
  BY DEF Load, serverVars, Inv
<1>3. asked'[c] = [asked[c] EXCEPT ![u] = version[u]] /\ asked' = [asked EXCEPT ![c] = asked'[c]]
  BY <1>2 DEF Load, ClientType
<1>4. asked'[c] \in [Uris -> Counter]
  BY <1>1, <1>3
<1>5. \A w \in Uris : asked[c][w] <= asked'[c][w] /\ asked'[c][w] <= version[w] /\ version[w] <= version[w]
  <2> SUFFICES ASSUME NEW w \in Uris PROVE /\ asked[c][w] <= asked'[c][w] /\ asked'[c][w] <= version[w]
                                           /\ version[w] <= version[w]
    OBVIOUS
  <2>1. asked[c][w] \in Int /\ version[w] \in Int /\ asked[c][w] <= version[w]
    BY Numbers
  <2>2. asked'[c][w] = asked[c][w] \/ asked'[c][w] = version[w]
    BY <1>1, <1>3
  <2> QED
    BY <2>1, <2>2
<1>6. Linked(c)'
  <2>1. Still(c) /\ version' = version
    BY <1>2 DEF Still
  <2> QED
    BY <1>1, <1>4, <1>5, <2>1, LinkedFrame
<1>7. Form(c)
  BY <1>2, <1>3, Unmoved DEF Form
<1>8. TypeOf(c)'
  <2>1. TypeOf(c)
    BY <1>2, Unmoved
  <2> QED
    BY <1>2, <1>4, <2>1 DEF TypeOf
<1>9. \A w \in Uris : uri2counter[w] <= version[w]
  BY DEF Inv, QueueBound
<1> QED
  BY <1>1, <1>2, <1>6, <1>7, <1>8, <1>9, OneMoves

\* A step of a page: its subscribers and list change as given, and a message
\* may be buffered.
LEMMA PageStep ==
  ASSUME Inv, NEW c \in Clients, NEW u \in Uris, NEW n \in 0 .. MaxShown, NEW v \in Counter \cup {None},
         v <= asked[c][u], n = 0 <=> v = None,
         subscribers' = [subscribers EXCEPT ![c][u] = n],
         list' = [list EXCEPT ![c][u] = v],
         \/ UNCHANGED <<buffer, timer>>
         \/ \E it \in Item : Fits(asked[c], it) /\ Buffer(c, <<it>>),
         UNCHANGED <<version, queue, read, uri2counter, idws2uris, asked, socket, up, down>>
  PROVE  Inv'
<1>1. /\ list[c] \in [Uris -> Counter \cup {None}] /\ subscribers[c] \in [Uris -> Nat]
      /\ buffer[c] \in Seq(Item) /\ timer[c] \in {"off", "own", "old", "late"}
      /\ Paired(c) /\ AsksForOwn(c) /\ Told(c) /\ uri2counter \in [Uris -> Counter \cup {None}]
  BY ClientFacts
<1>2. ClientType
  BY DEF Inv
<1>3. n \in Nat
  BY CcusAssumption
<1>4. /\ subscribers'[c] = [subscribers[c] EXCEPT ![u] = n]
      /\ subscribers' = [subscribers EXCEPT ![c] = subscribers'[c]]
  BY <1>2 DEF ClientType
<1>5. list'[c] = [list[c] EXCEPT ![u] = v] /\ list' = [list EXCEPT ![c] = list'[c]]
  BY <1>2 DEF ClientType
<1>6. subscribers'[c] \in [Uris -> Nat] /\ list'[c] \in [Uris -> Counter \cup {None}]
  BY <1>1, <1>3, <1>4, <1>5
<1>7. \A w \in Uris : \/ w = u /\ subscribers'[c][w] = n /\ list'[c][w] = v
                      \/ subscribers'[c][w] = subscribers[c][w] /\ list'[c][w] = list[c][w]
  BY <1>1, <1>4, <1>5
<1>8. /\ buffer' = [buffer EXCEPT ![c] = buffer'[c]] /\ timer' = [timer EXCEPT ![c] = timer'[c]]
      /\ buffer'[c] \in Seq(Item) /\ timer'[c] \in {"off", "own", "old", "late"}
      /\ buffer'[c] # <<>> <=> timer'[c] # "off"
      /\ \A k \in 1 .. Len(buffer'[c]) : Fits(asked[c], buffer'[c][k])
  <2>1. CASE UNCHANGED <<buffer, timer>>
    <3>1. buffer' = [buffer EXCEPT ![c] = buffer'[c]] /\ timer' = [timer EXCEPT ![c] = timer'[c]]
      BY <1>2, <2>1, Unmoved
    <3>2. buffer'[c] # <<>> <=> timer'[c] # "off"
      BY <1>1, <2>1 DEF Paired
    <3>3. \A k \in 1 .. Len(buffer'[c]) : Fits(asked[c], buffer'[c][k])
      BY <1>1, <2>1 DEF AsksForOwn
    <3> QED
      BY <1>1, <2>1, <3>1, <3>2, <3>3
  <2>2. ASSUME NEW it \in Item, Fits(asked[c], it), Buffer(c, <<it>>)
        PROVE  /\ buffer' = [buffer EXCEPT ![c] = buffer'[c]] /\ timer' = [timer EXCEPT ![c] = timer'[c]]
               /\ buffer'[c] \in Seq(Item) /\ timer'[c] \in {"off", "own", "old", "late"}
               /\ buffer'[c] # <<>> <=> timer'[c] # "off"
               /\ \A k \in 1 .. Len(buffer'[c]) : Fits(asked[c], buffer'[c][k])
    <3>1. <<it>> \in Seq(Item) /\ \A k \in 1 .. Len(<<it>>) : <<it>>[k] = it
      OBVIOUS
    <3>2. \A k \in 1 .. Len(<<it>>) : Fits(asked[c], <<it>>[k])
      BY <2>2, <3>1
    <3> QED
      BY <2>2, <3>1, <3>2, BufferFacts
  <2> QED
    BY <2>1, <2>2
<1>9. Form(c)
  BY <1>2, <1>4, <1>5, <1>8, Unmoved DEF Form
<1>10. TypeOf(c)'
  <2>1. TypeOf(c)
    BY <1>2, Unmoved
  <2> QED
    BY <1>6, <1>8, <2>1 DEF TypeOf
<1>11. Paired(c)'
  <2>1. \A w \in Uris : subscribers'[c][w] \in 0 .. MaxShown /\ (subscribers'[c][w] = 0 <=> list'[c][w] = None)
    BY <1>1, <1>7 DEF Paired
  <2> QED
    BY <1>1, <1>8, <2>1 DEF Paired
<1>12. AsksForOwn(c)'
  BY <1>1, <1>7, <1>8 DEF AsksForOwn
<1>13. Told(c)'
  BY <1>1 DEF Told
<1>14. \A w \in Uris : uri2counter[w] <= version[w]
  BY DEF Inv, QueueBound
<1> QED
  BY <1>1, <1>9, <1>10, <1>11, <1>12, <1>13, <1>14, OneMoves DEF Linked

\* subscribe().
LEMMA SubscribeStep ==
  ASSUME Inv, HaveOK, NEW c \in Clients, NEW u \in Uris, Subscribe(c, u)
  PROVE  Inv'
<1>1. /\ asked[c] \in [Uris -> Counter] /\ list[c] \in [Uris -> Counter \cup {None}]
      /\ subscribers[c] \in [Uris -> Nat] /\ Paired(c)
  BY ClientFacts
<1>2. /\ list \in [Clients -> [Uris -> Counter \cup {None}]]
      /\ UNCHANGED <<version, queue, read, uri2counter, idws2uris, asked, socket, up, down>>
      /\ subscribers[c][u] < MaxShown
  BY DEF Subscribe, serverVars, Inv, ClientType
<1>3. subscribers' = [subscribers EXCEPT ![c][u] = subscribers[c][u] + 1]
  BY DEF Subscribe
<1>4. subscribers[c][u] + 1 \in 0 .. MaxShown /\ subscribers[c][u] + 1 # 0
  BY <1>1, <1>2, CcusAssumption
<1>5. CASE list[c][u] # None
  <2>1. list' = [list EXCEPT ![c][u] = list[c][u]]
    BY <1>2, <1>5 DEF Subscribe
  <2>2. UNCHANGED <<buffer, timer>>
    BY <1>5 DEF Subscribe
  <2>3. list[c][u] \in Counter \cup {None} /\ list[c][u] <= asked[c][u]
    BY <1>1, Numbers
  <2> QED
    BY <1>2, <1>3, <1>4, <1>5, <2>1, <2>2, <2>3, PageStep
<1>6. CASE list[c][u] = None
  <2>1. list' = [list EXCEPT ![c][u] = have[c][u]] /\ Buffer(c, <<Add(u, have[c][u])>>)
    BY <1>6 DEF Subscribe
  <2>2. have[c][u] \in Counter /\ have[c][u] # None /\ have[c][u] <= asked[c][u]
    BY CounterFacts DEF HaveOK
  <2>3. Add(u, have[c][u]) \in Item /\ Fits(asked[c], Add(u, have[c][u]))
    BY <2>2, ItemFacts DEF Fits
  <2>4. \E it \in Item : Fits(asked[c], it) /\ Buffer(c, <<it>>)
    BY <2>1, <2>3
  <2> QED
    BY <1>2, <1>3, <1>4, <2>1, <2>2, <2>4, PageStep
<1> QED
  BY <1>5, <1>6

\* unsubscribe().
LEMMA UnsubscribeStep ==
  ASSUME Inv, NEW c \in Clients, NEW u \in Uris, Unsubscribe(c, u)
  PROVE  Inv'
<1>1. /\ asked[c] \in [Uris -> Counter] /\ list[c] \in [Uris -> Counter \cup {None}]
      /\ subscribers[c] \in [Uris -> Nat] /\ Paired(c)
  BY ClientFacts
<1>2. /\ list \in [Clients -> [Uris -> Counter \cup {None}]]
      /\ UNCHANGED <<version, queue, read, uri2counter, idws2uris, asked, socket, up, down>>
      /\ list[c][u] # None
  BY DEF Unsubscribe, serverVars, Inv, ClientType
<1>3. subscribers' = [subscribers EXCEPT ![c][u] = subscribers[c][u] - 1]
  BY DEF Unsubscribe
<1>4. subscribers[c][u] - 1 \in 0 .. MaxShown
  BY <1>1, <1>2, CcusAssumption DEF Paired
<1>5. CASE subscribers[c][u] > 1
  <2>1. list' = [list EXCEPT ![c][u] = list[c][u]]
    BY <1>2, <1>5 DEF Unsubscribe
  <2>2. UNCHANGED <<buffer, timer>>
    BY <1>5 DEF Unsubscribe
  <2>3. list[c][u] \in Counter \cup {None} /\ list[c][u] <= asked[c][u]
    BY <1>1, Numbers
  <2>4. subscribers[c][u] - 1 # 0
    BY <1>1, <1>5
  <2> QED
    BY <1>2, <1>3, <1>4, <2>1, <2>2, <2>3, <2>4, PageStep
<1>6. CASE ~(subscribers[c][u] > 1)
  <2>1. list' = [list EXCEPT ![c][u] = None] /\ Buffer(c, <<Del(u)>>)
    BY <1>6 DEF Unsubscribe
  <2>2. None \in Counter \cup {None} /\ None <= asked[c][u]
    BY Numbers
  <2>3. Del(u) \in Item /\ Fits(asked[c], Del(u))
    BY ItemFacts DEF Fits
  <2>4. \E it \in Item : Fits(asked[c], it) /\ Buffer(c, <<it>>)
    BY <2>1, <2>3
  <2>5. subscribers[c][u] - 1 = 0
    BY <1>1, <1>4, <1>6
  <2> QED
    BY <1>2, <1>3, <1>4, <2>1, <2>2, <2>4, <2>5, PageStep
<1> QED
  BY <1>5, <1>6
-----------------------------------------------------------------------------
(***************************************************************************)
(* The connection.                                                         *)
(***************************************************************************)

\* closedHandler(): a new socket.
LEMMA ReconnectStep ==
  ASSUME Inv, NEW c \in Clients, Reconnect(c)
  PROVE  Inv'
<1>1. Paired(c) /\ AsksForOwn(c) /\ Told(c) /\ uri2counter \in [Uris -> Counter \cup {None}]
  BY ClientFacts
<1>2. ClientType /\ UNCHANGED <<version, queue, read, uri2counter, idws2uris, asked, list, subscribers,
                                buffer, timer, up, down>>
  BY DEF Reconnect, serverVars, Inv
<1>3. socket[c] = "closed" /\ socket'[c] = "connecting" /\ socket' = [socket EXCEPT ![c] = socket'[c]]
  BY <1>2 DEF Reconnect, ClientType
<1>4. Form(c)
  BY <1>2, <1>3, Unmoved DEF Form
<1>5. TypeOf(c)'
  <2>1. TypeOf(c)
    BY <1>2, Unmoved
  <2> QED
    BY <1>2, <1>3, <2>1 DEF TypeOf
<1>6. Paired(c)' /\ AsksForOwn(c)' /\ Told(c)'
  BY <1>1, <1>2, <1>3 DEF Paired, AsksForOwn, Told
<1>7. \A w \in Uris : uri2counter[w] <= version[w]
  BY DEF Inv, QueueBound
<1> QED
  BY <1>1, <1>2, <1>4, <1>5, <1>6, <1>7, OneMoves DEF Linked

\* openedHandler() and restore(): the subscriptions of the list are its own.
LEMMA OpenStep ==
  ASSUME Inv, NEW c \in Clients, Open(c)
  PROVE  Inv'
<1>1. /\ Paired(c) /\ AsksForOwn(c) /\ Told(c) /\ uri2counter \in [Uris -> Counter \cup {None}]
      /\ list[c] \in [Uris -> Counter \cup {None}]
  BY ClientFacts
<1>2. ClientType /\ UNCHANGED <<version, queue, read, uri2counter, idws2uris, asked, list, subscribers,
                                down>>
  BY DEF Open, serverVars, Inv
<1>3. socket'[c] = "open" /\ socket' = [socket EXCEPT ![c] = socket'[c]]
  BY <1>2 DEF Open, ClientType
<1>4. up'[c] = <<<<Handshake>>, <<DelAll>>>> /\ up' = [up EXCEPT ![c] = up'[c]]
  <2>1. up = [d \in Clients |-> up[d]]
    BY <1>2 DEF ClientType
  <2> QED
    BY <2>1 DEF Open
<1>5. PICK ms : ms = Restored(c)
  OBVIOUS
<1>6. /\ ms \in Seq(Item)
      /\ \A k \in 1 .. Len(ms) : \E u \in Uris : list[c][u] # None /\ ms[k] = Add(u, list[c][u])
  BY <1>2, <1>5, RestoredFacts
<1>7. \A k \in 1 .. Len(ms) : Fits(asked[c], ms[k])
  <2> SUFFICES ASSUME NEW k \in 1 .. Len(ms) PROVE Fits(asked[c], ms[k])
    OBVIOUS
  <2>1. PICK u \in Uris : list[c][u] # None /\ ms[k] = Add(u, list[c][u])
    BY <1>6
  <2>2. list[c][u] \in Counter /\ list[c][u] <= asked[c][u]
    BY <1>1, <2>1, Numbers
  <2> QED
    BY <2>1, <2>2, ItemFacts DEF Fits
<1>8. Buffer(c, ms)
  BY <1>5 DEF Open
<1>9. /\ buffer' = [buffer EXCEPT ![c] = buffer'[c]] /\ timer' = [timer EXCEPT ![c] = timer'[c]]
      /\ buffer'[c] \in Seq(Item) /\ timer'[c] \in {"off", "own", "old", "late"}
      /\ buffer'[c] # <<>> <=> timer'[c] # "off"
      /\ \A k \in 1 .. Len(buffer'[c]) : Fits(asked[c], buffer'[c][k])
  BY <1>6, <1>7, <1>8, BufferFacts
<1>10. /\ up'[c] \in Seq(Seq(Item)) /\ Len(up'[c]) = 2
       /\ up'[c][1] = <<Handshake>> /\ up'[c][2] = <<DelAll>>
  <2>1. <<Handshake>> \in Seq(Item) /\ <<DelAll>> \in Seq(Item)
    BY ItemFacts
  <2> QED
    BY <1>4, <2>1
<1>11. \A i \in 1 .. Len(up'[c]) : \A k \in 1 .. Len(up'[c][i]) : Fits(asked[c], up'[c][i][k])
  <2>1. Fits(asked[c], Handshake) /\ Fits(asked[c], DelAll)
    BY ItemFacts DEF Fits
  <2>2. /\ \A k \in 1 .. Len(<<Handshake>>) : <<Handshake>>[k] = Handshake
        /\ \A k \in 1 .. Len(<<DelAll>>) : <<DelAll>>[k] = DelAll
    OBVIOUS
  <2>3. ASSUME NEW i \in 1 .. Len(up'[c]), NEW k \in 1 .. Len(up'[c][i]) PROVE Fits(asked[c], up'[c][i][k])
    <3>1. i = 1 \/ i = 2
      BY <1>10
    <3> QED
      BY <1>10, <2>1, <2>2, <3>1
  <2> QED
    BY <2>3
<1>12. Form(c)
  BY <1>2, <1>3, <1>4, <1>9, Unmoved DEF Form
<1>13. TypeOf(c)'
  <2>1. TypeOf(c)
    BY <1>2, Unmoved
  <2> QED
    BY <1>2, <1>3, <1>9, <1>10, <2>1 DEF TypeOf
<1>14. Paired(c)'
  BY <1>1, <1>2, <1>3, <1>9 DEF Paired
<1>15. AsksForOwn(c)'
  BY <1>1, <1>2, <1>9, <1>11 DEF AsksForOwn
<1>16. Told(c)'
  BY <1>1, <1>2 DEF Told
<1>17. \A w \in Uris : uri2counter[w] <= version[w]
  BY DEF Inv, QueueBound
<1> QED
  BY <1>1, <1>2, <1>12, <1>13, <1>14, <1>15, <1>16, <1>17, OneMoves DEF Linked

\* Connections are lost, with or without the counters of the server.
LEMMA LoseStep ==
  ASSUME Inv, NEW cs, Lose(cs), uri2counter' = uri2counter \/ uri2counter' = Nothing
  PROVE  Inv'
<1>1. /\ version \in [Uris -> Counter] /\ uri2counter \in [Uris -> Counter \cup {None}]
      /\ ClientType /\ QueueBound /\ ServerType
  BY DEF Inv, ServerType
<1>2. UNCHANGED <<version, queue, read, asked, list, subscribers, buffer>>
  BY DEF Lose
<1>3. Nothing \in [Uris -> Counter \cup {None}] /\ \A u \in Uris : Nothing[u] = None
  BY DEF Nothing
<1>4. uri2counter' \in [Uris -> Counter \cup {None}] /\ \A u \in Uris : uri2counter'[u] <= version[u]
  <2>1. \A u \in Uris : uri2counter[u] <= version[u] /\ None <= version[u]
    BY <1>1, CounterFacts DEF QueueBound
  <2> QED
    BY <1>1, <1>3, <2>1
<1>5. ServerType' /\ QueueBound'
  BY <1>1, <1>2, <1>4 DEF ServerType, QueueBound
<1>6. ASSUME NEW c \in Clients
      PROVE  \/ Still(c)
             \/ /\ up'[c] = <<>> /\ down'[c] = <<>> /\ idws2uris'[c] = Nothing /\ socket'[c] = "closed"
                /\ timer'[c] = IF timer[c] # "off" THEN "old" ELSE timer[c]
  <2>1. CASE c \in cs
    BY <2>1 DEF Lose
  <2>2. CASE c \notin cs
    BY <1>2, <2>2 DEF Lose, Still
  <2> QED
    BY <2>1, <2>2
<1>7. ClientType'
  <2>1. /\ idws2uris' = [c \in Clients |-> idws2uris'[c]] /\ socket' = [c \in Clients |-> socket'[c]]
        /\ timer' = [c \in Clients |-> timer'[c]] /\ up' = [c \in Clients |-> up'[c]]
        /\ down' = [c \in Clients |-> down'[c]]
    BY DEF Lose
  <2>2. ASSUME NEW c \in Clients
        PROVE  /\ idws2uris'[c] \in [Uris -> Counter \cup {None}]
               /\ socket'[c] \in {"connecting", "open", "closed"}
               /\ timer'[c] \in {"off", "own", "old", "late"}
               /\ up'[c] \in Seq(Seq(Item)) /\ down'[c] \in Seq(Note)
    <3>1. /\ idws2uris[c] \in [Uris -> Counter \cup {None}]
          /\ socket[c] \in {"connecting", "open", "closed"}
          /\ timer[c] \in {"off", "own", "old", "late"}
          /\ up[c] \in Seq(Seq(Item)) /\ down[c] \in Seq(Note)
      BY ClientFacts
    <3>2. <<>> \in Seq(Seq(Item)) /\ <<>> \in Seq(Note)
      BY <3>1, EmptySeq, Zenon
    <3>3. CASE Still(c)
      BY <3>1, <3>3 DEF Still
    <3>4. CASE /\ up'[c] = <<>> /\ down'[c] = <<>> /\ idws2uris'[c] = Nothing /\ socket'[c] = "closed"
               /\ timer'[c] = IF timer[c] # "off" THEN "old" ELSE timer[c]
      BY <1>3, <3>1, <3>2, <3>4
    <3> QED
      BY <1>6, <3>3, <3>4
  <2>3. idws2uris' \in [Clients -> [Uris -> Counter \cup {None}]]
    BY <2>1, <2>2
  <2>4. socket' \in [Clients -> {"connecting", "open", "closed"}]
    BY <2>1, <2>2
  <2>5. timer' \in [Clients -> {"off", "own", "old", "late"}]
    BY <2>1, <2>2
  <2>6. up' \in [Clients -> Seq(Seq(Item))]
    BY <2>1, <2>2, Zenon
  <2>7. down' \in [Clients -> Seq(Note)]
    BY <2>1, <2>2, Zenon
  <2> QED
    BY <1>1, <1>2, <2>3, <2>4, <2>5, <2>6, <2>7 DEF ClientType
<1>8. ASSUME NEW c \in Clients PROVE Linked(c)'
  <2>1. /\ asked[c] \in [Uris -> Counter] /\ Paired(c) /\ AsksForOwn(c) /\ Told(c)
        /\ timer[c] \in {"off", "own", "old", "late"}
    BY ClientFacts
  <2>2. \A u \in Uris : /\ asked[c][u] <= version[u] /\ None <= asked[c][u]
                        /\ asked[c][u] <= asked[c][u] /\ version[u] <= version[u]
    BY <1>1, <2>1, Numbers
  <2>3. CASE Still(c)
    BY <1>1, <1>2, <2>1, <2>2, <2>3, LinkedFrame
  <2>4. CASE /\ up'[c] = <<>> /\ down'[c] = <<>> /\ idws2uris'[c] = Nothing /\ socket'[c] = "closed"
             /\ timer'[c] = IF timer[c] # "off" THEN "old" ELSE timer[c]
    <3>1. timer'[c] # "off" <=> timer[c] # "off"
      BY <2>1, <2>4
    <3>2. Paired(c)'
      BY <1>2, <2>1, <2>4, <3>1 DEF Paired
    <3>3. Len(up'[c]) = 0 /\ Len(down'[c]) = 0
      BY <2>4
    <3>4. AsksForOwn(c)'
      BY <1>2, <2>1, <3>3 DEF AsksForOwn
    <3>5. Told(c)'
      <4>1. \A u \in Uris : idws2uris'[c][u] <= asked'[c][u]
        BY <1>2, <1>3, <2>2, <2>4
      <4> QED
        BY <3>3, <4>1 DEF Told
    <3> QED
      BY <3>2, <3>4, <3>5 DEF Linked
  <2> QED
    BY <1>6, <2>3, <2>4
<1> QED
  BY <1>5, <1>7, <1>8 DEF Inv
-----------------------------------------------------------------------------
(***************************************************************************)
(* The theorems.                                                           *)
(***************************************************************************)

\* The first state.
LEMMA InvInit == Init => Inv /\ HaveOK
<1> SUFFICES ASSUME Init PROVE Inv /\ HaveOK
  OBVIOUS
<1>1. ServerType
  <2>1. queue \in Seq(Record) /\ read \in 0 .. Len(queue)
    BY DEF Init
  <2>2. version \in [Uris -> Counter] /\ uri2counter \in [Uris -> Counter \cup {None}]
    BY CounterFacts DEF Init
  <2> QED
    BY <2>1, <2>2 DEF ServerType
<1>2. ClientType
  <2>1. <<>> \in Seq(Item) /\ <<>> \in Seq(Seq(Item)) /\ <<>> \in Seq(Note)
    OBVIOUS
  <2>2. idws2uris \in [Clients -> [Uris -> Counter \cup {None}]]
        /\ list \in [Clients -> [Uris -> Counter \cup {None}]]
    BY DEF Init, Nothing
  <2>3. asked \in [Clients -> [Uris -> Counter]]
    BY <1>1 DEF Init, ServerType
  <2>4. /\ subscribers \in [Clients -> [Uris -> Nat]]
        /\ socket \in [Clients -> {"connecting", "open", "closed"}]
        /\ timer \in [Clients -> {"off", "own", "old", "late"}]
    BY DEF Init
  <2>5. buffer \in [Clients -> Seq(Item)]
    BY <2>1, Zenon DEF Init
  <2>6. up \in [Clients -> Seq(Seq(Item))]
    BY <2>1, Zenon DEF Init
  <2>7. down \in [Clients -> Seq(Note)]
    BY <2>1, Zenon DEF Init
  <2> QED
    BY <2>2, <2>3, <2>4, <2>5, <2>6, <2>7 DEF ClientType
<1>3. QueueBound
  <2>1. \A u \in Uris : uri2counter[u] <= version[u]
    BY DEF Init, None
  <2>2. Len(queue) = 0
    BY DEF Init
  <2> QED
    BY <2>1, <2>2 DEF QueueBound
<1>4. ASSUME NEW c \in Clients PROVE Linked(c)
  <2>1. /\ \A u \in Uris : /\ list[c][u] = None /\ idws2uris[c][u] = None /\ asked[c][u] = 0
                           /\ version[u] = 0 /\ subscribers[c][u] = 0
        /\ buffer[c] = <<>> /\ timer[c] = "off" /\ socket[c] = "open"
        /\ up[c] = <<>> /\ down[c] = <<>>
    BY DEF Init, Nothing
  <2>2. Len(buffer[c]) = 0 /\ Len(up[c]) = 0 /\ Len(down[c]) = 0
    BY <2>1
  <2>3. Paired(c)
    BY <2>1, CcusAssumption DEF Paired
  <2>4. AsksForOwn(c)
    BY <2>1, <2>2 DEF AsksForOwn, None
  <2>5. Told(c)
    BY <2>1, <2>2 DEF Told, None
  <2> QED
    BY <2>3, <2>4, <2>5 DEF Linked
<1>5. HaveOK
  BY CcusAssumption DEF Init, HaveOK, Counter
<1> QED
  BY <1>1, <1>2, <1>3, <1>4, <1>5 DEF Inv

\* What is shown stays behind what a browser set out to show.
LEMMA HaveStep ==
  ASSUME Inv, HaveOK, [Next]_vars
  PROVE  HaveOK'
<1>1. /\ have \in [Clients -> [Uris -> Counter]] /\ asked \in [Clients -> [Uris -> Counter]]
      /\ version \in [Uris -> Counter]
      /\ \A c \in Clients, u \in Uris : have[c][u] <= asked[c][u]
  BY DEF HaveOK, Inv, ClientType, ServerType
<1>2. \A c \in Clients, u \in Uris : /\ have[c][u] \in Int /\ asked[c][u] \in Int
                                      /\ version[u] \in Int /\ asked[c][u] <= version[u]
  BY Numbers, <1>1, CounterFacts
<1>3. CASE UNCHANGED <<have, asked>>
  BY <1>3 DEF HaveOK
<1>4. ASSUME NEW u \in Uris, NEW by, Change(u, by) PROVE HaveOK'
  <2>1. version'[u] = version[u] + 1 /\ version'[u] \in Counter /\ version'[u] \in Int
    BY <1>1, <1>4, CcusAssumption DEF Change, Counter
  <2>2. ASSUME NEW c \in Clients
        PROVE  /\ have'[c] = IF c \in by THEN [have[c] EXCEPT ![u] = version'[u]] ELSE have[c]
               /\ asked'[c] = IF c \in by THEN [asked[c] EXCEPT ![u] = version'[u]] ELSE asked[c]
    BY <1>4 DEF Change
  <2>3. have' \in [Clients -> [Uris -> Counter]]
    <3>1. have' = [c \in Clients |-> have'[c]]
      BY <1>4 DEF Change
    <3>2. ASSUME NEW c \in Clients PROVE have'[c] \in [Uris -> Counter]
      <4>1. have[c] \in [Uris -> Counter]
        BY <1>1
      <4>2. have'[c] = [have[c] EXCEPT ![u] = version'[u]] \/ have'[c] = have[c]
        BY <2>2
      <4> QED
        BY <2>1, <4>1, <4>2
    <3> QED
      BY <3>1, <3>2
  <2>4. ASSUME NEW c \in Clients, NEW w \in Uris PROVE have'[c][w] <= asked'[c][w]
    <3>1. have[c] \in [Uris -> Counter] /\ asked[c] \in [Uris -> Counter]
      BY <1>1
    <3>2. CASE c \in by /\ w = u
      <4>1. /\ have'[c] = [have[c] EXCEPT ![u] = version'[u]]
            /\ asked'[c] = [asked[c] EXCEPT ![u] = version'[u]]
        BY <2>2, <3>2
      <4>2. have'[c][u] = version'[u] /\ asked'[c][u] = version'[u]
        BY <3>1, <4>1
      <4> QED
        BY <2>1, <3>2, <4>2
    <3>3. CASE ~(c \in by /\ w = u)
      BY <1>1, <2>2, <3>1, <3>3
    <3> QED
      BY <3>2, <3>3
  <2> QED
    BY <2>3, <2>4 DEF HaveOK
<1>5. ASSUME NEW c \in Clients, NEW u \in Uris, Load(c, u) PROVE HaveOK'
  <2>1. /\ have' = [have EXCEPT ![c][u] = version[u]]
        /\ asked' = [asked EXCEPT ![c][u] = version[u]]
    BY <1>5 DEF Load
  <2>2. have' \in [Clients -> [Uris -> Counter]]
    BY <1>1, <2>1
  <2>3. ASSUME NEW d \in Clients, NEW w \in Uris PROVE have'[d][w] <= asked'[d][w]
    <3>1. CASE d = c /\ w = u
      BY <1>1, <1>2, <2>1, <3>1
    <3>2. CASE ~(d = c /\ w = u)
      <4>1. have'[d][w] = have[d][w] /\ asked'[d][w] = asked[d][w]
        BY <1>1, <2>1, <3>2
      <4> QED
        BY <1>1, <4>1
    <3> QED
      BY <3>1, <3>2
  <2> QED
    BY <2>2, <2>3 DEF HaveOK
<1>6. ASSUME NEW c \in Clients, Receive(c) PROVE HaveOK'
  <2>1. PICK told : told = Head(down[c])
    OBVIOUS
  <2>2. PICK new : new = {u \in DOMAIN told : told[u] # have[c][u]}
    OBVIOUS
  <2>3. PICK loaded \in SUBSET new :
          have' = [have EXCEPT ![c] = [u \in Uris |-> IF u \in loaded THEN version[u] ELSE have[c][u]]]
    BY <1>6, <2>1, <2>2 DEF Receive
  <2>4. asked' = [asked EXCEPT ![c] = [u \in Uris |-> IF u \in new THEN version[u] ELSE asked[c][u]]]
    BY <1>6, <2>1, <2>2 DEF Receive
  <2>5. have' \in [Clients -> [Uris -> Counter]]
    BY <1>1, <2>3
  <2>6. ASSUME NEW d \in Clients, NEW w \in Uris PROVE have'[d][w] <= asked'[d][w]
    <3>1. CASE d = c
      <4>1. /\ have'[c][w] = IF w \in loaded THEN version[w] ELSE have[c][w]
            /\ asked'[c][w] = IF w \in new THEN version[w] ELSE asked[c][w]
        BY <1>1, <2>3, <2>4
      <4>2. have[c][w] <= asked[c][w] /\ asked[c][w] <= version[w] /\ have[c][w] <= version[w]
            /\ version[w] <= version[w]
        BY <1>1, <1>2
      <4> QED
        BY <2>3, <3>1, <4>1, <4>2
    <3>2. CASE d # c
      <4>1. have'[d][w] = have[d][w] /\ asked'[d][w] = asked[d][w]
        BY <1>1, <2>3, <2>4, <3>2
      <4> QED
        BY <1>1, <4>1
    <3> QED
      BY <3>1, <3>2
  <2> QED
    BY <2>5, <2>6 DEF HaveOK
<1>7. CASE Consume \/ Restart \/ UNCHANGED vars
  BY <1>3, <1>7 DEF Consume, Restart, Lose, vars, clientVars
<1>8. ASSUME NEW c \in Clients, \/ Serve(c) \/ Pong(c) \/ TimerFires(c) \/ Close(c)
                                 \/ Reconnect(c) \/ Open(c)
      PROVE  HaveOK'
  BY <1>3, <1>8 DEF Serve, Pong, TimerFires, Close, Lose, Reconnect, Open, clientVars
<1>9. ASSUME NEW c \in Clients, NEW u \in Uris, Subscribe(c, u) \/ Unsubscribe(c, u) PROVE HaveOK'
  BY <1>3, <1>9 DEF Subscribe, Unsubscribe
<1> QED
  BY <1>4, <1>5, <1>6, <1>7, <1>8, <1>9 DEF Next

\* Every step.
LEMMA InvStep == Inv /\ HaveOK /\ [Next]_vars => Inv' /\ HaveOK'
<1> SUFFICES ASSUME Inv, HaveOK, [Next]_vars PROVE Inv'
  BY HaveStep
<1>1. ASSUME NEW u \in Uris, NEW by, Change(u, by) PROVE Inv'
  BY <1>1, ChangeStep
<1>2. CASE Consume
  BY <1>2, ConsumeStep
<1>3. CASE Restart
  BY <1>3, LoseStep DEF Restart
<1>4. ASSUME NEW c \in Clients,
             \/ Serve(c) \/ Pong(c) \/ TimerFires(c) \/ Receive(c) \/ Reconnect(c) \/ Open(c)
      PROVE  Inv'
  BY <1>4, ServeStep, PongStep, TimerStep, ReceiveStep, ReconnectStep, OpenStep
<1>5. ASSUME NEW c \in Clients, Close(c) PROVE Inv'
  BY <1>5, LoseStep DEF Close
<1>6. ASSUME NEW c \in Clients, NEW u \in Uris, Load(c, u) \/ Subscribe(c, u) \/ Unsubscribe(c, u)
      PROVE  Inv'
  BY <1>6, LoadStep, SubscribeStep, UnsubscribeStep
<1>7. CASE UNCHANGED vars
  BY <1>7 DEF vars, serverVars, clientVars, Inv, ServerType, ClientType, QueueBound, Linked, Paired,
              AsksForOwn, Told
<1> QED
  BY <1>1, <1>2, <1>3, <1>4, <1>5, <1>6, <1>7 DEF Next

\* The types hold in every state: among them that a browser's list has
\* exactly the individuals some place shows, that its timer runs exactly
\* while its buffer waits, and that nothing travels on a socket that is not
\* open (subscribe(), unsubscribe(), sendMessage(), closedHandler()).
THEOREM TypeTheorem == Spec => []TypeOK
<1>1. Inv /\ HaveOK => TypeOK
  <2> SUFFICES ASSUME Inv, HaveOK PROVE TypeOK
    OBVIOUS
  <2>1. ServerType /\ ClientType /\ \A c \in Clients : Paired(c)
    BY DEF Inv, Linked
  <2> QED
    BY <2>1 DEF TypeOK, ServerType, ClientType, Paired, HaveOK
<1> QED
  BY <1>1, InvInit, InvStep, PTL DEF Spec

\* What veda-ccus believes a browser was told, the browser shows, a message
\* with it is on the way, or the browser's own reload failed: with any number
\* of lost connections, failed reloads, restarts and repeated subscriptions
\* (main.rs, the "?" of a pong; update_service.js, receiveMessage() and
\* restore(); individual_model.js, reset()).
THEOREM BelievesTheorem == Spec => []BelievesWhatIsShown
<1>1. Inv => BelievesWhatIsShown
  <2> SUFFICES ASSUME Inv, NEW c \in Clients, NEW u \in Uris, down[c] = <<>>,
                      have[c][u] = asked[c][u]
               PROVE  idws2uris[c][u] <= have[c][u]
    BY DEF BelievesWhatIsShown, Missed
  <2>1. Told(c)
    BY DEF Inv, Linked
  <2>2. Len(down[c]) = 0
    OBVIOUS
  <2> QED
    BY <2>1, <2>2 DEF Told
<1> QED
  BY <1>1, InvInit, InvStep, PTL DEF Spec
=============================================================================
