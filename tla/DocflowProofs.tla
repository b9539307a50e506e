---------------------------- MODULE DocflowProofs ---------------------------
(***************************************************************************)
(* Theorems about the workflow engine, for every net, every set of users   *)
(* and every setting of the constants.                                     *)
(***************************************************************************)
EXTENDS Docflow, FiniteSetTheorems, NaturalsInduction, WellFoundedInduction, TLAPS

Value  == Form \cup Process \cup WorkItem \cup WorkOrder \cup DecisionForm
Author == (Types \cup {"user"}) \X Nat
          \X {"user", "df1", "df2", "df3", "df4", "df5", "stop"}
Record == [t: Types, id: Ids, v: Value, was: Value, by: Author]
Write  == [t: Types, id: Ids, v: Value]

\* What an individual refers to is stored; work orders of nets have processes,
\* those of users have forms.
Nets == DOMAIN Inputs \ Users
Above(D, o) == o = 0 \/ (o \in DOMAIN D["wo"] /\ D["wo"][o].executor \in Nets)
Linked(D, t, v) ==
  /\ t = "proc" => Above(D, v.parent)
  /\ t = "wi" => v.proc \in DOMAIN D["proc"]
  /\ t = "wo" => v.wi \in DOMAIN D["wi"]
  /\ t = "df" => v.wo \in DOMAIN D["wo"] /\ D["wo"][v.wo].executor \in Users

\* The fields that no script changes.
Same(t, v, u) ==
  /\ t = "proc" => v.net = u.net /\ v.parent = u.parent
  /\ t = "wi" => v.proc = u.proc /\ v.elem = u.elem
  /\ t = "wo" => v.wi = u.wi /\ v.executor = u.executor
  /\ t = "df" => v.wo = u.wo

\* v is a state of the individual i of type t.
Good(D, t, i, v) ==
  /\ Member(t, v) /\ Linked(D, t, v)
  /\ i \in DOMAIN D[t] => Same(t, v, D[t][i])

DbOK(D) ==
  /\ D \in [Types -> Seq(Value)] /\ Len(D["form"]) = 1
  /\ \A t \in Types : \A i \in DOMAIN D[t] : Good(D, t, i, D[t][i])

QueueOK(D, Q) ==
  /\ Q \in Seq(Record)
  /\ \A k \in DOMAIN Q : /\ Q[k].id \in DOMAIN D[Q[k].t]
                         /\ Good(D, Q[k].t, Q[k].id, Q[k].v)
                         /\ Good(D, Q[k].t, Q[k].id, Q[k].was)

\* The new individuals of a script are sent in the order of their numbers.
Fresh(D, x) == x.id > Len(D[x.t])
Turn(D, T, k) ==
  /\ \/ T[k].id = Len(D[T[k].t]) + 1
     \/ \E j \in DOMAIN T : j < k /\ T[j].t = T[k].t /\ T[j].id = T[k].id - 1
  /\ \A j \in DOMAIN T : j < k /\ T[j].t = T[k].t => T[j].id # T[k].id
InLine(D, T) == \A k \in DOMAIN T : Fresh(D, T[k]) => Turn(D, T, k)

TodoOK(D, T) ==
  /\ T \in Seq(Write) /\ InLine(D, T)
  /\ \A k \in DOMAIN T : /\ Good(D, T[k].t, T[k].id, T[k].v)
                         /\ T[k].t = "form" => T[k].id = 1

TInv ==
  /\ setting \in Settings /\ crashes \in Nat
  /\ DbOK(db) /\ QueueOK(db, queue) /\ TodoOK(db, todo)
  /\ running \in BOOLEAN
  /\ running => queue # <<>>
  /\ todo # <<>> => running

\* The record r is the first of a work order that a net has to do, which makes
\* the process; until it is handled there is no result and no work item below.
NetOrder(r) ==
  /\ r.t = "wo" /\ r.by # <<"wo", r.id, "df4">> /\ r.v.out = 0 /\ r.v.executor \in Nets
Pending(Q, o) == \E k \in DOMAIN Q : NetOrder(Q[k]) /\ Q[k].id = o
OrdersOK(D, Q) ==
  \A k \in DOMAIN Q :
    /\ Q[k].t = "wo" /\ Q[k].v.out # 0 => D["wo"][Q[k].id].out # 0
    /\ NetOrder(Q[k]) =>
         /\ D["wo"][Q[k].id].out = 0
         /\ \A j \in DOMAIN Q : Q[j].t = "proc" /\ Q[j].v.parent = Q[k].id => k < j
         /\ \A w \in DOMAIN D["wi"] : D["proc"][D["wi"][w].proc].parent # Q[k].id

\* What is sent takes no result back, gives none to a work order that waits for
\* its process to be made, and leaves a task when all results are there.
HasResult(D, o) == o \in DOMAIN D["wo"] /\ D["wo"][o].out # 0
OrderSent(D, Q, T, k) ==
  /\ \A j \in DOMAIN T : T[j].t = "wo" /\ T[j].id = T[k].id => T[j].v.out = T[k].v.out
  /\ HasResult(D, T[k].id) => T[k].v.out # 0
  /\ T[k].id \in DOMAIN D["wo"] /\ T[k].v.out = 0 => Q[1].t = "wo" /\ Q[1].id = T[k].id
  /\ Pending(Q, T[k].id) => T[k].v.out = 0
ItemSent(D, Q, T, k) ==
  /\ ~Pending(Q, D["proc"][T[k].v.proc].parent)
  /\ T[k].v.done /\ Net[T[k].v.elem].kind = "task" =>
       \A o \in ToSet(T[k].v.wol) :
         \/ HasResult(D, o)
         \/ \E j \in DOMAIN T : j < k /\ T[j].t = "wo" /\ T[j].id = o /\ T[j].v.out # 0
SendsOK(D, Q, T) ==
  \A k \in DOMAIN T : /\ T[k].t = "wo" => OrderSent(D, Q, T, k)
                      /\ T[k].t = "wi" => ItemSent(D, Q, T, k)

Left(D) ==
  \A w \in DOMAIN D["wi"] :
    D["wi"][w].done /\ Net[D["wi"][w].elem].kind = "task" =>
      \A o \in ToSet(D["wi"][w].wol) : HasResult(D, o)

LInv == TInv /\ OrdersOK(db, queue) /\ SendsOK(db, queue, todo) /\ Left(db)

\* The record r begins a process, with the state of it that r has; a stop of the
\* process that r does not know is behind it.  What is sent undoes a stop only when
\* the record of the stop is behind the one in hand.
Opens(r) == r.t = "proc" /\ ~r.v.stopped /\ r.v.completed = "absent"
StopOf(r, p) == r.t = "proc" /\ r.id = p /\ r.v.stopped /\ ~r.was.stopped
BehindOK(D, Q) ==
  \A k \in DOMAIN Q : Opens(Q[k]) /\ D["proc"][Q[k].id].stopped =>
    \E j \in DOMAIN Q : k < j /\ StopOf(Q[j], Q[k].id)
UndoesOK(D, Q, T) ==
  \A k \in DOMAIN T :
    /\ T[k].t = "proc" /\ T[k].id \in DOMAIN D["proc"] /\ ~T[k].v.stopped
    /\ D["proc"][T[k].id].stopped
    => \E j \in DOMAIN Q : 1 < j /\ StopOf(Q[j], T[k].id)
HInv == TInv /\ BehindOK(db, queue) /\ UndoesOK(db, queue, todo)

\* The users' part of a decision, under Decided: a form that has been written has
\* one decision x, which its work order is given; the change of it is undone.
UserForm(r, f) == r.t = "df" /\ r.id = f /\ r.by = User
Change(r, f, x) == UserForm(r, f) /\ r.was.taken = x /\ r.v.taken # x
FormPut(T, k, f) == T[k].t = "df" /\ T[k].id = f /\ ~T[k].v.deleted
Due(Q, T, hand, f, x, n) ==
  \/ \E k \in DOMAIN Q : Change(Q[k], f, x) /\ ~(k = 1 /\ hand)
  \/ \E j \in DOMAIN T : n < j /\ FormPut(T, j, f) /\ T[j].v.taken = x
Gives(D, T, o, x, k) ==
  \/ D["wo"][o].out = x
  \/ \E j \in DOMAIN T : j < k /\ T[j].t = "wo" /\ T[j].id = o /\ T[j].v.out = x
Told(D, Q, T, hand, f, x) ==
  /\ x \in Results
  /\ \A k \in DOMAIN Q : UserForm(Q[k], f) =>
       ~Q[k].v.deleted /\ (Change(Q[k], f, x) \/ (Q[k].was.taken = 0 /\ Q[k].v.taken = x))
  /\ D["df"][f].done => D["wo"][D["df"][f].wo].out = x
  /\ D["df"][f].taken # x => Due(Q, T, hand, f, x, 0)
  /\ \A k \in DOMAIN T : FormPut(T, k, f) =>
       /\ T[k].v.taken # x => Due(Q, T, hand, f, x, k)
       /\ T[k].v.done => Gives(D, T, D["df"][f].wo, x, k)
Once(D, T, f, x) ==
  D["df"][f].taken = x /\ \A k \in DOMAIN T : FormPut(T, k, f) => T[k].v.taken = x
Untold(D, Q, T, f) ==
  /\ D["df"][f].taken = 0 /\ ~D["df"][f].done
  /\ \A k \in DOMAIN Q : ~UserForm(Q[k], f)
  /\ \A k \in DOMAIN T : ~FormPut(T, k, f)
FormOK(D, Q, T, hand, n, f) ==
  \/ D["df"][f].deleted
  \/ n = 0 /\ Untold(D, Q, T, f)
  \/ n \in {1, 2} /\ \E x \in Results : Told(D, Q, T, hand, f, x) /\ (n = 1 => Once(D, T, f, x))

\* The record r is the first of a work order, which makes its form.
Ask(r) == r.t = "wo" /\ r.by # <<"wo", r.id, "df4">> /\ r.v.out = 0
NoForm(D, o) == \A f \in DOMAIN D["df"] : D["df"][f].wo # o
OneForm(D) == \A f, g \in DOMAIN D["df"] : D["df"][f].wo = D["df"][g].wo => f = g
AsksOK(D, Q, hand) ==
  \A k \in DOMAIN Q :
    Ask(Q[k]) => /\ (k = 1 /\ hand) \/ NoForm(D, Q[k].id)
                 /\ \A j \in DOMAIN Q : Ask(Q[j]) /\ Q[j].id = Q[k].id => j = k

\* Where the records of forms come from.
SourceOK(r) ==
  r.t = "df" => \/ r.by = User \/ r.by = <<"df", r.id, "df5">>
                \/ r.v.deleted \/ (r.v.taken = 0 /\ r.was.taken = 0)

\* What is sent to forms, and to work orders of users.
FormSent(D, Q, T, k) ==
  /\ T[k].id \notin DOMAIN D["df"] =>
       /\ T[k].v.taken = 0 /\ ~T[k].v.done /\ NoForm(D, T[k].v.wo)
       /\ \A j \in DOMAIN Q : Ask(Q[j]) /\ Q[j].id = T[k].v.wo => j = 1
       /\ \A j \in DOMAIN T : T[j].t = "df" => j = k
  /\ T[k].id \in DOMAIN D["df"] =>
       /\ T[k].v.deleted \/ (Q[1].t = "df" /\ Q[1].id = T[k].id)
       /\ D["df"][T[k].id].deleted => T[k].v.deleted
  /\ \A j \in DOMAIN T : T[j].t = "df" /\ T[j].id = T[k].id => T[j].v.deleted = T[k].v.deleted
OutSent(D, Q, T, k) ==
  T[k].id \in DOMAIN D["wo"] /\ D["wo"][T[k].id].executor \in Users =>
    \/ T[k].v.out = D["wo"][T[k].id].out
    \/ /\ UserForm(Q[1], Q[1].id) /\ Q[1].was.taken = 0
       /\ Q[1].v.wo = T[k].id /\ Q[1].v.taken = T[k].v.out
DecisionsSent(D, Q, T) ==
  \A k \in DOMAIN T : /\ T[k].t = "df" => FormSent(D, Q, T, k)
                      /\ T[k].t = "wo" => OutSent(D, Q, T, k)

\* Without stops nothing is stopped or deleted.
NoStops(D, Q, T) ==
  /\ \A p \in DOMAIN D["proc"] : ~D["proc"][p].stopped
  /\ \A f \in DOMAIN D["df"] : ~D["df"][f].deleted
  /\ \A k \in DOMAIN Q : Q[k].t = "proc" => ~Q[k].v.stopped
  /\ \A k \in DOMAIN T : /\ T[k].t = "proc" => ~T[k].v.stopped
                         /\ T[k].t = "df" => ~T[k].v.deleted

Times(a, f) == IF f \in DOMAIN a THEN a[f] ELSE 0
FormsOK(D, Q, T, hand, a) ==
  /\ DOMAIN a \subseteq DOMAIN D["df"]
  /\ \A f \in DOMAIN D["df"] : FormOK(D, Q, T, hand, Times(a, f), f)
DecOK(D, Q, T, hand, calm) ==
  /\ OneForm(D) /\ AsksOK(D, Q, hand)
  /\ \A k \in DOMAIN Q : SourceOK(Q[k])
  /\ DecisionsSent(D, Q, T)
  /\ calm => NoStops(D, Q, T)
DInv ==
  /\ LInv
  /\ Decided => /\ stops \in Nat /\ DecOK(db, queue, todo, running, setting.stops = 0)
                /\ FormsOK(db, queue, todo, running, answers)
-----------------------------------------------------------------------------
(***************************************************************************)
(* Sequences.                                                              *)
(***************************************************************************)

\* What is in a sequence after an element is added.
LEMMA AppendFacts ==
  ASSUME NEW S, NEW s \in Seq(S), NEW x \in S
  PROVE  /\ Append(s, x) \in Seq(S) /\ Len(Append(s, x)) = Len(s) + 1 /\ Len(s) \in Nat
         /\ DOMAIN s = 1 .. Len(s) /\ DOMAIN Append(s, x) = 1 .. (Len(s) + 1)
         /\ \A k \in DOMAIN s : Append(s, x)[k] = s[k]
         /\ Append(s, x)[Len(s) + 1] = x
OBVIOUS

\* What is in a sequence after its first element is taken.
LEMMA TailFacts ==
  ASSUME NEW S, NEW s \in Seq(S), s # <<>>
  PROVE  /\ Tail(s) \in Seq(S) /\ Head(s) \in S /\ Head(s) = s[1] /\ 1 \in DOMAIN s
         /\ Len(s) \in Nat \ {0} /\ DOMAIN s = 1 .. Len(s)
         /\ DOMAIN Tail(s) = 1 .. (Len(s) - 1)
         /\ \A k \in DOMAIN Tail(s) : k + 1 \in DOMAIN s /\ Tail(s)[k] = s[k + 1]
OBVIOUS

\* What is in two sequences one after the other.
LEMMA ConcatFacts ==
  ASSUME NEW S, NEW s \in Seq(S), NEW u \in Seq(S)
  PROVE  /\ s \o u \in Seq(S) /\ Len(s) \in Nat /\ Len(u) \in Nat
         /\ Len(s \o u) = Len(s) + Len(u)
         /\ DOMAIN s = 1 .. Len(s) /\ DOMAIN u = 1 .. Len(u)
         /\ DOMAIN (s \o u) = 1 .. (Len(s) + Len(u))
         /\ \A k \in 1 .. Len(s) : (s \o u)[k] = s[k]
         /\ \A k \in (Len(s) + 1) .. (Len(s) + Len(u)) : (s \o u)[k] = u[k - Len(s)]
OBVIOUS

\* A function on the first numbers is a sequence.
LEMMA MapFacts ==
  ASSUME NEW S, NEW n \in Nat, NEW s \in [1 .. n -> S]
  PROVE  s \in Seq(S) /\ Len(s) = n /\ DOMAIN s = 1 .. n
OBVIOUS

\* The elements of a sequence of writes, and of a queue.
LEMMA Elements ==
  /\ \A T \in Seq(Write) : \A k \in DOMAIN T :
       T[k] \in Write /\ T[k].t \in Types /\ T[k].id \in Ids /\ T[k].v \in Value
  /\ \A Q \in Seq(Record) : \A k \in DOMAIN Q :
       /\ Q[k] \in Record /\ Q[k].t \in Types /\ Q[k].id \in Ids /\ Q[k].v \in Value
       /\ Q[k].was \in Value /\ Q[k].by \in Author
<1>1. \A x \in Write : x.t \in Types /\ x.id \in Ids /\ x.v \in Value
  BY DEF Write
<1>2. \A x \in Record : /\ x.t \in Types /\ x.id \in Ids /\ x.v \in Value
                        /\ x.was \in Value /\ x.by \in Author
  BY DEF Record
<1>3. \A T \in Seq(Write) : \A k \in DOMAIN T : T[k] \in Write
  OBVIOUS
<1>4. \A Q \in Seq(Record) : \A k \in DOMAIN Q : Q[k] \in Record
  OBVIOUS
<1> QED
  BY <1>1, <1>2, <1>3, <1>4
-----------------------------------------------------------------------------
(***************************************************************************)
(* A write.                                                                *)
(***************************************************************************)

\* A member of a type is a value.
LEMMA MemberValue ==
  ASSUME NEW t \in Types, NEW v, Member(t, v)
  PROVE  v \in Value
BY DEF Types, Member, Value

\* E is D after the write w.
Stored(D, E, w) ==
  /\ E \in [Types -> Seq(Value)]
  /\ w.t \in Types /\ w.id \in DOMAIN E[w.t] /\ E[w.t][w.id] = w.v
  /\ \A t \in Types : \A i \in DOMAIN D[t] :
       i \in DOMAIN E[t] /\ (t # w.t \/ i # w.id => E[t][i] = D[t][i])
  /\ \A t \in Types : \A i \in DOMAIN E[t] : i \in DOMAIN D[t] \/ (t = w.t /\ i = w.id)
  /\ \A t \in Types :
       /\ Len(D[t]) \in Nat /\ DOMAIN D[t] = 1 .. Len(D[t])
       /\ DOMAIN E[t] = 1 .. Len(E[t])
       /\ Len(E[t]) = IF t = w.t /\ Fresh(D, w) THEN Len(D[t]) + 1 ELSE Len(D[t])

\* The record that is appended for it.
RecordOf(D, w, by) ==
  [t |-> w.t, id |-> w.id, v |-> w.v,
   was |-> IF w.id > Len(D[w.t]) THEN w.v ELSE D[w.t][w.id], by |-> by]

\* What Store() does.
LEMMA StoreFacts ==
  ASSUME DbOK(db), NEW w \in Write, NEW by, Store(w, by),
         w.id \in DOMAIN db[w.t] \/ w.id = Len(db[w.t]) + 1
  PROVE  Stored(db, db', w) /\ queue' = Append(queue, RecordOf(db, w, by))
<1>1. db \in [Types -> Seq(Value)] /\ w.t \in Types /\ w.id \in Ids /\ w.v \in Value
  BY DEF DbOK, Write
<1>2. PICK s : s = db[w.t]
  OBVIOUS
<1>3. s \in Seq(Value) /\ Len(s) \in Nat /\ DOMAIN s = 1 .. Len(s)
  BY <1>1, <1>2
<1>4. \A t \in Types : Len(db[t]) \in Nat /\ DOMAIN db[t] = 1 .. Len(db[t])
  BY <1>1
<1>5. queue' = Append(queue, RecordOf(db, w, by))
  BY DEF Store, RecordOf
<1>6. CASE w.id > Len(s)
  <2>1. w.id = Len(s) + 1
    BY <1>2, <1>3, <1>6
  <2>2. PICK e : e = Append(s, w.v)
    OBVIOUS
  <2>3. db' = [db EXCEPT ![w.t] = e]
    BY <1>2, <1>6, <2>2 DEF Store
  <2>4. /\ e \in Seq(Value) /\ Len(e) = Len(s) + 1 /\ DOMAIN e = 1 .. Len(e)
        /\ \A k \in DOMAIN s : e[k] = s[k]
        /\ e[Len(s) + 1] = w.v
    BY <1>1, <1>3, <2>2, AppendFacts
  <2>5. db' \in [Types -> Seq(Value)] /\ db'[w.t] = e /\ \A t \in Types : t # w.t => db'[t] = db[t]
    BY <1>1, <2>3, <2>4
  <2>6. Fresh(db, w)
    BY <1>2, <1>6 DEF Fresh
  <2>7. ASSUME NEW t \in Types
        PROVE  /\ \A i \in DOMAIN db[t] :
                    i \in DOMAIN db'[t] /\ (t # w.t \/ i # w.id => db'[t][i] = db[t][i])
               /\ \A i \in DOMAIN db'[t] : i \in DOMAIN db[t] \/ (t = w.t /\ i = w.id)
               /\ DOMAIN db'[t] = 1 .. Len(db'[t])
               /\ Len(db'[t]) = IF t = w.t /\ Fresh(db, w) THEN Len(db[t]) + 1 ELSE Len(db[t])
    <3>1. CASE t = w.t
      BY <3>1, <1>2, <1>3, <2>1, <2>4, <2>5, <2>6
    <3>2. CASE t # w.t
      BY <3>2, <1>4, <2>5
    <3> QED
      BY <3>1, <3>2
  <2>8. w.id \in DOMAIN db'[w.t] /\ db'[w.t][w.id] = w.v
    BY <1>3, <2>1, <2>4, <2>5
  <2> QED
    BY <1>1, <1>4, <1>5, <2>5, <2>7, <2>8 DEF Stored
<1>7. CASE ~(w.id > Len(s))
  <2>1. w.id \in DOMAIN s
    BY <1>1, <1>2, <1>3, <1>7 DEF Ids
  <2>2. PICK e : e = [s EXCEPT ![w.id] = w.v]
    OBVIOUS
  <2>3. db' = [db EXCEPT ![w.t] = e]
    BY <1>2, <1>7, <2>2 DEF Store
  <2>4. /\ e \in Seq(Value) /\ Len(e) = Len(s) /\ DOMAIN e = 1 .. Len(e)
        /\ \A k \in DOMAIN s : k # w.id => e[k] = s[k]
        /\ e[w.id] = w.v
    <3>1. s \in [1 .. Len(s) -> Value]
      BY <1>3
    <3>2. e \in [1 .. Len(s) -> Value]
      BY <3>1, <1>1, <1>3, <2>1, <2>2
    <3>3. e \in Seq(Value) /\ Len(e) = Len(s)
      BY <3>2, <1>3, MapFacts
    <3> QED
      BY <3>1, <3>2, <3>3, <1>3, <2>1, <2>2
  <2>5. db' \in [Types -> Seq(Value)] /\ db'[w.t] = e /\ \A t \in Types : t # w.t => db'[t] = db[t]
    BY <1>1, <2>3, <2>4
  <2>6. ~Fresh(db, w)
    BY <1>2, <1>7 DEF Fresh
  <2> QED
    BY <1>1, <1>2, <1>3, <1>4, <1>5, <2>1, <2>4, <2>5, <2>6 DEF Stored
<1> QED
  BY <1>6, <1>7

\* The write w fits the individuals D.
Fits(D, w) ==
  /\ w \in Write /\ Good(D, w.t, w.id, w.v)
  /\ w.id \in DOMAIN D[w.t] \/ w.id = Len(D[w.t]) + 1
  /\ w.t = "form" => w.id = 1

\* A state that an individual could have it can have after a write.
LEMMA GoodKept ==
  ASSUME NEW D, NEW E, NEW w, DbOK(D), Fits(D, w), Stored(D, E, w),
         NEW t \in Types, NEW i, NEW v, Good(D, t, i, v),
         i \in DOMAIN D[t] \/ t # w.t \/ i # w.id
  PROVE  Good(E, t, i, v)
<1>1. Types = {"form", "proc", "wi", "wo", "df"} /\ w.t \in Types
  BY DEF Types, Fits, Write
<1>2. \A u \in Types : DOMAIN D[u] \subseteq DOMAIN E[u]
  BY DEF Stored
<1>3. \A x \in DOMAIN D["wo"] : E["wo"][x].executor = D["wo"][x].executor
  <2> TAKE x \in DOMAIN D["wo"]
  <2>1. CASE w.t = "wo" /\ w.id = x
    BY <2>1, <1>1 DEF Stored, Fits, Good, Same
  <2>2. CASE ~(w.t = "wo" /\ w.id = x)
    BY <2>2, <1>1 DEF Stored
  <2> QED
    BY <2>1, <2>2
<1>4. Member(t, v) /\ Linked(D, t, v) /\ (i \in DOMAIN D[t] => Same(t, v, D[t][i]))
  BY DEF Good
<1>5. Linked(E, t, v)
  BY <1>1, <1>2, <1>3, <1>4 DEF Linked, Above
<1>6. ASSUME i \in DOMAIN E[t]
      PROVE  Same(t, v, E[t][i])
  <2>1. i \in DOMAIN D[t]
    BY <1>6 DEF Stored
  <2>2. CASE t = w.t /\ i = w.id
    <3>1. Same(t, w.v, D[t][i]) /\ E[t][i] = w.v
      BY <2>1, <2>2 DEF Fits, Good, Stored
    <3> QED
      BY <3>1, <2>1, <1>4 DEF Same
  <2>3. CASE ~(t = w.t /\ i = w.id)
    BY <2>1, <2>3, <1>4 DEF Stored
  <2> QED
    BY <2>2, <2>3
<1> QED
  BY <1>4, <1>5, <1>6 DEF Good

\* The individuals stay well-formed.
LEMMA DbKept ==
  ASSUME NEW D, NEW E, NEW w, DbOK(D), Fits(D, w), Stored(D, E, w)
  PROVE  DbOK(E) /\ Good(E, w.t, w.id, w.v)
<1>1. w.t \in Types /\ Good(D, w.t, w.id, w.v) /\ "form" \in Types
  BY DEF Fits, Write, Types
<1>2. Good(E, w.t, w.id, w.v)
  <2>1. CASE w.id \in DOMAIN D[w.t]
    BY <2>1, <1>1, GoodKept
  <2>2. CASE w.id \notin DOMAIN D[w.t]
    <3>1. \A u \in Types : DOMAIN D[u] \subseteq DOMAIN E[u]
      BY DEF Stored
    <3>2. Linked(E, w.t, w.v)
      <4>1. CASE w.t = "wo"
        BY <3>1, <1>1, <4>1 DEF Good, Linked, Types
      <4>2. CASE w.t # "wo"
        BY <3>1, <1>1, <4>2 DEF Good, Linked, Types, Stored, Above
      <4> QED
        BY <4>1, <4>2
    <3>3. Same(w.t, w.v, E[w.t][w.id])
      BY DEF Same, Stored
    <3> QED
      BY <3>2, <3>3, <1>1 DEF Good
  <2> QED
    BY <2>1, <2>2
<1>3. ASSUME NEW t \in Types, NEW i \in DOMAIN E[t]
      PROVE  Good(E, t, i, E[t][i])
  <2>1. CASE t = w.t /\ i = w.id
    BY <2>1, <1>2 DEF Stored
  <2>2. CASE ~(t = w.t /\ i = w.id)
    <3>1. i \in DOMAIN D[t] /\ E[t][i] = D[t][i]
      BY <2>2 DEF Stored
    <3>2. Good(D, t, i, D[t][i])
      BY <3>1 DEF DbOK
    <3> QED
      BY <3>1, <3>2, GoodKept
  <2> QED
    BY <2>1, <2>2
<1>4. Len(E["form"]) = 1
  <2>1. Len(D["form"]) = 1 /\ DOMAIN D["form"] = 1 .. 1
    BY <1>1 DEF DbOK, Stored
  <2>2. ~(w.t = "form" /\ Fresh(D, w))
    <3> SUFFICES ASSUME w.t = "form" PROVE ~Fresh(D, w)
      OBVIOUS
    <3>1. w.id = 1 /\ Len(D[w.t]) = 1
      BY <2>1 DEF Fits
    <3>2. ~(w.id > Len(D[w.t]))
      BY <3>1, SMT
    <3> QED
      BY <3>2 DEF Fresh
  <2> QED
    <3>1. Len(E["form"]) = IF "form" = w.t /\ Fresh(D, w) THEN Len(D["form"]) + 1 ELSE Len(D["form"])
      BY <1>1 DEF Stored
    <3> QED
      BY <3>1, <2>1, <2>2
<1> QED
  BY <1>2, <1>3, <1>4 DEF DbOK, Stored

\* The queue stays well-formed.
LEMMA QueueKept ==
  ASSUME NEW D, NEW E, NEW w, DbOK(D), Fits(D, w), Stored(D, E, w),
         NEW Q, QueueOK(D, Q), NEW by \in Author
  PROVE  QueueOK(E, Append(Q, RecordOf(D, w, by))) /\ RecordOf(D, w, by) \in Record
<1>1. w.t \in Types /\ w.id \in Ids /\ w.v \in Value /\ Good(E, w.t, w.id, w.v)
  BY DbKept DEF Fits, Write
<1>2. PICK old : old = IF w.id > Len(D[w.t]) THEN w.v ELSE D[w.t][w.id]
  OBVIOUS
<1>3. old \in Value /\ Good(E, w.t, w.id, old)
  <2>1. CASE w.id > Len(D[w.t])
    BY <2>1, <1>1, <1>2
  <2>2. CASE ~(w.id > Len(D[w.t]))
    <3>1. w.id \in DOMAIN D[w.t]
      <4>1. Len(D[w.t]) \in Nat /\ DOMAIN D[w.t] = 1 .. Len(D[w.t])
        BY <1>1 DEF Stored
      <4> QED
        BY <4>1, <2>2, <1>1 DEF Ids
    <3>2. Good(D, w.t, w.id, D[w.t][w.id])
      BY <3>1, <1>1 DEF DbOK
    <3>3. Good(E, w.t, w.id, D[w.t][w.id])
      BY <3>1, <3>2, <1>1, GoodKept
    <3>4. D[w.t][w.id] \in Value
      BY <3>2, <1>1, MemberValue DEF Good
    <3> QED
      BY <3>3, <3>4, <2>2, <1>2
  <2> QED
    BY <2>1, <2>2
<1>4. PICK r : r = RecordOf(D, w, by)
  OBVIOUS
<1>5. r \in Record /\ r.t = w.t /\ r.id = w.id /\ r.v = w.v /\ r.was = old
  BY <1>1, <1>2, <1>3, <1>4 DEF RecordOf, Record
<1>6. PICK P : P = Append(Q, r)
  OBVIOUS
<1>7. Q \in Seq(Record)
  BY DEF QueueOK
<1>8. /\ P \in Seq(Record) /\ DOMAIN Q = 1 .. Len(Q) /\ DOMAIN P = 1 .. (Len(Q) + 1)
      /\ Len(Q) \in Nat
      /\ \A k \in DOMAIN Q : P[k] = Q[k]
      /\ P[Len(Q) + 1] = r
  BY <1>5, <1>6, <1>7, AppendFacts
<1>9. ASSUME NEW k \in DOMAIN P
      PROVE  /\ P[k].id \in DOMAIN E[P[k].t]
             /\ Good(E, P[k].t, P[k].id, P[k].v)
             /\ Good(E, P[k].t, P[k].id, P[k].was)
  <2>1. CASE k = Len(Q) + 1
    BY <2>1, <1>1, <1>3, <1>5, <1>8 DEF Stored
  <2>2. CASE k \in DOMAIN Q
    <3>1. /\ Q[k].t \in Types /\ Q[k].id \in DOMAIN D[Q[k].t] /\ P[k] = Q[k]
          /\ Good(D, Q[k].t, Q[k].id, Q[k].v) /\ Good(D, Q[k].t, Q[k].id, Q[k].was)
      <4>1. Q[k] \in Record /\ P[k] = Q[k]
        BY <2>2, <1>7, <1>8
      <4>2. Q[k].t \in Types
        BY <4>1 DEF Record
      <4> QED
        BY <4>1, <4>2, <2>2 DEF QueueOK
    <3>2. Good(E, Q[k].t, Q[k].id, Q[k].v) /\ Good(E, Q[k].t, Q[k].id, Q[k].was)
      BY <3>1, GoodKept
    <3>3. Q[k].id \in DOMAIN E[Q[k].t]
      BY <3>1 DEF Stored
    <3> QED
      BY <3>1, <3>2, <3>3
  <2> QED
    BY <2>1, <2>2, <1>8
<1> QED
  BY <1>4, <1>5, <1>6, <1>8, <1>9 DEF QueueOK

\* A write of a user leaves what a script has to send well-formed.
LEMMA TodoKept ==
  ASSUME NEW D, NEW E, NEW w, DbOK(D), Fits(D, w), Stored(D, E, w),
         NEW T, TodoOK(D, T), w.id \in DOMAIN D[w.t]
  PROVE  TodoOK(E, T)
<1>1. T \in Seq(Write) /\ \A k \in DOMAIN T : T[k].t \in Types /\ T[k].id \in Ids
  BY Elements DEF TodoOK
<1>2. ~Fresh(D, w)
  <2>1. w.t \in Types
    BY DEF Fits, Write
  <2>2. Len(D[w.t]) \in Nat /\ DOMAIN D[w.t] = 1 .. Len(D[w.t])
    BY <2>1 DEF Stored
  <2> QED
    BY <2>2 DEF Fresh
<1>3. \A t \in Types : Len(E[t]) = Len(D[t])
  BY <1>2 DEF Stored
<1>4. InLine(E, T)
  <2>1. \A k \in DOMAIN T : Len(E[T[k].t]) = Len(D[T[k].t])
    BY <1>1, <1>3
  <2>2. InLine(D, T)
    BY DEF TodoOK
  <2> QED
    BY <2>1, <2>2 DEF InLine, Turn, Fresh
<1>5. ASSUME NEW k \in DOMAIN T
      PROVE  Good(E, T[k].t, T[k].id, T[k].v) /\ (T[k].t = "form" => T[k].id = 1)
  <2>1. Good(D, T[k].t, T[k].id, T[k].v) /\ (T[k].t = "form" => T[k].id = 1)
    BY DEF TodoOK
  <2> QED
    BY <2>1, <1>1, GoodKept
<1> QED
  BY <1>1, <1>4, <1>5 DEF TodoOK

\* The first write fits.
LEMMA HeadFits ==
  ASSUME NEW D, NEW T, DbOK(D), TodoOK(D, T), T # <<>>
  PROVE  Fits(D, T[1]) /\ Head(T) = T[1]
<1>1. T \in Seq(Write)
  BY DEF TodoOK
<1>2. 1 \in DOMAIN T /\ Head(T) = T[1]
  BY <1>1, TailFacts
<1>3. T[1] \in Write /\ Good(D, T[1].t, T[1].id, T[1].v) /\ (T[1].t = "form" => T[1].id = 1)
  BY <1>1, <1>2 DEF TodoOK
<1>4. T[1].t \in Types /\ T[1].id \in Ids
  BY <1>3 DEF Write
<1>5. Len(D[T[1].t]) \in Nat /\ DOMAIN D[T[1].t] = 1 .. Len(D[T[1].t])
  BY <1>4 DEF DbOK
<1>6. T[1].id \in DOMAIN D[T[1].t] \/ T[1].id = Len(D[T[1].t]) + 1
  <2>1. CASE Fresh(D, T[1])
    <3>1. Turn(D, T, 1)
      BY <2>1, <1>2 DEF TodoOK, InLine
    <3>2. \A j \in DOMAIN T : ~(j < 1)
      BY <1>1
    <3> QED
      BY <3>1, <3>2 DEF Turn
  <2>2. CASE ~Fresh(D, T[1])
    BY <2>2, <1>4, <1>5 DEF Fresh, Ids
  <2> QED
    BY <2>1, <2>2
<1> QED
  BY <1>2, <1>3, <1>6 DEF Fits

\* When the first write is sent the rest is well-formed.
LEMMA TodoTail ==
  ASSUME NEW D, NEW E, NEW T, DbOK(D), TodoOK(D, T), T # <<>>, Stored(D, E, T[1])
  PROVE  TodoOK(E, Tail(T))
<1>1. T \in Seq(Write)
  BY DEF TodoOK
<1>2. PICK w : w = T[1]
  OBVIOUS
<1>3. Fits(D, w) /\ Stored(D, E, w) /\ w.t \in Types /\ w.id \in Ids
  BY <1>2, HeadFits DEF Fits, Write
<1>4. PICK U : U = Tail(T)
  OBVIOUS
<1>5. /\ U \in Seq(Write) /\ 1 \in DOMAIN T /\ Len(T) \in Nat \ {0}
      /\ DOMAIN T = 1 .. Len(T) /\ DOMAIN U = 1 .. (Len(T) - 1)
      /\ \A k \in DOMAIN U : k + 1 \in DOMAIN T /\ U[k] = T[k + 1]
  BY <1>1, <1>4, TailFacts
<1>6. \A k \in DOMAIN T : T[k].t \in Types /\ T[k].id \in Ids
  BY <1>1, Elements
<1>7. \A t \in Types : Len(D[t]) \in Nat /\ DOMAIN D[t] = 1 .. Len(D[t])
  BY <1>3 DEF Stored
<1>8. \A t \in Types : Len(E[t]) = IF t = w.t /\ Fresh(D, w) THEN Len(D[t]) + 1 ELSE Len(D[t])
  BY <1>3 DEF Stored
<1>9. Fresh(D, w) => w.id = Len(D[w.t]) + 1
  BY <1>3, <1>7 DEF Fits, Fresh
<1>10. ASSUME NEW k \in DOMAIN U
       PROVE  /\ Good(E, U[k].t, U[k].id, U[k].v)
              /\ U[k].t = "form" => U[k].id = 1
  <2>1. k + 1 \in DOMAIN T /\ U[k] = T[k + 1] /\ 1 < k + 1
    BY <1>5
  <2>2. Good(D, U[k].t, U[k].id, U[k].v) /\ (U[k].t = "form" => U[k].id = 1)
    BY <2>1 DEF TodoOK
  <2>3. U[k].id \in DOMAIN D[U[k].t] \/ U[k].t # w.t \/ U[k].id # w.id
    <3>1. CASE Fresh(D, U[k])
      <4>1. Turn(D, T, k + 1)
        BY <3>1, <2>1 DEF TodoOK, InLine
      <4> QED
        BY <4>1, <2>1, <1>2, <1>5 DEF Turn
    <3>2. CASE ~Fresh(D, U[k])
      BY <3>2, <2>1, <1>6, <1>7 DEF Fresh, Ids
    <3> QED
      BY <3>1, <3>2
  <2> QED
    BY <2>1, <2>2, <2>3, <1>3, <1>6, GoodKept
<1>11. ASSUME NEW k \in DOMAIN U, Fresh(E, U[k])
       PROVE  Turn(E, U, k)
  <2>1. k + 1 \in DOMAIN T /\ U[k] = T[k + 1] /\ k \in Nat \ {0}
    BY <1>5
  <2>2. U[k].t \in Types /\ U[k].id \in Ids /\ Len(D[U[k].t]) \in Nat
    BY <2>1, <1>6, <1>7
  <2>3. Fresh(D, U[k])
    BY <2>2, <1>8, <1>11 DEF Fresh, Ids
  <2>4. Turn(D, T, k + 1)
    BY <2>1, <2>3 DEF TodoOK, InLine
  <2>5. \A j \in DOMAIN U : j < k => j + 1 \in DOMAIN T /\ j + 1 < k + 1 /\ U[j] = T[j + 1]
    BY <1>5, <2>1
  <2>6. \A j \in DOMAIN U : j < k /\ U[j].t = U[k].t => U[j].id # U[k].id
    <3>1. \A j \in DOMAIN T : j < k + 1 /\ T[j].t = U[k].t => T[j].id # U[k].id
      BY <2>1, <2>4 DEF Turn
    <3> QED
      BY <3>1, <2>5
  <2>7. CASE U[k].id = Len(D[U[k].t]) + 1
    <3>1. ~(U[k].t = w.t /\ Fresh(D, w))
      BY <2>2, <2>7, <1>8, <1>11 DEF Fresh
    <3> QED
      BY <3>1, <2>2, <2>6, <2>7, <1>8 DEF Turn
  <2>8. CASE U[k].id # Len(D[U[k].t]) + 1
    <3>1. PICK j \in DOMAIN T : j < k + 1 /\ T[j].t = U[k].t /\ T[j].id = U[k].id - 1
      BY <2>1, <2>4, <2>8 DEF Turn
    <3>2. CASE j = 1
      <4>1. w.t = U[k].t /\ w.id = U[k].id - 1
        BY <3>1, <3>2, <1>2
      <4>2. U[k].id > Len(D[U[k].t]) + 1
        BY <2>2, <2>3, <2>8 DEF Fresh, Ids
      <4>3. Fresh(D, w)
        BY <4>1, <4>2, <2>2 DEF Fresh, Ids
      <4>4. w.id = Len(D[w.t]) + 1 /\ Len(E[w.t]) = Len(D[w.t]) + 1
        BY <4>3, <1>3, <1>8, <1>9
      <4>5. U[k].id = Len(E[U[k].t]) + 1
        BY <4>1, <4>4, <2>2 DEF Ids
      <4> QED
        BY <4>5, <2>6 DEF Turn
    <3>3. CASE j # 1
      <4>1. j - 1 \in DOMAIN U /\ j - 1 < k /\ j - 1 + 1 = j
        BY <3>1, <3>3, <2>1, <1>5
      <4>2. U[j - 1].t = U[k].t /\ U[j - 1].id = U[k].id - 1
        BY <4>1, <3>1, <1>5
      <4> QED
        BY <4>1, <4>2, <2>6 DEF Turn
    <3> QED
      BY <3>2, <3>3
  <2> QED
    BY <2>7, <2>8
<1>12. InLine(E, U)
  BY <1>11 DEF InLine
<1> QED
  BY <1>4, <1>5, <1>10, <1>12 DEF TodoOK
-----------------------------------------------------------------------------
(***************************************************************************)
(* Sets of numbers in their order, and lists of writes.                    *)
(***************************************************************************)

\* Some natural numbers have a smallest one.
LEMMA LeastExists ==
  ASSUME NEW T, T \subseteq Nat, T # {}
  PROVE  \E x \in T : \A y \in T : x <= y
<1> DEFINE R == OpToRel(<, Nat)
<1>1. IsWellFoundedOn(R, Nat)
  BY NatLessThanWellFounded
<1>2. \A x, y \in Nat : x < y => <<x, y>> \in R
  BY DEF OpToRel
<1> HIDE DEF R
<1>3. PICK x \in T : \A y \in T : ~(<<y, x>> \in R)
  BY <1>1, WFMin
<1>4. ASSUME NEW y \in T PROVE x <= y
  <2>1. x \in Nat /\ y \in Nat
    OBVIOUS
  <2>2. ~(y < x)
    BY <1>2, <1>3, <2>1
  <2> QED
    BY <2>1, <2>2
<1> QED
  BY <1>4

\* InOrder() is a sequence of elements of the set.
LEMMA InOrderSeq ==
  ASSUME NEW S, S \subseteq Nat, IsFiniteSet(S)
  PROVE  InOrder(S) \in Seq(S)
<1> DEFINE Less(x) == {y \in S : y < x}
           n == Cardinality(S)
           Has(k) == \E x \in S : Cardinality(Less(x)) = k - 1
<1>1. n \in Nat
  BY FS_CardinalityType
<1>2. \A k \in 1 .. n : Has(k)
  <2> DEFINE B == {k \in 1 .. n : ~Has(k)}
  <2> SUFFICES ASSUME B # {} PROVE FALSE
    OBVIOUS
  <2>1. PICK k \in B : \A j \in B : k <= j
    <3>1. B \subseteq Nat
      BY <1>1
    <3> HIDE DEF B
    <3> QED
      BY <3>1, LeastExists
  <2>2. k \in 1 .. n /\ ~Has(k)
    OBVIOUS
  <2> HIDE DEF B, n
  <2>3. CASE k = 1
    <3>1. S # {}
      BY <2>2, FS_EmptySet DEF n
    <3>2. PICK x \in S : \A y \in S : x <= y
      BY <3>1, LeastExists
    <3>3. Less(x) = {}
      <4>1. \A y \in S : y \in Nat /\ x \in Nat
        OBVIOUS
      <4>2. \A y \in S : ~(y < x)
        BY <3>2, <4>1
      <4> QED
        BY <4>2
    <3>4. Cardinality(Less(x)) = 0
      BY <3>3, FS_EmptySet
    <3> QED
      BY <3>4, <2>2, <2>3
  <2>4. CASE k # 1
    <3>1. k - 1 \in 1 .. n /\ k \in Nat
      BY <2>2, <2>4, <1>1
    <3>2. Has(k - 1)
      BY <2>1, <3>1 DEF B
    <3>3. PICK z \in S : Cardinality(Less(z)) = k - 1 - 1
      BY <3>2
    <3>4. PICK L : L = Less(z) \cup {z}
      OBVIOUS
    <3>5. IsFiniteSet(Less(z)) /\ z \notin Less(z)
      BY FS_Subset
    <3>6. Cardinality(L) = k - 1 /\ L \subseteq S
      <4>1. L \subseteq S
        BY <3>4
      <4>2. Cardinality(L) = Cardinality(Less(z)) + 1
        BY <3>4, <3>5, FS_AddElement
      <4>3. k - 1 - 1 + 1 = k - 1
        BY <3>1
      <4> QED
        BY <4>1, <4>2, <4>3, <3>3
    <3>7. S \ L # {}
      <4>1. L # S
        BY <3>1, <3>6, <2>2, <1>1 DEF n
      <4> QED
        BY <4>1, <3>6
    <3>8. PICK x \in S \ L : \A y \in S \ L : x <= y
      <4>1. S \ L \subseteq Nat
        OBVIOUS
      <4> QED
        BY <3>7, <4>1, LeastExists
    <3>9. z < x
      BY <3>4, <3>8
    <3>10. \A y \in S : y \in L <=> y <= z
      BY <3>4
    <3>11. Less(x) = L
      <4>1. \A y \in S : y < x <=> y \in L
        BY <3>8, <3>9, <3>10
      <4> QED
        BY <4>1, <3>6
    <3> QED
      BY <3>6, <3>8, <3>11, <2>2
  <2> QED
    BY <2>3, <2>4
<1>3. ASSUME NEW k \in 1 .. n
      PROVE  (CHOOSE x \in S : Cardinality({y \in S : y < x}) = k - 1) \in S
  <2>1. \E x \in S : Cardinality({y \in S : y < x}) = k - 1
    BY <1>2
  <2> QED
    BY <2>1
<1>4. InOrder(S) \in [1 .. n -> S]
  BY <1>3 DEF InOrder
<1> HIDE DEF n
<1> QED
  BY <1>1, <1>4, MapFacts

\* Lists of writes that make different individuals, one after the other.
LEMMA TodoConcat ==
  ASSUME NEW D, NEW S \in Seq(Write), NEW U \in Seq(Write), InLine(D, S), InLine(D, U),
         DbOK(D),
         \A j \in DOMAIN S, k \in DOMAIN U :
           Fresh(D, S[j]) /\ Fresh(D, U[k]) => S[j].t # U[k].t
  PROVE  InLine(D, S \o U)
<1>1. PICK T : T = S \o U
  OBVIOUS
<1>2. PICK n : n = Len(S)
  OBVIOUS
<1>3. /\ T \in Seq(Write) /\ n \in Nat /\ Len(U) \in Nat
      /\ DOMAIN S = 1 .. n /\ DOMAIN U = 1 .. Len(U) /\ DOMAIN T = 1 .. (n + Len(U))
      /\ \A k \in 1 .. n : T[k] = S[k]
      /\ \A k \in (n + 1) .. (n + Len(U)) : T[k] = U[k - n]
  BY <1>1, <1>2, ConcatFacts
<1>4. ASSUME NEW k \in DOMAIN T, Fresh(D, T[k])
      PROVE  Turn(D, T, k)
  <2>1. CASE k \in DOMAIN S
    <3>1. T[k] = S[k] /\ Turn(D, S, k)
      BY <2>1, <1>3, <1>4 DEF InLine
    <3>2. \A j \in DOMAIN T : j < k => j \in DOMAIN S /\ T[j] = S[j]
      BY <2>1, <1>3
    <3>3. \A j \in DOMAIN S : j \in DOMAIN T /\ T[j] = S[j]
      BY <1>3
    <3> QED
      BY <3>1, <3>2, <3>3 DEF Turn
  <2>2. CASE k \notin DOMAIN S
    <3>1. PICK m \in DOMAIN U : k = n + m
      <4>1. k - n \in DOMAIN U /\ k = n + (k - n)
        BY <2>2, <1>3
      <4> QED
        BY <4>1
    <3>2. \A j \in DOMAIN U : n + j \in DOMAIN T /\ T[n + j] = U[j] /\ (j < m => n + j < k)
      <4> TAKE j \in DOMAIN U
      <4>1. n + j \in (n + 1) .. (n + Len(U)) /\ n + j - n = j /\ (j < m => n + j < k)
        BY <1>3, <3>1
      <4> QED
        BY <4>1, <1>3
    <3>3. T[k] = U[m]
      BY <3>1, <3>2
    <3>4. Turn(D, U, m)
      BY <3>3, <1>4 DEF InLine
    <3>5. \A j \in DOMAIN T : j < k => (j \in DOMAIN S /\ T[j] = S[j])
                                       \/ \E i \in DOMAIN U : i < m /\ j = n + i
      <4> SUFFICES ASSUME NEW j \in DOMAIN T, j < k, j \notin DOMAIN S
                   PROVE  \E i \in DOMAIN U : i < m /\ j = n + i
        BY <1>3
      <4>1. j - n \in DOMAIN U /\ j - n < m /\ j = n + (j - n)
        BY <1>3, <3>1
      <4> QED
        BY <4>1
    <3>6. ASSUME NEW j \in DOMAIN S, S[j].t = U[m].t
          PROVE  S[j].id # U[m].id
      <4>1. ~Fresh(D, S[j]) /\ Fresh(D, U[m])
        BY <3>3, <3>6, <1>4
      <4> QED
        BY <4>1, <3>6 DEF Fresh
    <3>7. \A j \in DOMAIN T : j < k /\ T[j].t = T[k].t => T[j].id # T[k].id
      <4> SUFFICES ASSUME NEW j \in DOMAIN T, j < k, T[j].t = T[k].t
                   PROVE  T[j].id # T[k].id
        OBVIOUS
      <4>1. CASE j \in DOMAIN S /\ T[j] = S[j]
        BY <4>1, <3>3, <3>6
      <4>2. CASE \E i \in DOMAIN U : i < m /\ j = n + i
        <5>1. PICK i \in DOMAIN U : i < m /\ j = n + i
          BY <4>2
        <5>2. T[j] = U[i]
          BY <5>1, <3>2
        <5> QED
          BY <5>1, <5>2, <3>3, <3>4 DEF Turn
      <4> QED
        BY <4>1, <4>2, <3>5
    <3>8. CASE U[m].id = Len(D[U[m].t]) + 1
      BY <3>8, <3>3, <3>7 DEF Turn
    <3>9. CASE \E i \in DOMAIN U : i < m /\ U[i].t = U[m].t /\ U[i].id = U[m].id - 1
      <4>1. PICK i \in DOMAIN U : i < m /\ U[i].t = U[m].t /\ U[i].id = U[m].id - 1
        BY <3>9
      <4>2. n + i \in DOMAIN T /\ n + i < k /\ T[n + i] = U[i]
        BY <4>1, <3>2
      <4> QED
        BY <4>1, <4>2, <3>3, <3>7 DEF Turn
    <3> QED
      BY <3>4, <3>8, <3>9 DEF Turn
  <2> QED
    BY <2>1, <2>2
<1> QED
  BY <1>1, <1>4 DEF InLine

\* Writes to individuals that are there are in line, and new ones in a row.
LEMMA NoneFresh ==
  ASSUME NEW D, NEW T, \A k \in DOMAIN T : ~Fresh(D, T[k])
  PROVE  InLine(D, T)
BY DEF InLine

\* The same for a row of new individuals of one type.
LEMMA RowInLine ==
  ASSUME NEW D, NEW T \in Seq(Write), NEW t \in Types, DbOK(D),
         \A k \in DOMAIN T : T[k].t = t /\ T[k].id = Len(D[t]) + k
  PROVE  InLine(D, T)
<1>1. Len(D[t]) \in Nat /\ DOMAIN T = 1 .. Len(T) /\ Len(T) \in Nat
  BY DEF DbOK
<1>2. ASSUME NEW k \in DOMAIN T
      PROVE  Turn(D, T, k)
  <2>1. \A j \in DOMAIN T : j < k => T[j].id # T[k].id
    BY <1>1
  <2>2. CASE k = 1
    BY <2>1, <2>2 DEF Turn
  <2>3. CASE k # 1
    <3>1. k - 1 \in DOMAIN T /\ k - 1 < k
      BY <2>3, <1>1
    <3>2. T[k - 1].t = t /\ T[k - 1].id = Len(D[t]) + (k - 1) /\ T[k].id = Len(D[t]) + k
      BY <3>1
    <3>3. T[k - 1].t = T[k].t /\ T[k - 1].id = T[k].id - 1
      BY <3>2, <1>1
    <3> QED
      BY <3>1, <3>3, <2>1 DEF Turn
  <2> QED
    BY <2>2, <2>3
<1> QED
  BY <1>2 DEF InLine
-----------------------------------------------------------------------------
(***************************************************************************)
(* What the scripts write: the items of a transaction that is made for the *)
(* record r when the individuals are D.                                    *)
(***************************************************************************)

\* u is v with other variables; the process p is one that r may give variables.
Grown(v, u) ==
  /\ u.net = v.net /\ u.parent = v.parent /\ u.wil = v.wil
  /\ u.stopped = v.stopped /\ u.completed = v.completed
Place(D, r, p) ==
  \/ r.t = "proc" /\ p = r.id /\ ~r.v.stopped /\ r.v.completed = "absent"
  \/ r.t = "wi" /\ p = r.v.proc
  \/ r.t = "wo" /\ p = D["wi"][r.v.wi].proc

\* A process is made, begins, ends, is stopped or has a new variable.
ProcItem(D, r, x) ==
  \/ /\ Fresh(D, x) /\ x.v.completed = "absent" /\ ~x.v.stopped /\ x.v.wil = <<>>
     /\ x.v.parent = 0 \/ (r.t = "wo" /\ x.v.parent = r.id)
  \/ /\ r.t = "proc" /\ ~r.v.stopped /\ r.v.completed = "absent" /\ x.id = r.id
     /\ ~x.v.stopped /\ x.v.completed = "false"
  \/ /\ r.t = "wi" /\ x.id = r.v.proc /\ x.v.completed = "true"
     /\ x.v.stopped = D["proc"][x.id].stopped /\ x.v.wil = D["proc"][x.id].wil
  \/ /\ r.t = "proc" /\ r.v.stopped /\ x.id \in DOMAIN D["proc"] /\ x.v.stopped
     /\ x.v.completed = D["proc"][x.id].completed /\ x.v.wil = D["proc"][x.id].wil
  \/ x.id \in DOMAIN D["proc"] /\ Grown(D["proc"][x.id], x.v) /\ Place(D, r, x.id)

\* A work item is made in the process of the record, is in hand, or its task
\* is left.
Codelet(e) == e \notin Users /\ e \notin DOMAIN Inputs
Resulted(D, r, o) ==
  \/ o = r.id /\ (r.v.out # 0 \/ Codelet(r.v.executor))
  \/ o # r.id /\ o \in DOMAIN D["wo"] /\ D["wo"][o].out # 0
WiItem(D, r, x) ==
  \/ /\ Fresh(D, x) /\ ~x.v.done
     /\ \/ r.t = "proc" /\ ~r.v.stopped /\ x.v.proc = r.id
        \/ r.t = "wi" /\ x.v.proc = r.v.proc
        \/ r.t = "wo" /\ x.v.proc = D["wi"][r.v.wi].proc
  \/ r.t = "wi" /\ x.id = r.id /\ (x.v.done => Net[x.v.elem].kind # "task")
  \/ r.t = "wo" /\ x.id = r.v.wi /\ x.v.done /\ \A o \in ToSet(x.v.wol) : Resulted(D, r, o)

\* A work order is made, is in hand, or has its result from a process or a form.
WoItem(D, r, x) ==
  \/ Fresh(D, x) /\ r.t = "wi" /\ x.v.wi = r.id /\ x.v.out = 0
  \/ /\ r.t = "wo" /\ r.v.out = 0 /\ x.id = r.id
     /\ \/ r.v.executor \in Users /\ x.v.out = D["wo"][x.id].out
        \/ r.v.executor \in Nets /\ x.v.out = 0
        \/ Codelet(r.v.executor) /\ x.v.out = 1
  \/ /\ r.t = "wi" /\ x.id = D["proc"][r.v.proc].parent /\ x.id \in DOMAIN D["wo"]
     /\ x.v.out = 1
  \/ /\ r.t = "df" /\ r.was.taken = 0 /\ r.v.taken # 0 /\ ~r.v.done
     /\ x.id = r.v.wo /\ x.v.out = r.v.taken

\* A form is made, reported on, taken, put back or deleted.
DfItem(D, r, x) ==
  \/ /\ Fresh(D, x) /\ r.t = "wo" /\ r.v.out = 0 /\ x.v.wo = r.id
     /\ x.v.taken = 0 /\ ~x.v.done /\ ~x.v.deleted
  \/ r.t = "df" /\ x.id = r.id /\ x.v = D["df"][x.id]
  \/ /\ r.t = "df" /\ x.id = r.id /\ r.was.taken = 0 /\ r.v.taken # 0 /\ ~r.v.done
     /\ x.v.done /\ x.v.taken = D["df"][x.id].taken /\ x.v.deleted = D["df"][x.id].deleted
  \/ /\ r.t = "df" /\ x.id = r.id /\ r.was.taken # 0 /\ r.v.taken # r.was.taken
     /\ x.v.taken = r.was.taken /\ x.v.done = D["df"][x.id].done
     /\ x.v.deleted = D["df"][x.id].deleted
  \/ /\ r.t = "proc" /\ r.v.stopped /\ x.id \in DOMAIN D["df"] /\ ~D["df"][x.id].done
     /\ x.v.deleted /\ ~x.v.done /\ x.v.taken = D["df"][x.id].taken

Item(D, r, x) ==
  /\ Good(D, x.t, x.id, x.v) /\ (x.t = "form" => x.id = 1)
  /\ x.t = "proc" => ProcItem(D, r, x)
  /\ x.t = "wi" => WiItem(D, r, x)
  /\ x.t = "wo" => WoItem(D, r, x)
  /\ x.t = "df" => DfItem(D, r, x)
Items(D, r) == {x \in Write : Item(D, r, x)}

\* r is a record of the queue.
IsRecord(D, r) ==
  /\ r \in Record /\ r.id \in DOMAIN D[r.t]
  /\ Good(D, r.t, r.id, r.v) /\ Good(D, r.t, r.id, r.was)

\* The parts of the database.
LEMMA DbFacts ==
  ASSUME NEW D, DbOK(D)
  PROVE  /\ \A t \in Types : DOMAIN D[t] = 1 .. Len(D[t]) /\ Len(D[t]) \in Nat
         /\ \A t \in Types : \A i \in DOMAIN D[t] : i \in Ids
         /\ DOMAIN D["form"] = {1} /\ D["form"][1] \in Form
         /\ \A i \in DOMAIN D["proc"] :
              /\ D["proc"][i] \in Process
              /\ Above(D, D["proc"][i].parent)
         /\ \A i \in DOMAIN D["wi"] :
              D["wi"][i] \in WorkItem /\ D["wi"][i].proc \in DOMAIN D["proc"]
         /\ \A i \in DOMAIN D["wo"] :
              D["wo"][i] \in WorkOrder /\ D["wo"][i].wi \in DOMAIN D["wi"]
         /\ \A i \in DOMAIN D["df"] :
              /\ D["df"][i] \in DecisionForm /\ D["df"][i].wo \in DOMAIN D["wo"]
              /\ D["wo"][D["df"][i].wo].executor \in Users
<1>1. \A t \in Types : DOMAIN D[t] = 1 .. Len(D[t]) /\ Len(D[t]) \in Nat
  BY DEF DbOK
<1>2. \A t \in Types : \A i \in DOMAIN D[t] : i \in Ids
  BY <1>1 DEF Ids
<1>3. {"form", "proc", "wi", "wo", "df"} = Types
  BY DEF Types
<1>4. \A t \in Types : \A i \in DOMAIN D[t] : Member(t, D[t][i]) /\ Linked(D, t, D[t][i])
  BY DEF DbOK, Good
<1>5. DOMAIN D["form"] = {1} /\ D["form"][1] \in Form
  <2>1. Len(D["form"]) = 1
    BY DEF DbOK
  <2>2. DOMAIN D["form"] = 1 .. 1
    BY <1>1, <1>3, <2>1
  <2>3. DOMAIN D["form"] = {1}
    BY <2>2
  <2> QED
    BY <1>3, <1>4, <2>3 DEF Member
<1>6. ASSUME NEW i \in DOMAIN D["proc"]
      PROVE  /\ D["proc"][i] \in Process
             /\ Above(D, D["proc"][i].parent)
  BY <1>3, <1>4 DEF Member, Linked
<1>7. ASSUME NEW i \in DOMAIN D["wi"]
      PROVE  D["wi"][i] \in WorkItem /\ D["wi"][i].proc \in DOMAIN D["proc"]
  BY <1>3, <1>4 DEF Member, Linked
<1>8. ASSUME NEW i \in DOMAIN D["wo"]
      PROVE  D["wo"][i] \in WorkOrder /\ D["wo"][i].wi \in DOMAIN D["wi"]
  BY <1>3, <1>4 DEF Member, Linked
<1>9. ASSUME NEW i \in DOMAIN D["df"]
      PROVE  /\ D["df"][i] \in DecisionForm /\ D["df"][i].wo \in DOMAIN D["wo"]
             /\ D["wo"][D["df"][i].wo].executor \in Users
  BY <1>3, <1>4 DEF Member, Linked
<1> QED
  BY <1>1, <1>2, <1>5, <1>6, <1>7, <1>8, <1>9

\* What a record says of its individual.
LEMMA RecordFacts ==
  ASSUME NEW D, DbOK(D), NEW r, IsRecord(D, r)
  PROVE  /\ r.t \in Types /\ r.id \in DOMAIN D[r.t] /\ r.id \in Ids
         /\ r.t = "form" => r.v \in Form /\ r.id = 1
         /\ r.t = "proc" => /\ r.v \in Process /\ Same("proc", r.v, D["proc"][r.id])
                            /\ r.was \in Process
                            /\ Above(D, r.v.parent)
         /\ r.t = "wi" => /\ r.v \in WorkItem /\ r.v.proc \in DOMAIN D["proc"]
                          /\ Same("wi", r.v, D["wi"][r.id])
         /\ r.t = "wo" => /\ r.v \in WorkOrder /\ r.v.wi \in DOMAIN D["wi"]
                          /\ Same("wo", r.v, D["wo"][r.id])
         /\ r.t = "df" => /\ r.v \in DecisionForm /\ r.v.wo \in DOMAIN D["wo"]
                          /\ r.was \in DecisionForm
                          /\ D["wo"][r.v.wo].executor \in Users
                          /\ Same("df", r.v, D["df"][r.id])
<1>1. r.t \in Types /\ r.id \in DOMAIN D[r.t] /\ r.id \in Ids
  BY DEF IsRecord, Record
<1>2. Member(r.t, r.v) /\ Member(r.t, r.was) /\ Linked(D, r.t, r.v) /\ Same(r.t, r.v, D[r.t][r.id])
  BY DEF IsRecord, Good
<1>3. DOMAIN D["form"] = {1}
  BY DbFacts
<1>4. r.t = "form" => r.v \in Form /\ r.id = 1
  BY <1>1, <1>2, <1>3 DEF Member
<1>5. r.t = "proc" => /\ r.v \in Process /\ Same("proc", r.v, D["proc"][r.id])
                      /\ r.was \in Process
                      /\ Above(D, r.v.parent)
  BY <1>2 DEF Member, Linked
<1>6. r.t = "wi" => /\ r.v \in WorkItem /\ r.v.proc \in DOMAIN D["proc"]
                    /\ Same("wi", r.v, D["wi"][r.id])
  BY <1>2 DEF Member, Linked
<1>7. r.t = "wo" => /\ r.v \in WorkOrder /\ r.v.wi \in DOMAIN D["wi"]
                    /\ Same("wo", r.v, D["wo"][r.id])
  BY <1>2 DEF Member, Linked
<1>8. r.t = "df" => /\ r.v \in DecisionForm /\ r.v.wo \in DOMAIN D["wo"]
                    /\ r.was \in DecisionForm
                    /\ D["wo"][r.v.wo].executor \in Users
                    /\ Same("df", r.v, D["df"][r.id])
  BY <1>2 DEF Member, Linked
<1> QED
  BY <1>1, <1>4, <1>5, <1>6, <1>7, <1>8

\* The fields of a write.
LEMMA PutFacts ==
  ASSUME NEW t, NEW i, NEW v
  PROVE  Put(t, i, v).t = t /\ Put(t, i, v).id = i /\ Put(t, i, v).v = v
BY DEF Put

\* When a write is an item.
LEMMA ItemOf ==
  ASSUME NEW D, NEW r, NEW t \in Types, NEW i \in Ids, NEW v, Good(D, t, i, v),
         t = "form" => i = 1,
         t = "proc" => ProcItem(D, r, Put(t, i, v)),
         t = "wi" => WiItem(D, r, Put(t, i, v)),
         t = "wo" => WoItem(D, r, Put(t, i, v)),
         t = "df" => DfItem(D, r, Put(t, i, v))
  PROVE  Put(t, i, v) \in Items(D, r)
<1>1. PICK x : x = Put(t, i, v)
  OBVIOUS
<1>2. x.t = t /\ x.id = i /\ x.v = v
  BY <1>1, PutFacts
<1>3. v \in Value
  BY MemberValue DEF Good
<1>4. x \in Write
  BY <1>1, <1>3 DEF Put, Write
<1>5. Item(D, r, x)
  BY <1>1, <1>2 DEF Item
<1> QED
  BY <1>1, <1>4, <1>5 DEF Items

\* New individuals are well-formed.
LEMMA NewFacts ==
  /\ \A n \in DOMAIN Inputs, o \in Ref : NewProcess(n, o) \in Process
  /\ \A p \in Ids, e \in DOMAIN Net, w \in Ref : NewWorkItem(p, e, w) \in WorkItem
  /\ \A w \in Ids, x \in Executor : NewWorkOrder(w, x) \in WorkOrder
  /\ \A o \in Ids : NewDecisionForm(o) \in DecisionForm
BY DEF NewProcess, Process, NewWorkItem, WorkItem, NewWorkOrder, WorkOrder,
       NewDecisionForm, DecisionForm, Ref, Results

\* T is a list of items for r, in line.
List(D, r, T) == T \in Seq(Items(D, r)) /\ InLine(D, T)
Apart(D, S, U) ==
  \A j \in DOMAIN S, k \in DOMAIN U :
    Fresh(D, S[j]) /\ Fresh(D, U[k]) => S[j].t # U[k].t

\* Items are writes.
LEMMA ListWrites ==
  ASSUME NEW D, NEW r, NEW T, List(D, r, T)
  PROVE  T \in Seq(Write) /\ \A k \in DOMAIN T : T[k] \in Write /\ Item(D, r, T[k])
<1>1. Items(D, r) \subseteq Write
  BY DEF Items
<1>2. T \in Seq(Items(D, r))
  BY DEF List
<1>3. \A k \in DOMAIN T : T[k] \in Items(D, r)
  BY <1>2
<1>4. T \in [1 .. Len(T) -> Items(D, r)] /\ Len(T) \in Nat
  BY <1>2
<1>5. T \in [1 .. Len(T) -> Write]
  BY <1>1, <1>4
<1>6. T \in Seq(Write)
  BY <1>4, <1>5, MapFacts
<1> QED
  BY <1>3, <1>6 DEF Items

\* A list of items is what a script may have to send.
LEMMA ListTodo ==
  ASSUME NEW D, NEW r, NEW T, List(D, r, T)
  PROVE  TodoOK(D, T)
<1>1. T \in Seq(Write) /\ \A k \in DOMAIN T : Item(D, r, T[k])
  BY ListWrites
<1>2. InLine(D, T)
  BY DEF List
<1> QED
  BY <1>1, <1>2 DEF TodoOK, Item

\* The lists of no and of one item.
LEMMA ListShort ==
  ASSUME NEW D, NEW r, DbOK(D)
  PROVE  /\ List(D, r, <<>>)
         /\ \A x \in Items(D, r) :
              x.id \in DOMAIN D[x.t] \/ x.id = Len(D[x.t]) + 1 => List(D, r, <<x>>)
<1>1. List(D, r, <<>>)
  <2>1. <<>> \in Seq(Items(D, r)) /\ DOMAIN (<< >>) = {}
    OBVIOUS
  <2> QED
    BY <2>1 DEF List, InLine
<1>2. ASSUME NEW x \in Items(D, r), x.id \in DOMAIN D[x.t] \/ x.id = Len(D[x.t]) + 1
      PROVE  List(D, r, <<x>>)
  <2>1. PICK T : T = <<x>>
    OBVIOUS
  <2>2. T \in Seq(Items(D, r)) /\ DOMAIN T = {1} /\ T[1] = x
    BY <2>1
  <2>3. x.t \in Types
    BY DEF Items, Write
  <2>4. DOMAIN D[x.t] = 1 .. Len(D[x.t]) /\ Len(D[x.t]) \in Nat
    BY <2>3, DbFacts
  <2>5. Fresh(D, T[1]) => Turn(D, T, 1)
    <3>1. \A j \in DOMAIN T : ~(j < 1)
      BY <2>2
    <3> QED
      BY <3>1, <2>2, <2>4, <1>2 DEF Fresh, Turn
  <2> QED
    BY <2>1, <2>2, <2>5 DEF List, InLine
<1> QED
  BY <1>1, <1>2

\* Two lists that make different individuals, one after the other.
LEMMA ListConcat ==
  ASSUME NEW D, NEW r, DbOK(D), NEW S, NEW U, List(D, r, S), List(D, r, U), Apart(D, S, U)
  PROVE  List(D, r, S \o U)
<1>1. S \in Seq(Write) /\ U \in Seq(Write) /\ InLine(D, S) /\ InLine(D, U)
  BY ListWrites DEF List
<1>2. InLine(D, S \o U)
  BY <1>1, TodoConcat DEF Apart
<1>3. S \o U \in Seq(Items(D, r))
  BY DEF List
<1> QED
  BY <1>2, <1>3 DEF List

\* A write to an individual that is there makes nothing, and is apart from all.
Makes(D, T, t) == \E k \in DOMAIN T : Fresh(D, T[k]) /\ T[k].t = t
LEMMA ApartIf ==
  ASSUME NEW D, NEW S, NEW U, \A t : ~(Makes(D, S, t) /\ Makes(D, U, t))
  PROVE  Apart(D, S, U)
BY DEF Apart, Makes

\* What a list of no or of one write makes, and one of two parts.
LEMMA MakesFacts ==
  ASSUME NEW D, DbOK(D)
  PROVE  /\ \A t : ~Makes(D, <<>>, t)
         /\ \A x \in Write : \A t : Makes(D, <<x>>, t) => Fresh(D, x) /\ x.t = t
         /\ \A x \in Write : x.id \in DOMAIN D[x.t] => ~Fresh(D, x)
         /\ \A S, U \in Seq(Write) : \A t :
              Makes(D, S \o U, t) => Makes(D, S, t) \/ Makes(D, U, t)
<1>1. \A t : ~Makes(D, <<>>, t)
  BY DEF Makes
<1>2. ASSUME NEW x \in Write, NEW t, Makes(D, <<x>>, t)
      PROVE  Fresh(D, x) /\ x.t = t
  BY <1>2 DEF Makes
<1>3. ASSUME NEW x \in Write, x.id \in DOMAIN D[x.t]
      PROVE  ~Fresh(D, x)
  <2>1. x.t \in Types
    BY DEF Write
  <2> QED
    BY <2>1, <1>3, DbFacts DEF Fresh
<1>4. ASSUME NEW S \in Seq(Write), NEW U \in Seq(Write), NEW t, Makes(D, S \o U, t)
      PROVE  Makes(D, S, t) \/ Makes(D, U, t)
  <2>1. PICK T : T = S \o U
    OBVIOUS
  <2>2. PICK k \in DOMAIN T : Fresh(D, T[k]) /\ T[k].t = t
    BY <2>1, <1>4 DEF Makes
  <2>3. /\ Len(S) \in Nat /\ Len(U) \in Nat
        /\ DOMAIN S = 1 .. Len(S) /\ DOMAIN U = 1 .. Len(U) /\ DOMAIN T = 1 .. (Len(S) + Len(U))
        /\ \A i \in 1 .. Len(S) : T[i] = S[i]
        /\ \A i \in (Len(S) + 1) .. (Len(S) + Len(U)) : T[i] = U[i - Len(S)]
    BY <2>1, ConcatFacts
  <2>4. CASE k \in DOMAIN S
    BY <2>2, <2>3, <2>4 DEF Makes
  <2>5. CASE k \notin DOMAIN S
    <3>1. k - Len(S) \in DOMAIN U /\ T[k] = U[k - Len(S)]
      BY <2>3, <2>5
    <3> QED
      BY <3>1, <2>2 DEF Makes
  <2> QED
    BY <2>4, <2>5
<1> QED
  BY <1>1, <1>2, <1>3, <1>4

\* A write to an individual that is there can be added at either end.
LEMMA ListAdd ==
  ASSUME NEW D, NEW r, DbOK(D), NEW S, List(D, r, S), NEW x \in Items(D, r),
         x.id \in DOMAIN D[x.t]
  PROVE  List(D, r, S \o <<x>>) /\ List(D, r, <<x>> \o S) /\ List(D, r, Append(S, x))
<1>1. List(D, r, <<x>>) /\ x \in Write
  BY ListShort DEF Items
<1>2. \A t : ~Makes(D, <<x>>, t)
  BY <1>1, MakesFacts
<1>3. Apart(D, S, <<x>>) /\ Apart(D, <<x>>, S)
  BY <1>2, ApartIf
<1>4. List(D, r, S \o <<x>>) /\ List(D, r, <<x>> \o S)
  BY <1>1, <1>3, ListConcat
<1>5. Append(S, x) = S \o <<x>>
  <2>1. S \in Seq(Write)
    BY ListWrites
  <2> QED
    BY <1>1, <2>1
<1> QED
  BY <1>4, <1>5

\* Two items, of which the second is for an individual that is there.
LEMMA ListPair ==
  ASSUME NEW D, NEW r, DbOK(D), NEW x \in Items(D, r), NEW y \in Items(D, r),
         x.id \in DOMAIN D[x.t] \/ x.id = Len(D[x.t]) + 1, y.id \in DOMAIN D[y.t]
  PROVE  List(D, r, <<x, y>>)
<1>1. List(D, r, <<x>>)
  BY ListShort
<1>2. <<x, y>> = <<x>> \o <<y>>
  <2>1. PICK T : T = <<x>> \o <<y>>
    OBVIOUS
  <2>2. <<x>> \in Seq(Items(D, r)) /\ <<y>> \in Seq(Items(D, r))
    OBVIOUS
  <2>3. /\ T \in Seq(Items(D, r)) /\ DOMAIN T = 1 .. 2 /\ T[1] = x /\ T[2] = y
    BY <2>1, <2>2
  <2>4. T \in [1 .. 2 -> Items(D, r)]
    BY <2>3
  <2>5. <<x, y>> \in [1 .. 2 -> Items(D, r)] /\ <<x, y>>[1] = x /\ <<x, y>>[2] = y
    OBVIOUS
  <2>6. T = <<x, y>>
    BY <2>3, <2>4, <2>5
  <2> QED
    BY <2>1, <2>6
<1> QED
  BY <1>1, <1>2, ListAdd

\* A list of writes to individuals that are there.
LEMMA OldList ==
  ASSUME NEW D, DbOK(D), NEW r, NEW T, NEW n \in Nat, T \in [1 .. n -> Items(D, r)],
         \A k \in 1 .. n : T[k].id \in DOMAIN D[T[k].t]
  PROVE  List(D, r, T) /\ \A u : ~Makes(D, T, u)
<1>1. T \in Seq(Items(D, r)) /\ DOMAIN T = 1 .. n
  BY MapFacts
<1>2. \A k \in DOMAIN T : ~Fresh(D, T[k])
  <2> TAKE k \in DOMAIN T
  <2>1. T[k] \in Items(D, r) /\ T[k].id \in DOMAIN D[T[k].t]
    BY <1>1
  <2>2. T[k] \in Write
    BY <2>1 DEF Items
  <2> QED
    BY <2>1, <2>2, MakesFacts
<1> QED
  BY <1>1, <1>2, NoneFresh DEF List, Makes

\* What is written of a process that has new variables.
LEMMA AddFacts ==
  ASSUME DbOK(db), NEW p \in DOMAIN db["proc"], NEW have, NEW vs \in SUBSET Vars, IsFiniteSet(vs)
  PROVE  /\ AddLocals(p, have, vs) \in Seq(Write)
         /\ \A k \in DOMAIN AddLocals(p, have, vs) :
              LET x == AddLocals(p, have, vs)[k]
              IN  /\ x = Put("proc", p, x.v) /\ x.t = "proc" /\ x.id = p /\ x.v \in Process
                  /\ Grown(db["proc"][p], x.v)
<1>1. PICK s : s = InOrder(vs \ have)
  OBVIOUS
<1>2. s \in Seq(vs \ have)
  <2>1. vs \ have \subseteq Nat /\ IsFiniteSet(vs \ have)
    BY FS_Subset DEF Vars
  <2> QED
    BY <2>1, <1>1, InOrderSeq
<1>3. Len(s) \in Nat /\ DOMAIN s = 1 .. Len(s) /\ \A k \in DOMAIN s : s[k] \in Vars
  BY <1>2
<1>4. PICK A : A = AddLocals(p, have, vs)
  OBVIOUS
<1>5. A = [k \in DOMAIN s |->
             Put("proc", p, [db["proc"][p] EXCEPT !.local = @ \cup {s[j] : j \in 1 .. k}])]
  BY <1>1, <1>4 DEF AddLocals
<1>6. DOMAIN A = DOMAIN s
  BY <1>5
<1>7. db["proc"][p] \in Process /\ p \in Ids /\ "proc" \in Types
  BY DbFacts DEF Types
<1>8. ASSUME NEW k \in DOMAIN A
      PROVE  /\ A[k] \in Write /\ A[k] = Put("proc", p, A[k].v) /\ A[k].t = "proc" /\ A[k].id = p
             /\ A[k].v \in Process /\ Grown(db["proc"][p], A[k].v)
  <2>1. PICK L : L = {s[j] : j \in 1 .. k}
    OBVIOUS
  <2>2. L \subseteq Vars
    BY <2>1, <1>3, <1>6
  <2>3. PICK v : v = [db["proc"][p] EXCEPT !.local = @ \cup L]
    OBVIOUS
  <2>4. v \in Process /\ Grown(db["proc"][p], v)
    BY <2>2, <2>3, <1>7 DEF Process, Grown
  <2>5. A[k] = Put("proc", p, v)
    BY <2>1, <2>3, <1>5, <1>6
  <2>6. A[k].t = "proc" /\ A[k].id = p /\ A[k].v = v
    BY <2>5, PutFacts
  <2>7. v \in Value
    BY <2>4 DEF Value
  <2> QED
    BY <2>4, <2>5, <2>6, <2>7, <1>7 DEF Put, Write
<1>9. A \in [1 .. Len(s) -> Write]
  BY <1>3, <1>5, <1>6, <1>8
<1>10. A \in Seq(Write)
  BY <1>3, <1>9, MapFacts
<1> QED
  BY <1>4, <1>8, <1>10

\* New variables are items.
LEMMA AddList ==
  ASSUME DbOK(db), NEW r, NEW p \in DOMAIN db["proc"], Place(db, r, p), NEW have,
         NEW vs \in SUBSET Vars, IsFiniteSet(vs)
  PROVE  List(db, r, AddLocals(p, have, vs)) /\ \A t : ~Makes(db, AddLocals(p, have, vs), t)
<1>1. PICK A : A = AddLocals(p, have, vs)
  OBVIOUS
<1>2. /\ A \in Seq(Write)
      /\ \A k \in DOMAIN A : /\ A[k] = Put("proc", p, A[k].v) /\ A[k].t = "proc" /\ A[k].id = p
                             /\ A[k].v \in Process /\ Grown(db["proc"][p], A[k].v)
  BY <1>1, AddFacts
<1>3. Len(A) \in Nat /\ DOMAIN A = 1 .. Len(A)
  BY <1>2
<1>4. /\ db["proc"][p] \in Process /\ Above(db, db["proc"][p].parent) /\ p \in Ids
      /\ "proc" \in Types
  BY DbFacts DEF Types
<1>5. ASSUME NEW k \in 1 .. Len(A)
      PROVE  A[k] \in Items(db, r) /\ A[k].id \in DOMAIN db[A[k].t]
  <2>1. PICK v : v = A[k].v
    OBVIOUS
  <2>2. /\ A[k] = Put("proc", p, v) /\ A[k].t = "proc" /\ A[k].id = p
        /\ v \in Process /\ Grown(db["proc"][p], v)
    BY <2>1, <1>2, <1>3
  <2>3. Good(db, "proc", p, v)
    BY <2>2, <1>4 DEF Good, Member, Linked, Same, Grown
  <2>4. ProcItem(db, r, A[k])
    BY <2>1, <2>2 DEF ProcItem
  <2> QED
    BY <2>2, <2>3, <2>4, <1>4, ItemOf
<1>6. A \in [1 .. Len(A) -> Items(db, r)]
  BY <1>2, <1>3, <1>5
<1> QED
  BY <1>1, <1>3, <1>5, <1>6, OldList

\* The number of a new individual.
LEMMA NewNumber ==
  ASSUME DbOK(db), NEW t \in Types
  PROVE  /\ New(t) \in Ids /\ New(t) = Len(db[t]) + 1 /\ New(t) \notin DOMAIN db[t]
         /\ \A v : Fresh(db, Put(t, New(t), v)) /\ <<New(t)>> \in Seq(Ids)
<1>1. New(t) = Len(db[t]) + 1 /\ Len(db[t]) \in Nat /\ DOMAIN db[t] = 1 .. Len(db[t])
  BY DbFacts DEF New
<1>2. New(t) \in Ids /\ New(t) \notin DOMAIN db[t] /\ New(t) > Len(db[t])
  BY <1>1 DEF Ids
<1>3. \A v : Fresh(db, Put(t, New(t), v))
  BY <1>2, PutFacts DEF Fresh
<1> QED
  BY <1>1, <1>2, <1>3

\* prepare_start_form() writes items.
LEMMA FormList ==
  ASSUME DbOK(db), setting \in Settings, NEW r, IsRecord(db, r), r.t = "form"
  PROVE  List(db, r, prepare_start_form(r.v))
<1>1. CASE prepare_start_form(r.v) = <<>>
  BY <1>1, ListShort
<1>2. CASE prepare_start_form(r.v) # <<>>
  <2>1. PICK v : v = NewProcess(setting.net, 0)
    OBVIOUS
  <2>2. PICK u : u = [status |-> "IsSent", procs |-> <<New("proc")>>]
    OBVIOUS
  <2>3. PICK x : x = Put("proc", New("proc"), v)
    OBVIOUS
  <2>4. PICK y : y = Put("form", 1, u)
    OBVIOUS
  <2>5. prepare_start_form(r.v) = <<x, y>>
    BY <1>2, <2>1, <2>2, <2>3, <2>4 DEF prepare_start_form
  <2>6. "proc" \in Types /\ "form" \in Types
    BY DEF Types
  <2>7. /\ New("proc") \in Ids /\ New("proc") \notin DOMAIN db["proc"] /\ Fresh(db, x)
        /\ New("proc") = Len(db["proc"]) + 1 /\ <<New("proc")>> \in Seq(Ids)
    BY <2>3, <2>6, NewNumber
  <2>8. setting.net \in DOMAIN Inputs
    BY DocflowAssumption
  <2>9. v \in Process
    BY <2>1, <2>8, NewFacts DEF Ref
  <2>10. v.parent = 0 /\ v.completed = "absent" /\ v.stopped = FALSE /\ v.wil = <<>>
    BY <2>1 DEF NewProcess
  <2>11. x.v = v /\ x.t = "proc" /\ x.id = New("proc") /\ y.t = "form" /\ y.id = 1
    BY <2>3, <2>4, PutFacts
  <2>12. x \in Items(db, r)
    <3>1. Good(db, "proc", New("proc"), v)
      BY <2>7, <2>9, <2>10 DEF Good, Member, Linked, Above
    <3>2. ProcItem(db, r, x)
      BY <2>7, <2>10, <2>11 DEF ProcItem
    <3> QED
      BY <3>1, <3>2, <2>3, <2>6, <2>7, ItemOf
  <2>13. y \in Items(db, r)
    <3>1. u \in Form
      BY <2>2, <2>7 DEF Form
    <3>2. Good(db, "form", 1, u)
      BY <3>1 DEF Good, Member, Linked, Same
    <3>3. 1 \in Ids
      BY DEF Ids
    <3> QED
      BY <3>2, <3>3, <2>4, <2>6, ItemOf
  <2> QED
    BY <2>5, <2>7, <2>11, <2>12, <2>13, ListPair, DbFacts
<1> QED
  BY <1>1, <1>2

\* prepare_process() writes items.
LEMMA ProcessList ==
  ASSUME DbOK(db), NEW r, IsRecord(db, r), r.t = "proc", ~r.v.stopped
  PROVE  List(db, r, prepare_process(r.id, r.v))
<1>1. CASE r.v.completed # "absent"
  BY <1>1, ListShort DEF prepare_process
<1>2. CASE r.v.completed = "absent"
  <2>1. PICK v : v = NewWorkItem(r.id, Inputs[r.v.net], 0)
    OBVIOUS
  <2>2. PICK u : u = [r.v EXCEPT !.wil = <<New("wi")>>, !.completed = "false",
                                 !.local = @ \cup Net[Inputs[r.v.net]].starts]
    OBVIOUS
  <2>3. PICK x : x = Put("wi", New("wi"), v)
    OBVIOUS
  <2>4. PICK y : y = Put("proc", r.id, u)
    OBVIOUS
  <2> DEFINE A == AddLocals(r.id, r.v.local, Net[Inputs[r.v.net]].starts)
  <2>5. prepare_process(r.id, r.v) = A \o <<x, y>>
    BY <1>2, <2>1, <2>2, <2>3, <2>4 DEF prepare_process
  <2> HIDE DEF A
  <2>6. "proc" \in Types /\ "wi" \in Types
    BY DEF Types
  <2>7. /\ New("wi") \in Ids /\ New("wi") \notin DOMAIN db["wi"] /\ Fresh(db, x)
        /\ New("wi") = Len(db["wi"]) + 1 /\ <<New("wi")>> \in Seq(Ids)
    BY <2>3, <2>6, NewNumber
  <2>8. /\ r.v \in Process /\ r.id \in DOMAIN db["proc"] /\ r.id \in Ids
        /\ Same("proc", r.v, db["proc"][r.id])
        /\ Above(db, r.v.parent)
    BY RecordFacts
  <2>9. r.v.net \in DOMAIN Inputs
    BY <2>8 DEF Process
  <2>10. /\ Inputs[r.v.net] \in DOMAIN Net
         /\ Net[Inputs[r.v.net]].starts \in SUBSET Vars /\ IsFiniteSet(Net[Inputs[r.v.net]].starts)
    BY <2>9, DocflowAssumption
  <2>11. v \in WorkItem
    BY <2>1, <2>8, <2>10, NewFacts DEF Ref
  <2>12. v.proc = r.id /\ v.done = FALSE
    BY <2>1 DEF NewWorkItem
  <2>13. /\ u \in Process /\ u.net = r.v.net /\ u.parent = r.v.parent
         /\ u.stopped = r.v.stopped /\ u.completed = "false"
    BY <2>2, <2>7, <2>8, <2>10 DEF Process
  <2>14. /\ x.v = v /\ x.t = "wi" /\ x.id = New("wi")
         /\ y.t = "proc" /\ y.id = r.id /\ y.v = u
    BY <2>3, <2>4, PutFacts
  <2>15. x \in Items(db, r)
    <3>1. Good(db, "wi", New("wi"), v)
      BY <2>7, <2>8, <2>11, <2>12 DEF Good, Member, Linked
    <3>2. WiItem(db, r, x)
      BY <2>7, <2>12, <2>14 DEF WiItem
    <3> QED
      BY <3>1, <3>2, <2>3, <2>6, <2>7, ItemOf
  <2>16. y \in Items(db, r)
    <3>1. Good(db, "proc", r.id, u)
      BY <2>8, <2>13 DEF Good, Member, Linked, Same
    <3>2. ProcItem(db, r, y)
      BY <1>2, <2>13, <2>14 DEF ProcItem
    <3> QED
      BY <3>1, <3>2, <2>4, <2>6, <2>8, ItemOf
  <2>17. List(db, r, <<x, y>>)
    BY <2>7, <2>8, <2>14, <2>15, <2>16, ListPair
  <2>18. List(db, r, A) /\ \A t : ~Makes(db, A, t)
    <3>1. Place(db, r, r.id)
      BY <1>2 DEF Place
    <3> QED
      BY <3>1, <2>8, <2>10, AddList DEF A
  <2> QED
    BY <2>5, <2>17, <2>18, ApartIf, ListConcat
<1> QED
  BY <1>1, <1>2

\* The numbers of new individuals.
LEMMA NewsFacts ==
  ASSUME DbOK(db), NEW t \in Types, NEW X, NEW s \in Seq(X)
  PROVE  /\ News(t, s) \in Seq(Ids) /\ DOMAIN News(t, s) = DOMAIN s
         /\ DOMAIN s = 1 .. Len(s) /\ Len(s) \in Nat
         /\ \A k \in DOMAIN s : News(t, s)[k] = Len(db[t]) + k /\ News(t, s)[k] \in Ids
<1>1. Len(db[t]) \in Nat /\ DOMAIN s = 1 .. Len(s) /\ Len(s) \in Nat
  BY DbFacts
<1>2. PICK n : n = News(t, s)
  OBVIOUS
<1>3. DOMAIN n = DOMAIN s /\ \A k \in DOMAIN s : n[k] = Len(db[t]) + 1 + k - 1
  BY <1>2 DEF News, New
<1>4. \A k \in DOMAIN s : n[k] = Len(db[t]) + k /\ n[k] \in Ids
  BY <1>1, <1>3 DEF Ids
<1>5. n \in [1 .. Len(s) -> Ids]
  BY <1>1, <1>2, <1>3, <1>4 DEF News
<1> QED
  BY <1>1, <1>2, <1>3, <1>4, <1>5, MapFacts

\* A row of new individuals of one type is a list.
LEMMA RowList ==
  ASSUME DbOK(db), NEW r, NEW t \in Types, NEW T, NEW n \in Nat, T \in [1 .. n -> Items(db, r)],
         \A k \in 1 .. n : T[k].t = t /\ T[k].id = Len(db[t]) + k
  PROVE  List(db, r, T) /\ \A u : Makes(db, T, u) => u = t
<1>1. T \in Seq(Items(db, r)) /\ DOMAIN T = 1 .. n
  BY MapFacts
<1>2. T \in Seq(Write)
  <2>1. Items(db, r) \subseteq Write
    BY DEF Items
  <2>2. T \in [1 .. n -> Write]
    BY <2>1
  <2> QED
    BY <2>2, MapFacts
<1>3. InLine(db, T)
  BY <1>1, <1>2, RowInLine
<1> QED
  BY <1>1, <1>3 DEF List, Makes

\* create_work_item() for each of es writes items.
LEMMA WorkItemsList ==
  ASSUME DbOK(db), NEW r, NEW es \in Seq(DOMAIN Net), NEW p \in DOMAIN db["proc"], NEW w \in Ids,
         \/ r.t = "wi" /\ p = r.v.proc
         \/ r.t = "wo" /\ p = db["wi"][r.v.wi].proc
  PROVE  /\ List(db, r, create_work_items(p, es, w))
         /\ \A u : Makes(db, create_work_items(p, es, w), u) => u = "wi"
         /\ \A k \in DOMAIN create_work_items(p, es, w) : create_work_items(p, es, w)[k].t = "wi"
         /\ News("wi", es) \in Seq(Ids)
<1>1. "wi" \in Types /\ p \in Ids
  BY DbFacts DEF Types
<1>2. PICK T : T = create_work_items(p, es, w)
  OBVIOUS
<1>3. PICK n : n = News("wi", es)
  OBVIOUS
<1>4. /\ n \in Seq(Ids) /\ DOMAIN es = 1 .. Len(es) /\ Len(es) \in Nat
      /\ \A k \in DOMAIN es : n[k] = Len(db["wi"]) + k /\ n[k] \in Ids
  BY <1>1, <1>3, NewsFacts
<1>5. /\ DOMAIN T = DOMAIN es /\ T = [k \in DOMAIN es |-> T[k]]
      /\ \A k \in DOMAIN es : T[k] = Put("wi", n[k], NewWorkItem(p, es[k], w))
  BY <1>2, <1>3 DEF create_work_items
<1>6. ASSUME NEW k \in DOMAIN es
      PROVE  T[k] \in Items(db, r) /\ T[k].t = "wi" /\ T[k].id = Len(db["wi"]) + k
  <2>1. PICK v : v = NewWorkItem(p, es[k], w)
    OBVIOUS
  <2>2. v \in WorkItem
    BY <2>1, <1>1, NewFacts DEF Ref
  <2>3. v.proc = p /\ v.done = FALSE
    BY <2>1 DEF NewWorkItem
  <2>4. T[k].t = "wi" /\ T[k].id = n[k] /\ T[k].v = v /\ T[k] = Put("wi", n[k], v)
    BY <1>5, <2>1, PutFacts
  <2>5. n[k] \notin DOMAIN db["wi"] /\ Fresh(db, T[k])
    <3>1. DOMAIN db["wi"] = 1 .. Len(db["wi"]) /\ Len(db["wi"]) \in Nat
      BY <1>1, DbFacts
    <3> QED
      BY <3>1, <2>4, <1>4 DEF Fresh
  <2>6. Good(db, "wi", n[k], v)
    BY <2>2, <2>3, <2>5 DEF Good, Member, Linked
  <2>7. WiItem(db, r, T[k])
    BY <2>3, <2>4, <2>5 DEF WiItem
  <2>8. Put("wi", n[k], v) \in Items(db, r)
    BY <2>4, <2>6, <2>7, <1>1, <1>4, ItemOf
  <2> QED
    BY <2>4, <2>8, <1>4
<1>7. T \in [1 .. Len(es) -> Items(db, r)]
  BY <1>4, <1>5, <1>6
<1>8. \A k \in 1 .. Len(es) : T[k].t = "wi" /\ T[k].id = Len(db["wi"]) + k
  BY <1>4, <1>6
<1>9. List(db, r, T) /\ \A u : Makes(db, T, u) => u = "wi"
  BY <1>1, <1>4, <1>7, <1>8, RowList
<1> QED
  BY <1>2, <1>3, <1>4, <1>5, <1>6, <1>9

\* The writes of prepare_work_item() to the work item itself.
LEMMA OwnItem ==
  ASSUME DbOK(db), NEW r, IsRecord(db, r), r.t = "wi", NEW v \in WorkItem,
         v.proc = r.v.proc, v.elem = r.v.elem, v.done => Net[v.elem].kind # "task"
  PROVE  Put("wi", r.id, v) \in Items(db, r) /\ r.id \in DOMAIN db["wi"]
<1>1. /\ r.v.proc \in DOMAIN db["proc"] /\ Same("wi", r.v, db["wi"][r.id])
      /\ r.id \in DOMAIN db["wi"] /\ r.id \in Ids /\ "wi" \in Types
  BY RecordFacts DEF Types
<1>2. Good(db, "wi", r.id, v)
  BY <1>1 DEF Good, Member, Linked, Same
<1>3. WiItem(db, r, Put("wi", r.id, v))
  BY PutFacts DEF WiItem
<1> QED
  BY <1>1, <1>2, <1>3, ItemOf

\* A task writes items.
LEMMA TaskList ==
  ASSUME DbOK(db), NEW r, IsRecord(db, r), r.t = "wi", NEW d \in WorkItem, ~d.done,
         d.proc = r.v.proc, d.elem = r.v.elem, Net[d.elem].kind = "task"
  PROVE  List(db, r, StartTask(r.id, d))
<1>1. PICK xs : xs = IF Net[d.elem].executors = <<>> THEN <<"nobody">> ELSE Net[d.elem].executors
  OBVIOUS
<1>2. d.elem \in DOMAIN Net
  BY DEF WorkItem
<1>3. xs \in Seq(Executor)
  <2>1. PICK ys : ys = Net[d.elem].executors
    OBVIOUS
  <2>2. ys \in Seq(STRING)
    BY <1>2, <2>1, DocflowAssumption
  <2>3. Len(ys) \in Nat /\ ys \in [1 .. Len(ys) -> STRING]
    BY <2>2
  <2>4. \A k \in 1 .. Len(ys) : ys[k] \in Executor
    <3>1. \A k \in 1 .. Len(ys) : ys[k] \in ToSet(ys)
      BY <2>3 DEF ToSet
    <3>2. ToSet(ys) \subseteq Executor
      BY <1>2, <2>1 DEF Executor
    <3> QED
      BY <3>1, <3>2
  <2>5. ys \in [1 .. Len(ys) -> Executor]
    BY <2>3, <2>4
  <2>6. ys \in Seq(Executor)
    BY <2>3, <2>5, MapFacts
  <2>7. <<"nobody">> \in Seq(Executor)
    <3>1. "nobody" \in Executor
      BY DEF Executor
    <3>2. \A S : \A x \in S : <<x>> \in Seq(S)
      OBVIOUS
    <3> QED
      BY <3>1, <3>2
  <2> QED
    BY <1>1, <2>1, <2>6, <2>7
<1>4. PICK n : n = News("wo", xs)
  OBVIOUS
<1>5. "wo" \in Types /\ "wi" \in Types
  BY DEF Types
<1>6. /\ n \in Seq(Ids) /\ DOMAIN xs = 1 .. Len(xs) /\ Len(xs) \in Nat
      /\ \A k \in DOMAIN xs : n[k] = Len(db["wo"]) + k /\ n[k] \in Ids
  BY <1>3, <1>4, <1>5, NewsFacts
<1>7. PICK v : v = [d EXCEPT !.wol = n]
  OBVIOUS
<1>8. v \in WorkItem /\ v.proc = d.proc /\ v.elem = d.elem /\ v.done = d.done
  BY <1>6, <1>7 DEF WorkItem
<1>9. Put("wi", r.id, v) \in Items(db, r) /\ r.id \in DOMAIN db["wi"]
  BY <1>8, OwnItem
<1>10. PICK T : T = [k \in DOMAIN xs |-> Put("wo", n[k], NewWorkOrder(r.id, xs[k]))]
  OBVIOUS
<1>11. ASSUME NEW k \in DOMAIN xs
       PROVE  T[k] \in Items(db, r) /\ T[k].t = "wo" /\ T[k].id = Len(db["wo"]) + k
  <2>1. PICK u : u = NewWorkOrder(r.id, xs[k])
    OBVIOUS
  <2>2. r.id \in Ids /\ xs[k] \in Executor
    BY <1>3, RecordFacts
  <2>3. u \in WorkOrder
    BY <2>1, <2>2, NewFacts
  <2>4. u.wi = r.id /\ u.out = 0
    BY <2>1 DEF NewWorkOrder
  <2>5. T[k] = Put("wo", n[k], u)
    BY <1>10, <2>1
  <2>6. T[k].t = "wo" /\ T[k].id = n[k] /\ T[k].v = u
    BY <2>5, PutFacts
  <2>7. n[k] \notin DOMAIN db["wo"] /\ Fresh(db, T[k])
    <3>1. DOMAIN db["wo"] = 1 .. Len(db["wo"]) /\ Len(db["wo"]) \in Nat
      BY <1>5, DbFacts
    <3> QED
      BY <3>1, <2>6, <1>6 DEF Fresh
  <2>8. Good(db, "wo", n[k], u)
    BY <2>3, <2>4, <2>7, <1>9 DEF Good, Member, Linked
  <2>9. WoItem(db, r, T[k])
    BY <2>4, <2>6, <2>7 DEF WoItem
  <2> QED
    BY <2>5, <2>6, <2>8, <2>9, <1>5, <1>6, ItemOf
<1>12. T \in [1 .. Len(xs) -> Items(db, r)]
  BY <1>6, <1>10, <1>11
<1>13. List(db, r, T)
  <2>1. \A k \in 1 .. Len(xs) : T[k].t = "wo" /\ T[k].id = Len(db["wo"]) + k
    BY <1>6, <1>11
  <2> QED
    BY <2>1, <1>5, <1>6, <1>12, RowList
<1>14. PICK A : A = AddLocals(d.proc, db["proc"][d.proc].local, Net[d.elem].starts)
  OBVIOUS
<1>15. StartTask(r.id, d) = A \o <<Put("wi", r.id, v)>> \o T
  BY <1>1, <1>4, <1>7, <1>10, <1>14 DEF StartTask
<1>16. Put("wi", r.id, v).id \in DOMAIN db[Put("wi", r.id, v).t]
  BY <1>9, PutFacts
<1>17. List(db, r, A) /\ \A t : ~Makes(db, A, t)
  <2>1. Place(db, r, d.proc) /\ d.proc \in DOMAIN db["proc"]
    BY RecordFacts DEF Place
  <2>2. Net[d.elem].starts \in SUBSET Vars /\ IsFiniteSet(Net[d.elem].starts)
    BY <1>2, DocflowAssumption
  <2> QED
    BY <2>1, <2>2, <1>14, AddList
<1>18. List(db, r, A \o <<Put("wi", r.id, v)>>)
  BY <1>9, <1>16, <1>17, ListAdd
<1>19. \A t : ~Makes(db, A \o <<Put("wi", r.id, v)>>, t)
  <2>1. A \in Seq(Write) /\ Put("wi", r.id, v) \in Write
    BY <1>9, <1>17, ListWrites DEF Items
  <2>2. PICK S : S = <<Put("wi", r.id, v)>>
    OBVIOUS
  <2>3. S \in Seq(Write) /\ \A t : ~Makes(db, S, t)
    BY <2>1, <2>2, <1>16, MakesFacts
  <2>4. \A t : ~Makes(db, A \o S, t)
    BY <2>1, <2>3, <1>17, MakesFacts
  <2> QED
    BY <2>2, <2>4
<1> QED
  BY <1>13, <1>15, <1>18, <1>19, ApartIf, ListConcat

\* A condition writes items.
LEMMA ConditionList ==
  ASSUME DbOK(db), NEW r, IsRecord(db, r), r.t = "wi", NEW d \in WorkItem, ~d.done,
         d.proc = r.v.proc, d.elem = r.v.elem, Net[d.elem].kind # "task"
  PROVE  List(db, r, PassCondition(r.id, d))
<1>1. PICK es : es = [k \in DOMAIN Net[d.elem].flows |-> Net[d.elem].flows[k].into]
  OBVIOUS
<1>2. d.elem \in DOMAIN Net /\ d.proc \in DOMAIN db["proc"] /\ r.id \in Ids
  BY RecordFacts DEF WorkItem
<1>3. es \in Seq(DOMAIN Net)
  <2>1. Net[d.elem].flows \in Seq(Flow)
    BY <1>2, DocflowAssumption
  <2>2. PICK fl : fl = Net[d.elem].flows
    OBVIOUS
  <2>3. fl \in Seq(Flow) /\ DOMAIN fl = 1 .. Len(fl) /\ Len(fl) \in Nat
    BY <2>1, <2>2
  <2>4. \A k \in DOMAIN fl : fl[k].into \in DOMAIN Net
    <3>1. \A x \in Flow : x.into \in DOMAIN Net
      BY DEF Flow
    <3>2. \A k \in DOMAIN fl : fl[k] \in Flow
      BY <2>3
    <3> QED
      BY <3>1, <3>2
  <2>5. es \in [1 .. Len(fl) -> DOMAIN Net]
    BY <1>1, <2>2, <2>3, <2>4
  <2> QED
    BY <2>3, <2>5, MapFacts
<1>4. CASE es = <<>>
  BY <1>1, <1>4, ListShort DEF PassCondition
<1>5. CASE es # <<>>
  <2>1. PICK T : T = create_work_items(d.proc, es, r.id)
    OBVIOUS
  <2>2. List(db, r, T) /\ News("wi", es) \in Seq(Ids)
    BY <2>1, <1>2, <1>3, WorkItemsList
  <2>3. PICK v : v = [d EXCEPT !.wil = News("wi", es), !.done = TRUE, !.exec = FALSE]
    OBVIOUS
  <2>4. v \in WorkItem /\ v.proc = d.proc /\ v.elem = d.elem
    BY <2>2, <2>3 DEF WorkItem
  <2>5. Put("wi", r.id, v) \in Items(db, r) /\ r.id \in DOMAIN db["wi"]
    BY <2>4, OwnItem
  <2>6. PassCondition(r.id, d) = Append(T, Put("wi", r.id, v))
    BY <1>1, <1>5, <2>1, <2>3 DEF PassCondition
  <2>7. Put("wi", r.id, v).id \in DOMAIN db[Put("wi", r.id, v).t]
    BY <2>5, PutFacts
  <2> QED
    BY <2>2, <2>5, <2>6, <2>7, ListAdd
<1> QED
  BY <1>4, <1>5

\* change_process_status() writes an item or nothing.
LEMMA StatusList ==
  ASSUME DbOK(db), NEW r, NEW p, NEW status \in {"Completed", "Interrupted"}
  PROVE  /\ List(db, r, change_process_status(p, status))
         /\ \A u : ~Makes(db, change_process_status(p, status), u)
<1>1. PICK u : u = [status |-> status, procs |-> <<>>]
  OBVIOUS
<1>2. u \in Form
  <2>1. <<>> \in Seq(Ids)
    OBVIOUS
  <2> QED
    BY <1>1, <2>1 DEF Form
<1>3. PICK x : x = Put("form", 1, u)
  OBVIOUS
<1>4. 1 \in Ids /\ "form" \in Types /\ DOMAIN db["form"] = {1}
  BY DbFacts DEF Ids, Types
<1>5. Good(db, "form", 1, u)
  BY <1>2 DEF Good, Member, Linked, Same
<1>6. x \in Items(db, r)
  BY <1>3, <1>4, <1>5, ItemOf
<1>7. x.id \in DOMAIN db[x.t] /\ x \in Write
  BY <1>3, <1>4, <1>6, PutFacts DEF Items
<1>8. List(db, r, <<x>>) /\ \A t : ~Makes(db, <<x>>, t)
  BY <1>6, <1>7, ListShort, MakesFacts
<1>9. List(db, r, <<>>) /\ \A t : ~Makes(db, <<>>, t)
  BY ListShort, MakesFacts
<1>10. change_process_status(p, status) = <<x>> \/ change_process_status(p, status) = <<>>
  BY <1>1, <1>3 DEF change_process_status
<1> QED
  BY <1>8, <1>9, <1>10

\* The output condition writes items.
LEMMA OutputList ==
  ASSUME DbOK(db), NEW r, IsRecord(db, r), r.t = "wi", NEW d \in WorkItem, ~d.done,
         d.proc = r.v.proc, d.elem = r.v.elem, Net[d.elem].kind # "task"
  PROVE  List(db, r, ReachOutput(r.id, d))
<1>1. d.proc \in DOMAIN db["proc"] /\ r.v.proc \in DOMAIN db["proc"]
  BY RecordFacts
<1>2. PICK p : p = db["proc"][d.proc]
  OBVIOUS
<1>3. /\ p \in Process
      /\ Above(db, p.parent)
      /\ d.proc \in Ids /\ "proc" \in Types /\ "wo" \in Types
  BY <1>1, <1>2, DbFacts DEF Types
<1>4. PICK B : B = change_process_status(d.proc, "Completed")
  OBVIOUS
<1>5. List(db, r, B) /\ \A t : ~Makes(db, B, t)
  BY <1>4, StatusList
<1>6. ASSUME NEW vs \in SUBSET Vars
      PROVE  List(db, r, CompleteProcess(r.id, d, vs)) /\ \A t : ~Makes(db, CompleteProcess(r.id, d, vs), t)
  <2>1. PICK v : v = [p EXCEPT !.completed = "true", !.local = @ \cup vs]
    OBVIOUS
  <2>2. PICK u : u = [d EXCEPT !.done = TRUE]
    OBVIOUS
  <2>3. PICK x : x = Put("proc", d.proc, v)
    OBVIOUS
  <2>4. PICK y : y = Put("wi", r.id, u)
    OBVIOUS
  <2>5. CompleteProcess(r.id, d, vs) = IF B # <<>> THEN B ELSE <<x, y>>
    BY <2>1, <2>2, <2>3, <2>4, <1>2, <1>4 DEF CompleteProcess
  <2>6. x \in Items(db, r)
    <3>1. /\ v \in Process /\ v.net = p.net /\ v.parent = p.parent /\ v.completed = "true"
          /\ v.stopped = db["proc"][d.proc].stopped /\ v.wil = db["proc"][d.proc].wil
      BY <2>1, <1>2, <1>3 DEF Process
    <3>2. Good(db, "proc", d.proc, v)
      BY <3>1, <1>2, <1>3 DEF Good, Member, Linked, Same
    <3>3. ProcItem(db, r, Put("proc", d.proc, v))
      BY <3>1, PutFacts DEF ProcItem
    <3> QED
      BY <3>2, <3>3, <2>3, <1>3, ItemOf
  <2>7. y \in Items(db, r) /\ r.id \in DOMAIN db["wi"]
    <3>1. u \in WorkItem /\ u.proc = d.proc /\ u.elem = d.elem
      BY <2>2 DEF WorkItem
    <3> QED
      BY <3>1, <2>4, OwnItem
  <2>8. x \in Write /\ y \in Write /\ x.id \in DOMAIN db[x.t] /\ y.id \in DOMAIN db[y.t]
    BY <2>3, <2>4, <2>6, <2>7, <1>1, PutFacts DEF Items
  <2>9. List(db, r, <<x, y>>)
    BY <2>6, <2>7, <2>8, ListPair
  <2>10. \A k \in DOMAIN (<<x, y>>) : ~Fresh(db, <<x, y>>[k])
    <3>1. DOMAIN (<<x, y>>) = {1, 2} /\ <<x, y>>[1] = x /\ <<x, y>>[2] = y
      OBVIOUS
    <3> QED
      BY <3>1, <2>8, MakesFacts
  <2>11. \A t : ~Makes(db, <<x, y>>, t)
    BY <2>10 DEF Makes
  <2> QED
    BY <2>5, <2>9, <2>11, <1>5
<1>7. CASE p.parent = 0
  <2>1. ReachOutput(r.id, d) = CompleteProcess(r.id, d, {})
    BY <1>2, <1>7 DEF ReachOutput
  <2> QED
    BY <2>1, <1>6
<1>8. CASE p.parent # 0
  <2>1. PICK z : z = [db["wo"][p.parent] EXCEPT !.out = 1]
    OBVIOUS
  <2>2. p.parent \in DOMAIN db["wo"] /\ p.parent \in Ids
    BY <1>8, <1>3, DbFacts DEF Above
  <2>3. db["wo"][p.parent] \in WorkOrder /\ db["wo"][p.parent].wi \in DOMAIN db["wi"]
    BY <2>2, DbFacts
  <2>4. /\ z \in WorkOrder /\ z.wi = db["wo"][p.parent].wi /\ z.out = 1
        /\ z.executor = db["wo"][p.parent].executor
    BY <2>1, <2>3 DEF WorkOrder, Results
  <2>5. PICK x : x = Put("wo", p.parent, z)
    OBVIOUS
  <2>6. x.t = "wo" /\ x.id = p.parent /\ x.v = z
    BY <2>5, PutFacts
  <2>7. Good(db, "wo", p.parent, z)
    BY <2>3, <2>4 DEF Good, Member, Linked, Same
  <2>8. WoItem(db, r, x)
    BY <2>2, <2>4, <2>6, <1>2 DEF WoItem
  <2>9. x \in Items(db, r) /\ x.id \in DOMAIN db[x.t]
    BY <2>2, <2>5, <2>6, <2>7, <2>8, <1>3, ItemOf
  <2>10. PICK A : A = AddLocals(d.proc, p.local, Net[d.elem].ends)
    OBVIOUS
  <2>11. PICK C : C = CompleteProcess(r.id, d, Net[d.elem].ends)
    OBVIOUS
  <2>12. ReachOutput(r.id, d) = A \o <<x>> \o C
    BY <1>2, <1>8, <2>1, <2>5, <2>10, <2>11 DEF ReachOutput
  <2>13. Net[d.elem].ends \in SUBSET Vars /\ IsFiniteSet(Net[d.elem].ends)
    BY DocflowAssumption DEF WorkItem
  <2>14. List(db, r, A)
    <3>1. Place(db, r, d.proc)
      BY DEF Place
    <3> QED
      BY <3>1, <2>10, <2>13, <1>1, AddList
  <2>15. List(db, r, A \o <<x>>)
    BY <2>9, <2>14, ListAdd
  <2>16. List(db, r, C) /\ \A t : ~Makes(db, C, t)
    BY <2>11, <2>13, <1>6
  <2> QED
    BY <2>12, <2>15, <2>16, ApartIf, ListConcat
<1> QED
  BY <1>7, <1>8

\* prepare_work_item() writes items.
LEMMA WorkItemList ==
  ASSUME DbOK(db), NEW r, IsRecord(db, r), r.t = "wi"
  PROVE  List(db, r, prepare_work_item(r.id, r.v))
<1>1. PICK x : x = [r.v EXCEPT !.exec = TRUE]
  OBVIOUS
<1>2. r.v \in WorkItem
  BY RecordFacts
<1>3. /\ x \in WorkItem /\ x.proc = r.v.proc /\ x.elem = r.v.elem /\ x.done = r.v.done
      /\ r.v.done \in BOOLEAN /\ r.v.elem \in DOMAIN Net
  BY <1>1, <1>2 DEF WorkItem
<1>4. CASE r.v.done \/ (Net[r.v.elem].join /\ ~Joined(r.v.proc, r.v.elem))
  BY <1>4, ListShort DEF prepare_work_item
<1>5. CASE ~(r.v.done \/ (Net[r.v.elem].join /\ ~Joined(r.v.proc, r.v.elem)))
  <2>1. PICK y : y = Put("wi", r.id, x)
    OBVIOUS
  <2>2. y \in Items(db, r) /\ y.id \in DOMAIN db[y.t]
    <3>1. Put("wi", r.id, x) \in Items(db, r) /\ r.id \in DOMAIN db["wi"]
      BY <1>3, <1>5, OwnItem
    <3> QED
      BY <3>1, <2>1, PutFacts
  <2>3. Net[r.v.elem].kind \in {"input", "condition", "task", "output"}
    BY <1>3, DocflowAssumption DEF Kinds
  <2>4. PICK T : T = CASE Net[r.v.elem].kind = "task" -> StartTask(r.id, x)
                       [] Net[r.v.elem].kind \in {"input", "condition"} -> PassCondition(r.id, x)
                       [] Net[r.v.elem].kind = "output" -> ReachOutput(r.id, x)
    OBVIOUS
  <2>5. prepare_work_item(r.id, r.v) = <<y>> \o T
    BY <1>1, <1>5, <2>1, <2>4 DEF prepare_work_item
  <2>6. List(db, r, T)
    <3>1. CASE Net[r.v.elem].kind = "task"
      <4>1. T = StartTask(r.id, x)
        BY <3>1, <2>4
      <4> QED
        BY <4>1, <3>1, <1>3, <1>5, TaskList
    <3>2. CASE Net[r.v.elem].kind \in {"input", "condition"}
      <4>1. T = PassCondition(r.id, x)
        BY <3>2, <2>4
      <4> QED
        BY <4>1, <3>2, <1>3, <1>5, ConditionList
    <3>3. CASE Net[r.v.elem].kind = "output"
      <4>1. T = ReachOutput(r.id, x)
        BY <3>3, <2>4
      <4> QED
        BY <4>1, <3>3, <1>3, <1>5, OutputList
    <3> QED
      BY <3>1, <3>2, <3>3, <2>3
  <2> QED
    BY <2>2, <2>5, <2>6, ListAdd
<1> QED
  BY <1>4, <1>5

\* The variables of a task are items.
LEMMA MappingList ==
  ASSUME DbOK(db), NEW r, IsRecord(db, r), r.t = "wo"
  PROVE  /\ List(db, r, CompletedMapping(r.v.wi)) /\ \A t : ~Makes(db, CompletedMapping(r.v.wi), t)
         /\ \A k \in DOMAIN CompletedMapping(r.v.wi) : CompletedMapping(r.v.wi)[k].t = "proc"
<1>1. PICK w : w = db["wi"][r.v.wi]
  OBVIOUS
<1>2. w \in WorkItem /\ w.proc \in DOMAIN db["proc"]
  BY <1>1, RecordFacts, DbFacts
<1>3. Net[w.elem].ends \in SUBSET Vars /\ IsFiniteSet(Net[w.elem].ends)
  BY <1>2, DocflowAssumption DEF WorkItem
<1>4. Place(db, r, w.proc)
  BY <1>1 DEF Place
<1>5. CompletedMapping(r.v.wi) = AddLocals(w.proc, db["proc"][w.proc].local, Net[w.elem].ends)
  BY <1>1 DEF CompletedMapping
<1> QED
  BY <1>2, <1>3, <1>4, <1>5, AddList, AddFacts

\* Execute() writes items; the one for the work order in hand comes last.
LEMMA ExecuteList ==
  ASSUME DbOK(db), NEW r, IsRecord(db, r), r.t = "wo"
  PROVE  /\ List(db, r, Execute(r.id, r.v))
         /\ \A t : Makes(db, Execute(r.id, r.v), t) => t # "wi"
         /\ \A k \in DOMAIN Execute(r.id, r.v) :
              /\ Execute(r.id, r.v)[k].t # "wi"
              /\ Execute(r.id, r.v)[k].t = "wo" => k = Len(Execute(r.id, r.v))
              /\ Execute(r.id, r.v)[k].t = "df" => k = 1
         /\ r.v.out = 0 /\ Codelet(r.v.executor) =>
              \E j \in DOMAIN Execute(r.id, r.v) :
                /\ Execute(r.id, r.v)[j].t = "wo" /\ Execute(r.id, r.v)[j].id = r.id
                /\ Execute(r.id, r.v)[j].v.out = 1
<1> DEFINE T == Execute(r.id, r.v)
<1>1. /\ r.v \in WorkOrder /\ r.v.wi \in DOMAIN db["wi"] /\ r.id \in DOMAIN db["wo"]
      /\ Same("wo", r.v, db["wo"][r.id]) /\ r.id \in Ids
      /\ "wo" \in Types /\ "df" \in Types /\ "proc" \in Types
  BY RecordFacts DEF Types
<1>2. /\ db["wo"][r.id] \in WorkOrder /\ db["wo"][r.id].wi = r.v.wi
      /\ db["wo"][r.id].executor = r.v.executor
  BY <1>1, DbFacts DEF Same
<1>3. CASE r.v.out # 0
  <2>1. T = <<>>
    BY <1>3 DEF Execute
  <2> QED
    BY <2>1, <1>3, ListShort, MakesFacts
<1>4. ASSUME NEW v \in WorkOrder, v.wi = r.v.wi, v.executor = r.v.executor,
             WoItem(db, r, Put("wo", r.id, v))
      PROVE  Put("wo", r.id, v) \in Items(db, r)
  <2>1. Good(db, "wo", r.id, v)
    BY <1>1, <1>2, <1>4 DEF Good, Member, Linked, Same
  <2> QED
    BY <2>1, <1>1, <1>4, ItemOf
<1>5. ASSUME NEW x \in Items(db, r), NEW y \in Items(db, r), T = <<x, y>>,
             x.t \in {"df", "proc"}, x.id = Len(db[x.t]) + 1, y.t = "wo", y.id = r.id,
             ~Codelet(r.v.executor)
      PROVE  /\ List(db, r, T)
             /\ \A t : Makes(db, T, t) => t # "wi"
             /\ \A k \in DOMAIN T : T[k].t # "wi" /\ (T[k].t = "wo" => k = Len(T)) /\ (T[k].t = "df" => k = 1)
             /\ r.v.out = 0 /\ Codelet(r.v.executor) =>
                  \E j \in DOMAIN T : T[j].t = "wo" /\ T[j].id = r.id /\ T[j].v.out = 1
  <2>1. List(db, r, T)
    BY <1>1, <1>5, ListPair
  <2>2. DOMAIN T = {1, 2} /\ T[1] = x /\ T[2] = y /\ Len(T) = 2
    BY <1>5
  <2> HIDE DEF T
  <2>3. \A k \in DOMAIN T : T[k].t # "wi" /\ (T[k].t = "wo" => k = Len(T)) /\ (T[k].t = "df" => k = 1)
    BY <2>2, <1>5
  <2> QED
    BY <2>1, <2>3, <1>5 DEF Makes
<1>6. CASE r.v.out = 0 /\ r.v.executor \in Users
  <2>1. PICK v : v = NewDecisionForm(r.id)
    OBVIOUS
  <2>2. PICK u : u = [db["wo"][r.id] EXCEPT !.dfl = Append(@, New("df"))]
    OBVIOUS
  <2>3. PICK x : x = Put("df", New("df"), v)
    OBVIOUS
  <2>4. PICK y : y = Put("wo", r.id, u)
    OBVIOUS
  <2>5. T = <<x, y>>
    BY <1>6, <2>1, <2>2, <2>3, <2>4 DEF Execute
  <2>6. /\ New("df") \in Ids /\ New("df") \notin DOMAIN db["df"] /\ Fresh(db, x)
        /\ New("df") = Len(db["df"]) + 1
    BY <1>1, <2>3, NewNumber
  <2>7. v \in DecisionForm
    BY <1>1, <2>1, NewFacts
  <2>8. v.wo = r.id /\ v.taken = 0 /\ v.done = FALSE /\ v.deleted = FALSE
    BY <2>1 DEF NewDecisionForm
  <2>9. x.t = "df" /\ x.id = New("df") /\ x.v = v /\ y.t = "wo" /\ y.id = r.id /\ y.v = u
    BY <2>3, <2>4, PutFacts
  <2>10. x \in Items(db, r)
    <3>1. Good(db, "df", New("df"), v)
      BY <1>1, <1>2, <1>6, <2>6, <2>7, <2>8 DEF Good, Member, Linked
    <3>2. DfItem(db, r, x)
      BY <1>6, <2>6, <2>8, <2>9 DEF DfItem
    <3> QED
      BY <3>1, <3>2, <2>3, <2>6, <1>1, ItemOf
  <2>11. y \in Items(db, r)
    <3>1. db["wo"][r.id].dfl \in Seq(Ids)
      BY <1>2 DEF WorkOrder
    <3>2. Append(db["wo"][r.id].dfl, New("df")) \in Seq(Ids)
      BY <3>1, <2>6, AppendFacts
    <3>3. /\ u \in WorkOrder /\ u.wi = r.v.wi /\ u.executor = r.v.executor
          /\ u.out = db["wo"][r.id].out
      BY <3>2, <2>2, <1>2 DEF WorkOrder
    <3>4. WoItem(db, r, y)
      BY <3>3, <2>9, <1>6 DEF WoItem
    <3> QED
      BY <3>3, <3>4, <2>4, <1>4
  <2> HIDE DEF T
  <2>12. ~Codelet(r.v.executor)
    BY <1>6 DEF Codelet
  <2> QED
    BY <1>5, <2>5, <2>6, <2>9, <2>10, <2>11, <2>12 DEF T
<1>7. CASE r.v.out = 0 /\ r.v.executor \in Nets
  <2>1. PICK v : v = NewProcess(r.v.executor, r.id)
    OBVIOUS
  <2>2. PICK u : u = [r.v EXCEPT !.sub = New("proc")]
    OBVIOUS
  <2>3. PICK x : x = Put("proc", New("proc"), v)
    OBVIOUS
  <2>4. PICK y : y = Put("wo", r.id, u)
    OBVIOUS
  <2>5. T = <<x, y>>
    BY <1>7, <2>1, <2>2, <2>3, <2>4 DEF Execute, Nets
  <2>6. /\ New("proc") \in Ids /\ New("proc") \notin DOMAIN db["proc"] /\ Fresh(db, x)
        /\ New("proc") = Len(db["proc"]) + 1
    BY <1>1, <2>3, NewNumber
  <2>7. v \in Process
    BY <1>1, <1>7, <2>1, NewFacts DEF Nets, Ref
  <2>8. v.parent = r.id /\ v.stopped = FALSE /\ v.completed = "absent" /\ v.wil = <<>>
    BY <2>1 DEF NewProcess
  <2>9. x.t = "proc" /\ x.id = New("proc") /\ x.v = v /\ y.t = "wo" /\ y.id = r.id /\ y.v = u
    BY <2>3, <2>4, PutFacts
  <2>10. x \in Items(db, r)
    <3>1. Good(db, "proc", New("proc"), v)
      BY <1>1, <2>6, <2>7, <2>8, <1>2, <1>7 DEF Good, Member, Linked, Above
    <3>2. ProcItem(db, r, x)
      BY <2>6, <2>8, <2>9 DEF ProcItem
    <3> QED
      BY <3>1, <3>2, <2>3, <2>6, <1>1, ItemOf
  <2>11. y \in Items(db, r)
    <3>1. /\ u \in WorkOrder /\ u.wi = r.v.wi /\ u.executor = r.v.executor
          /\ u.out = r.v.out
      BY <2>2, <2>6, <1>1 DEF WorkOrder, Ref
    <3>2. WoItem(db, r, y)
      BY <3>1, <2>9, <1>7 DEF WoItem
    <3> QED
      BY <3>1, <3>2, <2>4, <1>4
  <2> HIDE DEF T
  <2>12. ~Codelet(r.v.executor)
    BY <1>7 DEF Codelet, Nets
  <2> QED
    BY <1>5, <2>5, <2>6, <2>9, <2>10, <2>11, <2>12 DEF T
<1>8. CASE r.v.out = 0 /\ Codelet(r.v.executor)
  <2>1. PICK u : u = [r.v EXCEPT !.out = 1]
    OBVIOUS
  <2>2. PICK y : y = Put("wo", r.id, u)
    OBVIOUS
  <2> DEFINE A == IF r.v.executor # "nobody" THEN <<>> ELSE CompletedMapping(r.v.wi)
  <2>3. T = A \o <<y>>
    BY <1>8, <2>1, <2>2 DEF Execute, Codelet
  <2>4. /\ u \in WorkOrder /\ u.wi = r.v.wi /\ u.executor = r.v.executor
        /\ u.out = 1
    BY <2>1, <1>1 DEF WorkOrder, Results
  <2>5. y.t = "wo" /\ y.id = r.id /\ y.v = u
    BY <2>2, PutFacts
  <2>6. WoItem(db, r, y)
    BY <2>4, <2>5, <1>8 DEF WoItem
  <2>7. y \in Items(db, r)
    BY <2>2, <2>4, <2>6, <1>4
  <2>8. List(db, r, A) /\ \A k \in DOMAIN A : A[k].t = "proc"
    BY MappingList, ListShort
  <2> HIDE DEF T, A
  <2>9. List(db, r, T)
    BY <2>3, <2>5, <2>7, <2>8, <1>1, ListAdd
  <2>10. PICK n : n = Len(A)
    OBVIOUS
  <2>11. /\ n \in Nat /\ DOMAIN A = 1 .. n /\ DOMAIN T = 1 .. (n + 1) /\ Len(T) = n + 1
         /\ \A k \in 1 .. n : T[k] = A[k]
         /\ T[n + 1] = y
    <3>1. PICK S : S = <<y>>
      OBVIOUS
    <3>2. A \in Seq(Items(db, r)) /\ S \in Seq(Items(db, r)) /\ Len(S) = 1 /\ S[1] = y
      BY <3>1, <2>7, <2>8 DEF List
    <3>3. T = A \o S
      BY <3>1, <2>3
    <3> QED
      BY <3>2, <3>3, <2>10, ConcatFacts
  <2>12. ASSUME NEW k \in DOMAIN T
         PROVE  T[k].t # "wi" /\ (T[k].t = "wo" => k = Len(T)) /\ (T[k].t = "df" => k = 1)
    <3>1. CASE k \in 1 .. n
      BY <3>1, <2>8, <2>11
    <3>2. CASE k = n + 1
      BY <3>2, <2>5, <2>11
    <3> QED
      BY <3>1, <3>2, <2>11
  <2>13. \A t : Makes(db, T, t) => t # "wi"
    BY <2>12 DEF Makes
  <2>14. n + 1 \in DOMAIN T /\ T[n + 1].t = "wo" /\ T[n + 1].id = r.id /\ T[n + 1].v.out = 1
    BY <2>4, <2>5, <2>11
  <2> QED
    BY <2>9, <2>12, <2>13, <2>14 DEF T
<1> QED
  BY <1>3, <1>6, <1>7, <1>8 DEF Codelet, Nets

\* The next elements are elements of the net.
LEMMA NextElementsSeq ==
  ASSUME NEW e \in DOMAIN Net, NEW rs
  PROVE  NextElements(e, rs) \in Seq(DOMAIN Net)
<1>1. PICK fl : fl = Net[e].flows
  OBVIOUS
<1>2. fl \in Seq(Flow) /\ DOMAIN fl = 1 .. Len(fl) /\ Len(fl) \in Nat
  BY <1>1, DocflowAssumption
<1>3. \A k \in DOMAIN fl : fl[k].into \in DOMAIN Net
  <2>1. \A x \in Flow : x.into \in DOMAIN Net
    BY DEF Flow
  <2>2. \A k \in DOMAIN fl : fl[k] \in Flow
    BY <1>2
  <2> QED
    BY <2>1, <2>2
<1>4. PICK open : open = {k \in DOMAIN fl : IF fl[k].when # 0 THEN fl[k].when \in rs
                                            ELSE Net[e].split = "none"}
  OBVIOUS
<1>5. PICK took : took = {k \in open : Net[e].split = "XOR" => \A j \in open : k <= j}
  OBVIOUS
<1>6. took \subseteq DOMAIN fl
  BY <1>4, <1>5
<1>7. IsFiniteSet(took) /\ took \subseteq Nat
  <2>1. IsFiniteSet(1 .. Len(fl))
    BY <1>2, FS_Interval
  <2> QED
    BY <2>1, <1>2, <1>6, FS_Subset
<1>8. PICK ks : ks = InOrder(took)
  OBVIOUS
<1>9. ks \in Seq(took)
  BY <1>7, <1>8, InOrderSeq
<1>10. DOMAIN ks = 1 .. Len(ks) /\ Len(ks) \in Nat /\ \A k \in DOMAIN ks : ks[k] \in DOMAIN fl
  BY <1>6, <1>9
<1>11. NextElements(e, rs) = [k \in DOMAIN ks |-> fl[ks[k]].into]
  BY <1>1, <1>4, <1>5, <1>8 DEF NextElements
<1>12. NextElements(e, rs) \in [1 .. Len(ks) -> DOMAIN Net]
  BY <1>3, <1>10, <1>11
<1> QED
  BY <1>10, <1>12, MapFacts

\* The task of the work order is left with items.
LEMMA GotoNextList ==
  ASSUME DbOK(db), NEW r, IsRecord(db, r), r.t = "wo", AllResults(r.id, r.v, r.v.wi)
  PROVE  /\ List(db, r, GotoNext(r.id, r.v, r.v.wi))
         /\ \A k \in DOMAIN GotoNext(r.id, r.v, r.v.wi) :
              GotoNext(r.id, r.v, r.v.wi)[k].t \in {"wi", "proc"}
         /\ \A t : Makes(db, GotoNext(r.id, r.v, r.v.wi), t) => t = "wi"
<1>1. r.v \in WorkOrder /\ r.v.wi \in DOMAIN db["wi"] /\ r.id \in DOMAIN db["wo"]
  BY RecordFacts
<1>2. PICK w : w = r.v.wi
  OBVIOUS
<1>3. PICK d : d = db["wi"][w]
  OBVIOUS
<1>4. /\ d \in WorkItem /\ d.proc \in DOMAIN db["proc"] /\ w \in Ids /\ w \in DOMAIN db["wi"]
      /\ "wi" \in Types
  BY <1>1, <1>2, <1>3, DbFacts DEF Types
<1>5. PICK es : es = NextElements(d.elem, {Result(r.id, r.v, x) : x \in ToSet(d.wol)})
  OBVIOUS
<1>6. es \in Seq(DOMAIN Net)
  <2>1. d.elem \in DOMAIN Net
    BY <1>4 DEF WorkItem
  <2> QED
    BY <2>1, <1>5, NextElementsSeq
<1>7. PICK T : T = create_work_items(d.proc, es, w)
  OBVIOUS
<1>8. List(db, r, T) /\ News("wi", es) \in Seq(Ids) /\ \A k \in DOMAIN T : T[k].t = "wi"
  BY <1>2, <1>3, <1>4, <1>6, <1>7, WorkItemsList
<1>9. PICK v : v = [d EXCEPT !.done = TRUE, !.wil = IF es = <<>> THEN @ ELSE News("wi", es)]
  OBVIOUS
<1>10. /\ v \in WorkItem /\ v.proc = d.proc /\ v.elem = d.elem /\ v.wol = d.wol
       /\ v.done = TRUE
  <2>1. PICK l : l = IF es = <<>> THEN d.wil ELSE News("wi", es)
    OBVIOUS
  <2>2. l \in Seq(Ids)
    BY <2>1, <1>4, <1>8 DEF WorkItem
  <2>3. v = [d EXCEPT !.done = TRUE, !.wil = l]
    BY <2>1, <1>9
  <2> QED
    BY <2>2, <2>3, <1>4 DEF WorkItem
<1>11. PICK x : x = Put("wi", w, v)
  OBVIOUS
<1>12. x.t = "wi" /\ x.id = w /\ x.v = v
  BY <1>11, PutFacts
<1>13. \A o \in ToSet(v.wol) : Resulted(db, r, o)
  <2> TAKE o \in ToSet(v.wol)
  <2>1. Result(r.id, r.v, o) # 0
    BY <1>2, <1>3, <1>10 DEF AllResults
  <2>2. CASE o # r.id
    BY <2>1, <2>2 DEF Result, Resulted
  <2>3. CASE o = r.id
    BY <2>1, <2>3 DEF Result, Resulted, Codelet
  <2> QED
    BY <2>2, <2>3
<1>14. x \in Items(db, r)
  <2>1. Good(db, "wi", w, v)
    BY <1>3, <1>4, <1>10 DEF Good, Member, Linked, Same
  <2>2. WiItem(db, r, x)
    BY <1>2, <1>10, <1>12, <1>13 DEF WiItem
  <2> QED
    BY <2>1, <2>2, <1>4, <1>11, ItemOf
<1> DEFINE A == IF r.v.executor = "nobody" /\ r.v.out = 0 THEN <<>> ELSE CompletedMapping(r.v.wi)
<1>15. GotoNext(r.id, r.v, r.v.wi) = A \o Append(T, x)
  BY <1>2, <1>3, <1>5, <1>7, <1>9, <1>11 DEF GotoNext
<1>16. List(db, r, Append(T, x))
  BY <1>4, <1>8, <1>12, <1>14, ListAdd
<1>17. \A k \in DOMAIN Append(T, x) : Append(T, x)[k].t = "wi"
  <2>1. PICK U : U = Append(T, x)
    OBVIOUS
  <2>2. T \in Seq(Items(db, r))
    BY <1>8 DEF List
  <2>3. /\ DOMAIN T = 1 .. Len(T) /\ DOMAIN U = 1 .. (Len(T) + 1) /\ Len(T) \in Nat
        /\ \A k \in DOMAIN T : U[k] = T[k]
        /\ U[Len(T) + 1] = x
    BY <2>1, <2>2, <1>14, AppendFacts
  <2>4. \A k \in DOMAIN U : k \in DOMAIN T \/ k = Len(T) + 1
    BY <2>3
  <2> QED
    BY <2>1, <2>3, <2>4, <1>8, <1>12
<1>18. List(db, r, A) /\ (\A t : ~Makes(db, A, t)) /\ \A k \in DOMAIN A : A[k].t = "proc"
  <2>1. A = <<>> \/ A = CompletedMapping(r.v.wi)
    OBVIOUS
  <2> HIDE DEF A
  <2>2. CASE A = <<>>
    BY <2>2, ListShort, MakesFacts
  <2>3. CASE A = CompletedMapping(r.v.wi)
    BY <2>3, MappingList
  <2> QED
    BY <2>1, <2>2, <2>3
<1> HIDE DEF A
<1>19. PICK U : U = Append(T, x)
  OBVIOUS
<1>20. List(db, r, A \o U)
  BY <1>16, <1>18, <1>19, ApartIf, ListConcat
<1>21. A \in Seq(Write) /\ U \in Seq(Write)
  BY <1>16, <1>18, <1>19, ListWrites
<1>22. ASSUME NEW k \in DOMAIN (A \o U)
       PROVE  (A \o U)[k].t \in {"wi", "proc"}
  <2>1. PICK S : S = A \o U
    OBVIOUS
  <2>2. /\ Len(A) \in Nat /\ Len(U) \in Nat /\ DOMAIN A = 1 .. Len(A) /\ DOMAIN U = 1 .. Len(U)
        /\ DOMAIN S = 1 .. (Len(A) + Len(U))
        /\ \A i \in 1 .. Len(A) : S[i] = A[i]
        /\ \A i \in (Len(A) + 1) .. (Len(A) + Len(U)) : S[i] = U[i - Len(A)]
    BY <2>1, <1>21, ConcatFacts
  <2>3. CASE k \in DOMAIN A
    BY <2>1, <2>2, <2>3, <1>18
  <2>4. CASE k \notin DOMAIN A
    <3>1. k - Len(A) \in DOMAIN U /\ S[k] = U[k - Len(A)]
      BY <2>1, <2>2, <2>4, <1>22
    <3> QED
      BY <3>1, <2>1, <1>17, <1>19
  <2> QED
    BY <2>3, <2>4
<1>23. \A t : Makes(db, U, t) => t = "wi"
  BY <1>17, <1>19 DEF Makes
<1>24. \A t : Makes(db, A \o U, t) => t = "wi"
  BY <1>18, <1>21, <1>23, MakesFacts
<1> QED
  BY <1>15, <1>19, <1>20, <1>22, <1>24

\* prepare_work_order() writes items, to one work order at most, and the result
\* of a codelet before the work items.
LEMMA WorkOrderList ==
  ASSUME DbOK(db), NEW r, IsRecord(db, r), r.t = "wo", NEW T, T = prepare_work_order(r.id, r.v)
  PROVE  /\ List(db, r, T)
         /\ \A j, k \in DOMAIN T : T[j].t = "wo" /\ T[k].t = "wo" => j = k
         /\ \A k \in DOMAIN T : T[k].t = "df" => k = 1
         /\ r.v.out = 0 /\ Codelet(r.v.executor) /\ T # <<>> =>
              \E j \in DOMAIN T : /\ T[j].t = "wo" /\ T[j].id = r.id /\ T[j].v.out = 1
                                  /\ \A k \in DOMAIN T : T[k].t = "wi" => j < k
<1>1. CASE T = <<>>
  <2>1. DOMAIN T = {}
    BY <1>1
  <2> QED
    BY <1>1, <2>1, ListShort
<1>2. CASE T # <<>>
  <2>1. PICK A : A = Execute(r.id, r.v)
    OBVIOUS
  <2>2. PICK B : B = IF AllResults(r.id, r.v, r.v.wi) THEN GotoNext(r.id, r.v, r.v.wi) ELSE <<>>
    OBVIOUS
  <2>3. T = A \o B
    BY <1>2, <2>1, <2>2 DEF prepare_work_order
  <2>4. /\ List(db, r, A) /\ \A t : Makes(db, A, t) => t # "wi"
        /\ \A k \in DOMAIN A : /\ A[k].t # "wi" /\ (A[k].t = "wo" => k = Len(A))
                               /\ A[k].t = "df" => k = 1
        /\ r.v.out = 0 /\ Codelet(r.v.executor) =>
             \E j \in DOMAIN A : A[j].t = "wo" /\ A[j].id = r.id /\ A[j].v.out = 1
    BY <2>1, ExecuteList
  <2>5. /\ List(db, r, B) /\ \A t : Makes(db, B, t) => t = "wi"
        /\ \A k \in DOMAIN B : B[k].t \in {"wi", "proc"}
    <3>1. CASE AllResults(r.id, r.v, r.v.wi)
      BY <3>1, <2>2, GotoNextList
    <3>2. CASE ~AllResults(r.id, r.v, r.v.wi)
      BY <3>2, <2>2, ListShort, MakesFacts
    <3> QED
      BY <3>1, <3>2
  <2>7. List(db, r, T)
    BY <2>3, <2>4, <2>5, ApartIf, ListConcat
  <2>8. A \in Seq(Write) /\ B \in Seq(Write)
    BY <2>4, <2>5, ListWrites
  <2>9. /\ Len(A) \in Nat /\ Len(B) \in Nat /\ DOMAIN A = 1 .. Len(A) /\ DOMAIN B = 1 .. Len(B)
        /\ DOMAIN T = 1 .. (Len(A) + Len(B))
        /\ \A k \in 1 .. Len(A) : T[k] = A[k]
        /\ \A k \in (Len(A) + 1) .. (Len(A) + Len(B)) : T[k] = B[k - Len(A)]
    BY <2>3, <2>8, ConcatFacts
  <2>10. ASSUME NEW k \in DOMAIN T, T[k].t = "wo"
         PROVE  k = Len(A)
    <3>1. CASE k \in DOMAIN A
      BY <3>1, <2>4, <2>9, <2>10
    <3>2. CASE k \notin DOMAIN A
      <4>1. k - Len(A) \in DOMAIN B /\ T[k] = B[k - Len(A)]
        BY <3>2, <2>9
      <4> QED
        BY <4>1, <2>5, <2>10
    <3> QED
      BY <3>1, <3>2
  <2>11. ASSUME r.v.out = 0, Codelet(r.v.executor)
         PROVE  \E j \in DOMAIN T : /\ T[j].t = "wo" /\ T[j].id = r.id /\ T[j].v.out = 1
                                    /\ \A k \in DOMAIN T : T[k].t = "wi" => j < k
    <3>1. PICK j \in DOMAIN A : A[j].t = "wo" /\ A[j].id = r.id /\ A[j].v.out = 1
      BY <2>4, <2>11
    <3>2. j \in DOMAIN T /\ T[j] = A[j]
      BY <2>9
    <3>3. ASSUME NEW k \in DOMAIN T, T[k].t = "wi"
          PROVE  j < k
      <4>1. k \notin DOMAIN A
        BY <3>3, <2>4, <2>9
      <4> QED
        BY <4>1, <2>9
    <3> QED
      BY <3>1, <3>2, <3>3
  <2>12. ASSUME NEW k \in DOMAIN T, T[k].t = "df"
         PROVE  k = 1
    <3>1. CASE k \in DOMAIN A
      BY <3>1, <2>4, <2>9, <2>12
    <3>2. CASE k \notin DOMAIN A
      <4>1. k - Len(A) \in DOMAIN B /\ T[k] = B[k - Len(A)]
        BY <3>2, <2>9
      <4> QED
        BY <4>1, <2>5, <2>12
    <3> QED
      BY <3>1, <3>2
  <2> QED
    BY <2>4, <2>7, <2>9, <2>10, <2>11, <2>12
<1> QED
  BY <1>1, <1>2

\* A write of a script to a decision form.
LEMMA FormItem ==
  ASSUME DbOK(db), NEW r, NEW f \in DOMAIN db["df"], NEW v \in DecisionForm,
         v.wo = db["df"][f].wo, DfItem(db, r, Put("df", f, v))
  PROVE  /\ Put("df", f, v) \in Items(db, r)
         /\ Put("df", f, v).id \in DOMAIN db[Put("df", f, v).t]
<1>1. /\ f \in Ids /\ "df" \in Types /\ db["df"][f].wo \in DOMAIN db["wo"]
      /\ db["wo"][db["df"][f].wo].executor \in Users
  BY DbFacts DEF Types
<1>2. Good(db, "df", f, v)
  BY <1>1 DEF Good, Member, Linked, Same
<1>3. Put("df", f, v) \in Items(db, r)
  BY <1>1, <1>2, ItemOf
<1> QED
  BY <1>3, PutFacts

\* A decision writes items.
LEMMA TakeList ==
  ASSUME DbOK(db), NEW r, IsRecord(db, r), r.t = "df", r.was.taken = 0
  PROVE  List(db, r, TakeDecision(r.id, r.v))
<1> DEFINE T == TakeDecision(r.id, r.v)
<1>1. /\ r.v \in DecisionForm /\ r.id \in DOMAIN db["df"] /\ r.v.wo \in DOMAIN db["wo"]
      /\ Same("df", r.v, db["df"][r.id]) /\ db["df"][r.id] \in DecisionForm
      /\ "wo" \in Types
  BY RecordFacts, DbFacts DEF Types
<1>2. PICK o : o = db["wo"][r.v.wo]
  OBVIOUS
<1>3. o \in WorkOrder /\ o.wi \in DOMAIN db["wi"] /\ r.v.wo \in Ids
  BY <1>1, <1>2, DbFacts
<1>4. CASE r.v.taken = 0 \/ r.v.done
  BY <1>4, ListShort DEF TakeDecision
<1>5. CASE ~(r.v.taken = 0 \/ r.v.done)
  <2>1. CASE db["wi"][o.wi].done
    <3>1. DfItem(db, r, Put("df", r.id, db["df"][r.id]))
      BY PutFacts DEF DfItem
    <3>2. PICK x : x = Report(r.id)
      OBVIOUS
    <3>3. x \in Items(db, r) /\ x.id \in DOMAIN db[x.t]
      BY <3>1, <3>2, <1>1, FormItem DEF Report
    <3>4. T = <<x>>
      BY <3>2, <2>1, <1>2, <1>5 DEF TakeDecision
    <3> QED
      BY <3>3, <3>4, ListShort
  <2>2. CASE ~db["wi"][o.wi].done /\ db["proc"][db["wi"][o.wi].proc].stopped
    <3>1. T = <<>>
      BY <2>2, <1>2, <1>5 DEF TakeDecision
    <3> QED
      BY <3>1, ListShort
  <2>3. CASE ~db["wi"][o.wi].done /\ ~db["proc"][db["wi"][o.wi].proc].stopped
    <3>1. PICK u : u = [o EXCEPT !.out = r.v.taken]
      OBVIOUS
    <3>2. PICK v : v = [db["df"][r.id] EXCEPT !.done = TRUE]
      OBVIOUS
    <3>3. PICK x : x = Put("wo", r.v.wo, u)
      OBVIOUS
    <3>4. PICK y : y = Put("df", r.id, v)
      OBVIOUS
    <3>5. T = <<x, y>>
      BY <2>3, <3>1, <3>2, <3>3, <3>4, <1>2, <1>5 DEF TakeDecision
    <3>6. r.v.taken \in Results \cup {0}
      BY <1>1 DEF DecisionForm
    <3>7. u \in WorkOrder /\ u.wi = o.wi /\ u.executor = o.executor /\ u.out = r.v.taken
      BY <3>1, <3>6, <1>3 DEF WorkOrder
    <3>8. /\ v \in DecisionForm /\ v.wo = db["df"][r.id].wo /\ v.done = TRUE
          /\ v.taken = db["df"][r.id].taken /\ v.deleted = db["df"][r.id].deleted
      BY <3>2, <1>1 DEF DecisionForm
    <3>9. x.t = "wo" /\ x.id = r.v.wo /\ x.v = u /\ y.t = "df" /\ y.id = r.id /\ y.v = v
      BY <3>3, <3>4, PutFacts
    <3>10. x \in Items(db, r)
      <4>1. Good(db, "wo", r.v.wo, u)
        BY <3>7, <1>2, <1>3 DEF Good, Member, Linked, Same
      <4>2. WoItem(db, r, x)
        BY <3>7, <3>9, <1>5 DEF WoItem
      <4> QED
        BY <4>1, <4>2, <3>3, <1>1, <1>3, ItemOf
    <3>11. y \in Items(db, r) /\ y.id \in DOMAIN db[y.t]
      <4>1. DfItem(db, r, y)
        BY <3>8, <3>9, <1>5 DEF DfItem
      <4> QED
        BY <4>1, <3>4, <3>8, <1>1, FormItem
    <3> QED
      BY <3>5, <3>9, <3>10, <3>11, <1>1, ListPair
  <2> QED
    BY <2>1, <2>2, <2>3
<1> QED
  BY <1>4, <1>5

\* prepare_decision_form() writes items.
LEMMA DecisionList ==
  ASSUME DbOK(db), NEW r, IsRecord(db, r), r.t = "df"
  PROVE  List(db, r, prepare_decision_form(r.id, r.v, r.was))
<1>1. CASE r.was.taken = 0
  BY <1>1, TakeList DEF prepare_decision_form
<1>2. CASE r.was.taken # 0 /\ r.v.taken = r.was.taken
  <2>1. prepare_decision_form(r.id, r.v, r.was) = <<>>
    BY <1>2 DEF prepare_decision_form
  <2> QED
    BY <2>1, ListShort
<1>3. CASE r.was.taken # 0 /\ r.v.taken # r.was.taken
  <2>1. /\ r.id \in DOMAIN db["df"] /\ db["df"][r.id] \in DecisionForm
        /\ r.was \in DecisionForm
    BY RecordFacts, DbFacts
  <2>2. PICK v : v = [db["df"][r.id] EXCEPT !.taken = r.was.taken]
    OBVIOUS
  <2>3. /\ v \in DecisionForm /\ v.wo = db["df"][r.id].wo /\ v.done = db["df"][r.id].done
        /\ v.taken = r.was.taken /\ v.deleted = db["df"][r.id].deleted
    BY <2>1, <2>2 DEF DecisionForm
  <2>4. PICK x : x = Report(r.id)
    OBVIOUS
  <2>5. PICK y : y = Put("df", r.id, v)
    OBVIOUS
  <2>6. prepare_decision_form(r.id, r.v, r.was) = <<x, y>>
    BY <1>3, <2>2, <2>4, <2>5 DEF prepare_decision_form
  <2>7. x \in Items(db, r) /\ x.id \in DOMAIN db[x.t]
    <3>1. DfItem(db, r, Put("df", r.id, db["df"][r.id]))
      BY PutFacts DEF DfItem
    <3> QED
      BY <3>1, <2>1, <2>4, FormItem DEF Report
  <2>8. y \in Items(db, r) /\ y.id \in DOMAIN db[y.t]
    <3>1. y.t = "df" /\ y.id = r.id /\ y.v = v
      BY <2>5, PutFacts
    <3>2. DfItem(db, r, y)
      BY <3>1, <2>3, <1>3 DEF DfItem
    <3> QED
      BY <3>2, <2>1, <2>3, <2>5, FormItem
  <2> QED
    BY <2>6, <2>7, <2>8, ListPair
<1> QED
  BY <1>1, <1>2, <1>3

\* Some of the individuals of a type, in their order.
LEMMA SomeInOrder ==
  ASSUME NEW D, DbOK(D), NEW t \in Types, NEW S, S \subseteq DOMAIN D[t]
  PROVE  /\ InOrder(S) \in Seq(S) /\ DOMAIN InOrder(S) = 1 .. Len(InOrder(S))
         /\ Len(InOrder(S)) \in Nat
         /\ \A k \in DOMAIN InOrder(S) : InOrder(S)[k] \in S
<1>1. DOMAIN D[t] = 1 .. Len(D[t]) /\ Len(D[t]) \in Nat
  BY DbFacts
<1>2. IsFiniteSet(S)
  <2>1. IsFiniteSet(1 .. Len(D[t]))
    BY <1>1, FS_Interval
  <2> QED
    BY <2>1, <1>1, FS_Subset
<1>3. S \subseteq Nat
  BY <1>1
<1>4. PICK s : s = InOrder(S)
  OBVIOUS
<1>5. s \in Seq(S)
  BY <1>2, <1>3, <1>4, InOrderSeq
<1> QED
  BY <1>4, <1>5

\* The stop of a process writes items.
LEMMA StopList ==
  ASSUME DbOK(db), NEW r, IsRecord(db, r), r.t = "proc", r.v.stopped
  PROVE  List(db, r, StopAll(r.id, r.v))
<1>1. PICK os : os = UNION {ToSet(db["wi"][w].wol) : w \in Below(r.v.wil, TRUE)}
  OBVIOUS
<1>2. PICK fs : fs = {f \in DOMAIN db["df"] : /\ \E o \in os : f \in ToSet(db["wo"][o].dfl)
                                               /\ ~db["df"][f].done}
  OBVIOUS
<1>3. PICK ps : ps = {q \in DOMAIN db["proc"] : /\ \E o \in os : db["wo"][o].sub = q
                                                 /\ db["proc"][q].completed # "true"}
  OBVIOUS
<1>4. PICK s : s = InOrder(fs)
  OBVIOUS
<1>5. PICK t : t = InOrder(ps)
  OBVIOUS
<1>6. "df" \in Types /\ "proc" \in Types
  BY DEF Types
<1>7. DOMAIN s = 1 .. Len(s) /\ Len(s) \in Nat /\ \A k \in DOMAIN s : s[k] \in fs
  BY <1>2, <1>4, <1>6, SomeInOrder
<1>8. DOMAIN t = 1 .. Len(t) /\ Len(t) \in Nat /\ \A k \in DOMAIN t : t[k] \in ps
  BY <1>3, <1>5, <1>6, SomeInOrder
<1>9. PICK A : A = [k \in DOMAIN s |-> Put("df", s[k], [db["df"][s[k]] EXCEPT !.deleted = TRUE])]
  OBVIOUS
<1>10. PICK B : B = [k \in DOMAIN t |-> Put("proc", t[k], [db["proc"][t[k]] EXCEPT !.stopped = TRUE])]
  OBVIOUS
<1>11. PICK C : C = change_process_status(r.id, "Interrupted")
  OBVIOUS
<1>12. StopAll(r.id, r.v) = (A \o B) \o C
  BY <1>1, <1>2, <1>3, <1>4, <1>5, <1>9, <1>10, <1>11 DEF StopAll
<1>13. ASSUME NEW k \in DOMAIN s
       PROVE  A[k] \in Items(db, r) /\ A[k].id \in DOMAIN db[A[k].t]
  <2>1. PICK f : f = s[k]
    OBVIOUS
  <2>2. f \in DOMAIN db["df"] /\ ~db["df"][f].done /\ db["df"][f] \in DecisionForm
    BY <2>1, <1>2, <1>7, DbFacts
  <2>3. PICK v : v = [db["df"][f] EXCEPT !.deleted = TRUE]
    OBVIOUS
  <2>4. /\ v \in DecisionForm /\ v.wo = db["df"][f].wo /\ v.done = db["df"][f].done
        /\ v.taken = db["df"][f].taken /\ v.deleted = TRUE
    BY <2>2, <2>3 DEF DecisionForm
  <2>5. A[k] = Put("df", f, v)
    BY <2>1, <2>3, <1>9
  <2>6. DfItem(db, r, Put("df", f, v))
    BY <2>2, <2>4, PutFacts DEF DfItem
  <2> QED
    BY <2>2, <2>4, <2>5, <2>6, FormItem
<1>14. ASSUME NEW k \in DOMAIN t
       PROVE  B[k] \in Items(db, r) /\ B[k].id \in DOMAIN db[B[k].t]
  <2>1. PICK q : q = t[k]
    OBVIOUS
  <2>2. /\ q \in DOMAIN db["proc"] /\ db["proc"][q] \in Process /\ q \in Ids
        /\ Above(db, db["proc"][q].parent)
    BY <2>1, <1>3, <1>6, <1>8, DbFacts
  <2>3. PICK v : v = [db["proc"][q] EXCEPT !.stopped = TRUE]
    OBVIOUS
  <2>4. /\ v \in Process /\ v.net = db["proc"][q].net /\ v.parent = db["proc"][q].parent
        /\ v.stopped = TRUE /\ v.completed = db["proc"][q].completed /\ v.wil = db["proc"][q].wil
    BY <2>2, <2>3 DEF Process
  <2>5. B[k] = Put("proc", q, v)
    BY <2>1, <2>3, <1>10
  <2>6. ProcItem(db, r, Put("proc", q, v))
    BY <2>2, <2>4, PutFacts DEF ProcItem
  <2>7. Good(db, "proc", q, v)
    BY <2>2, <2>4 DEF Good, Member, Linked, Same
  <2>8. Put("proc", q, v) \in Items(db, r)
    BY <2>2, <2>6, <2>7, <1>6, ItemOf
  <2> QED
    BY <2>2, <2>5, <2>8, PutFacts
<1>15. List(db, r, A) /\ \A u : ~Makes(db, A, u)
  <2>1. A \in [1 .. Len(s) -> Items(db, r)]
    BY <1>7, <1>9, <1>13
  <2>2. \A k \in 1 .. Len(s) : A[k].id \in DOMAIN db[A[k].t]
    BY <1>7, <1>13
  <2> QED
    BY <2>1, <2>2, <1>7, OldList
<1>16. List(db, r, B) /\ \A u : ~Makes(db, B, u)
  <2>1. B \in [1 .. Len(t) -> Items(db, r)]
    BY <1>8, <1>10, <1>14
  <2>2. \A k \in 1 .. Len(t) : B[k].id \in DOMAIN db[B[k].t]
    BY <1>8, <1>14
  <2> QED
    BY <2>1, <2>2, <1>8, OldList
<1>17. List(db, r, C) /\ \A u : ~Makes(db, C, u)
  BY <1>11, StatusList
<1>18. List(db, r, A \o B)
  BY <1>15, <1>16, ApartIf, ListConcat
<1>19. List(db, r, (A \o B) \o C)
  BY <1>17, <1>18, ApartIf, ListConcat
<1> QED
  BY <1>12, <1>19

\* Every script writes items.
LEMMA WritesList ==
  ASSUME DbOK(db), setting \in Settings, NEW r, IsRecord(db, r)
  PROVE  List(db, r, Writes(r))
<1>1. r.t \in {"form", "proc", "wi", "wo", "df"}
  BY RecordFacts DEF Types
<1>2. CASE r.t = "form"
  BY <1>2, FormList DEF Writes
<1>3. CASE r.t = "proc"
  <2>1. CASE r.v.stopped
    <3>1. Writes(r) = StopAll(r.id, r.v)
      BY <1>3, <2>1 DEF Writes
    <3> QED
      BY <3>1, <1>3, <2>1, StopList
  <2>2. CASE ~r.v.stopped
    <3>1. Writes(r) = prepare_process(r.id, r.v)
      BY <1>3, <2>2 DEF Writes
    <3> QED
      BY <3>1, <1>3, <2>2, ProcessList
  <2> QED
    BY <2>1, <2>2
<1>4. CASE r.t = "wi"
  BY <1>4, WorkItemList DEF Writes
<1>5. CASE r.t = "wo"
  BY <1>5, WorkOrderList DEF Writes
<1>6. CASE r.t = "df"
  BY <1>6, DecisionList DEF Writes
<1> QED
  BY <1>1, <1>2, <1>3, <1>4, <1>5, <1>6
-----------------------------------------------------------------------------
(***************************************************************************)
(* The steps, and the type invariant.                                      *)
(***************************************************************************)

\* The first record is one of an individual.
LEMMA HeadRecord ==
  ASSUME TInv, queue # <<>>
  PROVE  /\ IsRecord(db, queue[1]) /\ Head(queue) = queue[1] /\ 1 \in DOMAIN queue
         /\ queue \in Seq(Record) /\ DbOK(db) /\ setting \in Settings
<1>1. queue \in Seq(Record) /\ QueueOK(db, queue) /\ DbOK(db) /\ setting \in Settings
  BY DEF TInv, QueueOK
<1>2. 1 \in DOMAIN queue /\ Head(queue) = queue[1]
  BY <1>1, TailFacts
<1>3. queue[1] \in Record
  BY <1>1, <1>2
<1> QED
  BY <1>1, <1>2, <1>3 DEF QueueOK, IsRecord

\* A script is run: its writes are items, and a record without writes is done.
LEMMA RunFacts ==
  ASSUME TInv, Run
  PROVE  /\ queue # <<>> /\ ~running /\ db' = db /\ setting' = setting /\ crashes' = crashes
         /\ List(db, queue[1], todo')
         /\ todo' = <<>> \/ (Triggered(queue[1]) /\ todo' = Writes(queue[1]))
         /\ todo' = <<>> /\ Triggered(queue[1]) => Writes(queue[1]) = <<>>
         /\ running' = (todo' # <<>>)
         /\ queue' = IF todo' = <<>> THEN Tail(queue) ELSE queue
<1>1. queue # <<>> /\ ~running /\ db' = db /\ setting' = setting /\ crashes' = crashes
  BY DEF Run, counts
<1>2. IsRecord(db, queue[1]) /\ Head(queue) = queue[1] /\ DbOK(db) /\ setting \in Settings
  BY <1>1, HeadRecord
<1>3. PICK ws : ws = IF Triggered(queue[1]) THEN Writes(queue[1]) ELSE <<>>
  OBVIOUS
<1>4. /\ todo' = ws /\ running' = (ws # <<>>)
      /\ queue' = IF ws = <<>> THEN Tail(queue) ELSE queue
  BY <1>2, <1>3 DEF Run
<1>5. List(db, queue[1], ws)
  <2>1. CASE Triggered(queue[1])
    BY <2>1, <1>2, <1>3, WritesList
  <2>2. CASE ~Triggered(queue[1])
    BY <2>2, <1>2, <1>3, ListShort
  <2> QED
    BY <2>1, <2>2
<1> QED
  BY <1>1, <1>3, <1>4, <1>5

\* The author of the writes of a script.
By(r) == <<r.t, r.id, Script(r)>>
LEMMA ByAuthor ==
  ASSUME NEW r \in Record
  PROVE  By(r) \in Author
<1>1. r.t \in Types /\ r.id \in Nat
  BY DEF Record, Ids
<1>2. Script(r) \in {"user", "df1", "df2", "df3", "df4", "df5", "stop"}
  BY <1>1 DEF Script, Types
<1> QED
  BY <1>1, <1>2 DEF By, Author

\* An item is sent.
LEMMA CommitFacts ==
  ASSUME TInv, CommitItem
  PROVE  /\ todo # <<>> /\ queue # <<>> /\ running
         /\ Fits(db, todo[1]) /\ Stored(db, db', todo[1]) /\ By(queue[1]) \in Author
         /\ queue' = Append(queue, RecordOf(db, todo[1], By(queue[1])))
         /\ todo' = Tail(todo) /\ running' = running /\ setting' = setting /\ crashes' = crashes
         /\ QueueOK(db', queue') /\ DbOK(db') /\ TodoOK(db', todo')
<1>1. todo # <<>> /\ todo' = Tail(todo) /\ running' = running /\ setting' = setting
      /\ crashes' = crashes
  BY DEF CommitItem, counts
<1>2. queue # <<>> /\ running /\ DbOK(db) /\ TodoOK(db, todo) /\ QueueOK(db, queue)
  BY <1>1 DEF TInv
<1>3. queue[1] = Head(queue) /\ queue \in Seq(Record) /\ 1 \in DOMAIN queue
  BY <1>2, HeadRecord
<1>4. By(queue[1]) \in Author
  BY <1>3, ByAuthor
<1>5. Fits(db, todo[1]) /\ Head(todo) = todo[1]
  BY <1>1, <1>2, HeadFits
<1>6. Store(todo[1], By(queue[1]))
  BY <1>3, <1>5 DEF CommitItem, By
<1>7. Stored(db, db', todo[1]) /\ queue' = Append(queue, RecordOf(db, todo[1], By(queue[1])))
  BY <1>2, <1>5, <1>6, StoreFacts DEF Fits
<1>8. DbOK(db')
  BY <1>2, <1>5, <1>7, DbKept
<1>9. QueueOK(db', queue')
  BY <1>2, <1>4, <1>5, <1>7, QueueKept
<1>10. TodoOK(db', todo')
  BY <1>1, <1>2, <1>7, TodoTail
<1> QED
  BY <1>1, <1>2, <1>4, <1>5, <1>7, <1>8, <1>9, <1>10

\* What users write: the form, a decision, or the stop of a process of a form.
ByUser(D, w) ==
  /\ Fits(D, w) /\ w.id \in DOMAIN D[w.t]
  /\ \/ w.t = "form"
     \/ w.t = "df" /\ w.v.done = D["df"][w.id].done /\ ~w.v.deleted
     \/ /\ w.t = "proc" /\ w.v.stopped /\ w.v.completed = D["proc"][w.id].completed
        /\ D["proc"][w.id].completed # "true" /\ ~D["proc"][w.id].stopped
        /\ D["proc"][w.id].parent = 0

\* A user writes.
UserStep(w) ==
  /\ ByUser(db, w) /\ Stored(db, db', w)
  /\ queue' = Append(queue, RecordOf(db, w, User))
  /\ todo' = todo /\ running' = running /\ setting' = setting /\ crashes' = crashes

\* A user sends the start form.
LEMMA SendFacts ==
  ASSUME TInv, Send
  PROVE  \E w : UserStep(w) /\ w.t = "form"
<1>0. DbOK(db) /\ "form" \in Types /\ "df" \in Types /\ "proc" \in Types
  BY DEF TInv, Types
<1>1. PICK v : v = [db["form"][1] EXCEPT !.status = "ToBeSent"]
  OBVIOUS
<1>2. PICK w : w = Put("form", 1, v)
  OBVIOUS
<1>3. v \in Form /\ DOMAIN db["form"] = {1}
  BY <1>0, <1>1, DbFacts DEF Form
<1>4. w.t = "form" /\ w.id = 1 /\ w.v = v
  BY <1>2, PutFacts
<1>5. v \in Value
  BY <1>3 DEF Value
<1>6. w \in Write
  BY <1>0, <1>2, <1>5 DEF Put, Write, Ids
<1>7. Good(db, "form", 1, v)
  BY <1>3 DEF Good, Member, Linked, Same
<1>8. ByUser(db, w)
  BY <1>3, <1>4, <1>6, <1>7 DEF ByUser, Fits
<1>9. Store(w, User)
  BY <1>1, <1>2 DEF Send
<1>10. Stored(db, db', w) /\ queue' = Append(queue, RecordOf(db, w, User))
  BY <1>0, <1>6, <1>8, <1>9, StoreFacts DEF ByUser
<1> QED
  BY <1>4, <1>8, <1>10 DEF UserStep, Send

\* A user writes a decision form.
LEMMA AnswerFacts ==
  ASSUME TInv, NEW f \in DOMAIN db["df"], NEW x \in Results \cup {0}, Answer(f, x)
  PROVE  \E w : /\ UserStep(w) /\ w.t = "df" /\ w.id = f /\ w.v.taken = x
               /\ x # db["df"][f].taken
<1>1. DbOK(db) /\ "form" \in Types /\ "df" \in Types /\ "proc" \in Types
  BY DEF TInv, Types
<1>2. PICK v : v = [db["df"][f] EXCEPT !.taken = x, !.deleted = FALSE]
  OBVIOUS
<1>3. PICK w : w = Put("df", f, v)
  OBVIOUS
<1>4. /\ db["df"][f] \in DecisionForm /\ f \in Ids /\ db["df"][f].wo \in DOMAIN db["wo"]
      /\ db["wo"][db["df"][f].wo].executor \in Users
  BY <1>1, DbFacts
<1>5. /\ v \in DecisionForm /\ v.wo = db["df"][f].wo /\ v.done = db["df"][f].done
      /\ v.deleted = FALSE /\ v.taken = x
  BY <1>2, <1>4 DEF DecisionForm
<1>6. w.t = "df" /\ w.id = f /\ w.v = v
  BY <1>3, PutFacts
<1>7. v \in Value
  BY <1>5 DEF Value
<1>8. w \in Write
  BY <1>1, <1>3, <1>4, <1>7 DEF Put, Write
<1>9. Good(db, "df", f, v)
  BY <1>4, <1>5 DEF Good, Member, Linked, Same
<1>10. ByUser(db, w)
  BY <1>5, <1>6, <1>8, <1>9 DEF ByUser, Fits
<1>11. Store(w, User)
  BY <1>2, <1>3 DEF Answer
<1>12. Stored(db, db', w) /\ queue' = Append(queue, RecordOf(db, w, User))
  BY <1>1, <1>8, <1>10, <1>11, StoreFacts DEF ByUser
<1> QED
  BY <1>5, <1>6, <1>10, <1>12 DEF UserStep, Answer

\* A user stops a process.
LEMMA StopFacts ==
  ASSUME TInv, NEW p \in DOMAIN db["proc"], Stop(p)
  PROVE  \E w : UserStep(w) /\ w.t = "proc" /\ w.v.wil = db["proc"][w.id].wil
<1>1. DbOK(db) /\ "form" \in Types /\ "df" \in Types /\ "proc" \in Types
  BY DEF TInv, Types
<1>2. PICK v : v = [db["proc"][p] EXCEPT !.stopped = TRUE]
  OBVIOUS
<1>3. PICK w : w = Put("proc", p, v)
  OBVIOUS
<1>4. /\ db["proc"][p] \in Process /\ p \in Ids
      /\ Above(db, db["proc"][p].parent)
  BY <1>1, DbFacts
<1>5. /\ v \in Process /\ v.net = db["proc"][p].net /\ v.parent = db["proc"][p].parent
      /\ v.stopped = TRUE /\ v.completed = db["proc"][p].completed /\ v.wil = db["proc"][p].wil
  BY <1>2, <1>4 DEF Process
<1>6. w.t = "proc" /\ w.id = p /\ w.v = v
  BY <1>3, PutFacts
<1>7. v \in Value
  BY <1>5 DEF Value
<1>8. w \in Write
  BY <1>1, <1>3, <1>4, <1>7 DEF Put, Write
<1>9. Good(db, "proc", p, v)
  BY <1>4, <1>5 DEF Good, Member, Linked, Same
<1>10. db["proc"][p].completed # "true" /\ ~db["proc"][p].stopped /\ db["proc"][p].parent = 0
  BY DEF Stop
<1>11. ByUser(db, w)
  BY <1>5, <1>6, <1>8, <1>9, <1>10 DEF ByUser, Fits
<1>12. Store(w, User)
  BY <1>2, <1>3 DEF Stop
<1>13. Stored(db, db', w) /\ queue' = Append(queue, RecordOf(db, w, User))
  BY <1>1, <1>8, <1>11, <1>12, StoreFacts DEF ByUser
<1> QED
  BY <1>5, <1>6, <1>11, <1>13 DEF UserStep, Stop

\* Users write nothing else.
LEMMA UserFacts ==
  ASSUME TInv, \/ Send
               \/ \E f \in DOMAIN db.df, v \in Results \cup {0} : Answer(f, v)
               \/ \E p \in DOMAIN db.proc : Stop(p)
  PROVE  \E w : UserStep(w)
<1>1. CASE Send
  BY <1>1, SendFacts
<1>2. CASE \E f \in DOMAIN db.df, v \in Results \cup {0} : Answer(f, v)
  BY <1>2, AnswerFacts
<1>3. CASE \E p \in DOMAIN db.proc : Stop(p)
  BY <1>3, StopFacts
<1> QED
  BY <1>1, <1>2, <1>3

\* The queue without its first record.
LEMMA QueueTail ==
  ASSUME NEW D, NEW Q, QueueOK(D, Q), Q # <<>>
  PROVE  QueueOK(D, Tail(Q))
<1>1. Q \in Seq(Record)
  BY DEF QueueOK
<1>2. PICK P : P = Tail(Q)
  OBVIOUS
<1>3. P \in Seq(Record) /\ \A k \in DOMAIN P : k + 1 \in DOMAIN Q /\ P[k] = Q[k + 1]
  BY <1>1, <1>2, TailFacts
<1>4. \A k \in DOMAIN P : /\ P[k].id \in DOMAIN D[P[k].t]
                          /\ Good(D, P[k].t, P[k].id, P[k].v)
                          /\ Good(D, P[k].t, P[k].id, P[k].was)
  BY <1>3 DEF QueueOK
<1> QED
  BY <1>2, <1>3, <1>4 DEF QueueOK

\* The type invariant holds initially.
LEMMA TInvInit ==
  ASSUME Init
  PROVE  TInv
<1>1. PICK f : f = [status |-> "Draft", procs |-> <<>>]
  OBVIOUS
<1>2. f \in Form
  <2>1. <<>> \in Seq(Ids)
    OBVIOUS
  <2> QED
    BY <1>1, <2>1 DEF Form
<1>3. f \in Value
  BY <1>2 DEF Value
<1>4. /\ DOMAIN db = {"form", "proc", "wi", "wo", "df"} /\ db["form"] = <<f>>
      /\ db["proc"] = <<>> /\ db["wi"] = <<>> /\ db["wo"] = <<>> /\ db["df"] = <<>>
      /\ db = [t \in DOMAIN db |-> db[t]]
  BY <1>1 DEF Init
<1>5. <<f>> \in Seq(Value) /\ <<>> \in Seq(Value) /\ Len(<<f>>) = 1
      /\ DOMAIN (<<f>>) = {1} /\ <<f>>[1] = f
  BY <1>3
<1>6. db \in [Types -> Seq(Value)]
  BY <1>4, <1>5 DEF Types
<1>7. DOMAIN (<< >>) = {}
  OBVIOUS
<1>8. ASSUME NEW t \in Types, NEW i \in DOMAIN db[t]
      PROVE  Good(db, t, i, db[t][i])
  <2>1. t = "form" /\ i = 1
    BY <1>4, <1>5, <1>7 DEF Types
  <2>2. db[t][i] = f
    BY <2>1, <1>4, <1>5
  <2> QED
    BY <2>1, <2>2, <1>2 DEF Good, Member, Linked, Same
<1>9. DbOK(db)
  BY <1>4, <1>5, <1>6, <1>8 DEF DbOK
<1>10. QueueOK(db, queue) /\ TodoOK(db, todo)
  <2>1. queue = <<>> /\ todo = <<>> /\ <<>> \in Seq(Record) /\ <<>> \in Seq(Write)
    BY DEF Init
  <2> QED
    BY <2>1, <1>7 DEF QueueOK, TodoOK, InLine
<1> QED
  BY <1>9, <1>10 DEF TInv, Init

\* Every step keeps it.
LEMMA TInvNext ==
  ASSUME TInv, [Next]_vars
  PROVE  TInv'
<1>1. CASE Run
  <2>1. List(db, queue[1], todo') /\ db' = db /\ setting' = setting /\ crashes' = crashes
        /\ queue # <<>> /\ ~running /\ running' = (todo' # <<>>)
        /\ queue' = IF todo' = <<>> THEN Tail(queue) ELSE queue
    BY <1>1, RunFacts
  <2>2. TodoOK(db, todo')
    BY <2>1, ListTodo
  <2>3. QueueOK(db, queue')
    BY <2>1, QueueTail DEF TInv
  <2> QED
    BY <2>1, <2>2, <2>3 DEF TInv
<1>2. CASE CommitItem
  <2>1. /\ QueueOK(db', queue') /\ DbOK(db') /\ TodoOK(db', todo')
        /\ running /\ running' = running /\ setting' = setting /\ crashes' = crashes
        /\ queue' = Append(queue, RecordOf(db, todo[1], By(queue[1])))
    BY <1>2, CommitFacts
  <2>2. queue' # <<>>
    BY <2>1 DEF TInv, QueueOK
  <2> QED
    BY <2>1, <2>2 DEF TInv
<1>3. CASE Finish
  <2>1. /\ running /\ todo = <<>> /\ ~running' /\ running' \in BOOLEAN /\ queue' = Tail(queue)
        /\ db' = db /\ todo' = todo /\ setting' = setting /\ crashes' = crashes
    BY <1>3 DEF Finish, counts
  <2>2. QueueOK(db, Tail(queue))
    BY <2>1, QueueTail DEF TInv
  <2> QED
    BY <2>1, <2>2 DEF TInv
<1>4. CASE Crash
  <2>1. /\ ~running' /\ running' \in BOOLEAN /\ queue' = queue /\ todo' = <<>>
        /\ db' = db /\ setting' = setting /\ crashes' = crashes + 1
    BY <1>4 DEF Crash
  <2>2. TodoOK(db, todo')
    <3>1. <<>> \in Seq(Write) /\ DOMAIN (<< >>) = {}
      OBVIOUS
    <3> QED
      BY <3>1, <2>1 DEF TodoOK, InLine
  <2> QED
    BY <2>1, <2>2 DEF TInv
<1>5. CASE \/ Send
           \/ \E f \in DOMAIN db.df, v \in Results \cup {0} : Answer(f, v)
           \/ \E p \in DOMAIN db.proc : Stop(p)
  <2>1. PICK w : UserStep(w)
    BY <1>5, UserFacts
  <2>2. /\ Fits(db, w) /\ w.id \in DOMAIN db[w.t] /\ Stored(db, db', w)
        /\ queue' = Append(queue, RecordOf(db, w, User))
        /\ todo' = todo /\ running' = running /\ setting' = setting /\ crashes' = crashes
    BY <2>1 DEF UserStep, ByUser
  <2>3. User \in Author
    BY DEF User, Author
  <2>4. DbOK(db) /\ QueueOK(db, queue) /\ TodoOK(db, todo)
    BY DEF TInv
  <2>5. DbOK(db')
    BY <2>2, <2>4, DbKept
  <2>6. QueueOK(db', queue')
    BY <2>2, <2>3, <2>4, QueueKept
  <2>7. TodoOK(db', todo')
    BY <2>2, <2>4, TodoKept
  <2>8. queue' # <<>>
    BY <2>2, <2>4 DEF QueueOK
  <2> QED
    BY <2>2, <2>5, <2>6, <2>7, <2>8 DEF TInv
<1>6. CASE UNCHANGED vars
  BY <1>6 DEF TInv, vars, counts
<1> QED
  BY <1>1, <1>2, <1>3, <1>4, <1>5, <1>6 DEF Next

\* It implies that the state is well-typed.
LEMMA TInvType ==
  ASSUME TInv
  PROVE  TypeOK
<1>1. /\ setting \in Settings /\ DbOK(db) /\ QueueOK(db, queue) /\ TodoOK(db, todo)
      /\ running => queue # <<>>
  BY DEF TInv
<1>2. \A t \in Types : \A i \in DOMAIN db[t] : Member(t, db[t][i])
  BY <1>1 DEF DbOK, Good
<1>3. \A k \in DOMAIN queue : /\ Member(queue[k].t, queue[k].v)
                              /\ queue[k].id \in DOMAIN db[queue[k].t]
  BY <1>1 DEF QueueOK, Good
<1>4. \A k \in DOMAIN todo : Member(todo[k].t, todo[k].v)
  BY <1>1 DEF TodoOK, Good
<1> QED
  BY <1>1, <1>2, <1>3, <1>4 DEF TypeOK

\* Individuals, records and what is sent are well-formed in every state, with
\* the ids in the records those of stored individuals (TypeOK), whatever users
\* write between the steps of a script and wherever it crashes.
THEOREM TypeTheorem == Spec => []TypeOK
<1>1. Init => TInv
  BY TInvInit
<1>2. TInv /\ [Next]_vars => TInv'
  BY TInvNext
<1>3. TInv => TypeOK
  BY TInvType
<1> QED
  BY <1>1, <1>2, <1>3, PTL DEF Spec
-----------------------------------------------------------------------------
(***************************************************************************)
(* A task is left when all results are there.                              *)
(***************************************************************************)

\* The links of stored individuals stay as they are.
LEMMA LinksKept ==
  ASSUME NEW D, NEW E, NEW w, DbOK(D), Fits(D, w), Stored(D, E, w)
  PROVE  /\ \A t \in Types : DOMAIN D[t] \subseteq DOMAIN E[t]
         /\ \A p \in DOMAIN D["proc"] : E["proc"][p].parent = D["proc"][p].parent
         /\ \A x \in DOMAIN D["wi"] : E["wi"][x].proc = D["wi"][x].proc
         /\ \A o \in DOMAIN D["wo"] : E["wo"][o].executor = D["wo"][o].executor
<1>1. "proc" \in Types /\ "wi" \in Types /\ "wo" \in Types
  BY DEF Types
<1>2. \A t \in Types : DOMAIN D[t] \subseteq DOMAIN E[t]
  BY DEF Stored
<1>3. \A t \in Types : \A i \in DOMAIN D[t] : Same(t, E[t][i], D[t][i])
  <2> TAKE t \in Types
  <2> TAKE i \in DOMAIN D[t]
  <2>1. CASE t = w.t /\ i = w.id
    BY <2>1 DEF Fits, Good, Stored
  <2>2. CASE ~(t = w.t /\ i = w.id)
    BY <2>2 DEF Stored, Same
  <2> QED
    BY <2>1, <2>2
<1> QED
  BY <1>1, <1>2, <1>3 DEF Same

\* The record that is appended.
LEMMA RecordFields ==
  ASSUME NEW D, NEW w, NEW by
  PROVE  /\ RecordOf(D, w, by).t = w.t /\ RecordOf(D, w, by).id = w.id
         /\ RecordOf(D, w, by).v = w.v /\ RecordOf(D, w, by).by = by
         /\ w.id \notin DOMAIN D[w.t] \/ w.id > Len(D[w.t])
              \/ RecordOf(D, w, by).was = D[w.t][w.id]
BY DEF RecordOf

\* The work orders that wait for their process, with one more record.
LEMMA PendingAppend ==
  ASSUME NEW Q \in Seq(Record), NEW r \in Record, NEW o, Pending(Append(Q, r), o)
  PROVE  Pending(Q, o) \/ (NetOrder(r) /\ r.id = o)
<1>1. PICK P : P = Append(Q, r)
  OBVIOUS
<1>2. /\ DOMAIN Q = 1 .. Len(Q) /\ Len(Q) \in Nat /\ DOMAIN P = 1 .. (Len(Q) + 1)
      /\ \A k \in DOMAIN Q : P[k] = Q[k]
      /\ P[Len(Q) + 1] = r
  BY <1>1, AppendFacts
<1>3. PICK k \in DOMAIN P : NetOrder(P[k]) /\ P[k].id = o
  BY <1>1 DEF Pending
<1>4. k \in DOMAIN Q \/ k = Len(Q) + 1
  BY <1>2
<1> QED
  BY <1>2, <1>3, <1>4 DEF Pending

\* A work order with a result keeps one.
LEMMA ResultKept ==
  ASSUME NEW D, NEW E, NEW w, Stored(D, E, w), NEW o, HasResult(D, o),
         w.t = "wo" /\ w.id = o => w.v.out # 0
  PROVE  HasResult(E, o)
<1>1. "wo" \in Types
  BY DEF Types
<1>2. o \in DOMAIN D["wo"] /\ D["wo"][o].out # 0
  BY DEF HasResult
<1>3. CASE w.t = "wo" /\ w.id = o
  BY <1>3 DEF Stored, HasResult
<1>4. CASE ~(w.t = "wo" /\ w.id = o)
  BY <1>1, <1>2, <1>4 DEF Stored, HasResult
<1> QED
  BY <1>3, <1>4

\* What a write must be that keeps OrdersOK.
OrderFits(D, Q, w, by) ==
  /\ w.t = "wo" =>
       /\ HasResult(D, w.id) => w.v.out # 0
       /\ Pending(Q, w.id) => w.v.out = 0
       /\ w.id \in DOMAIN D["wo"] /\ w.v.out = 0 => by = <<"wo", w.id, "df4">>
  /\ w.t = "wi" => ~Pending(Q, D["proc"][w.v.proc].parent)

\* A record that waits for its process belongs to a new work order.
LEMMA NewOrder ==
  ASSUME NEW D, NEW Q, NEW w, NEW by, DbOK(D), Fits(D, w), OrderFits(D, Q, w, by),
         NetOrder(RecordOf(D, w, by))
  PROVE  w.t = "wo" /\ w.v.out = 0 /\ w.id \notin DOMAIN D["wo"] /\ w.id # 0
<1>1. w.t = "wo" /\ by # <<"wo", w.id, "df4">> /\ w.v.out = 0
  BY RecordFields DEF NetOrder
<1>2. w.id # 0
  BY DEF Fits, Write, Ids
<1> QED
  BY <1>1, <1>2 DEF OrderFits

\* It keeps OrdersOK.
LEMMA OrdersKept ==
  ASSUME NEW D, NEW E, NEW Q, NEW w, NEW by \in Author, DbOK(D), QueueOK(D, Q), OrdersOK(D, Q),
         Fits(D, w), Stored(D, E, w), OrderFits(D, Q, w, by)
  PROVE  OrdersOK(E, Append(Q, RecordOf(D, w, by)))
<1>1. PICK r : r = RecordOf(D, w, by)
  OBVIOUS
<1>2. r.t = w.t /\ r.id = w.id /\ r.v = w.v /\ r.by = by /\ r \in Record
  BY <1>1, RecordFields, QueueKept
<1>3. PICK P : P = Append(Q, r)
  OBVIOUS
<1>4. Q \in Seq(Record)
  BY DEF QueueOK
<1>5. /\ DOMAIN Q = 1 .. Len(Q) /\ Len(Q) \in Nat /\ DOMAIN P = 1 .. (Len(Q) + 1)
      /\ \A k \in DOMAIN Q : P[k] = Q[k]
      /\ P[Len(Q) + 1] = r
  BY <1>2, <1>3, <1>4, AppendFacts
<1>6. "proc" \in Types /\ "wi" \in Types /\ "wo" \in Types /\ w.t \in Types /\ w.id \in Ids
  BY DEF Types, Fits, Write
<1>7. /\ \A p \in DOMAIN D["proc"] : E["proc"][p].parent = D["proc"][p].parent
      /\ \A x \in DOMAIN D["wi"] : E["wi"][x].proc = D["wi"][x].proc
  BY LinksKept
<1>8. /\ \A p \in DOMAIN D["proc"] : Above(D, D["proc"][p].parent)
      /\ \A x \in DOMAIN D["wi"] : D["wi"][x].proc \in DOMAIN D["proc"]
  BY DbFacts
<1>9. \A x \in DOMAIN D["wi"] : E["proc"][E["wi"][x].proc].parent = D["proc"][D["wi"][x].proc].parent
  BY <1>7, <1>8
<1>10. ASSUME NEW k \in DOMAIN Q
       PROVE  /\ P[k].t = "wo" /\ P[k].v.out # 0 => E["wo"][P[k].id].out # 0
              /\ NetOrder(P[k]) =>
                   /\ E["wo"][P[k].id].out = 0
                   /\ \A j \in DOMAIN P : P[j].t = "proc" /\ P[j].v.parent = P[k].id => k < j
                   /\ \A x \in DOMAIN E["wi"] : E["proc"][E["wi"][x].proc].parent # P[k].id
  <2>1. P[k] = Q[k] /\ Q[k].t \in Types /\ Q[k].id \in DOMAIN D[Q[k].t]
    BY <1>4, <1>5, Elements DEF QueueOK
  <2>2. ASSUME Q[k].t = "wo", Q[k].v.out # 0
        PROVE  E["wo"][Q[k].id].out # 0
    <3>1. HasResult(D, Q[k].id)
      BY <2>1, <2>2 DEF OrdersOK, HasResult
    <3>2. HasResult(E, Q[k].id)
      BY <3>1, ResultKept DEF OrderFits
    <3> QED
      BY <3>2 DEF HasResult
  <2>3. ASSUME NetOrder(Q[k])
        PROVE  /\ E["wo"][Q[k].id].out = 0
               /\ \A j \in DOMAIN P : P[j].t = "proc" /\ P[j].v.parent = Q[k].id => k < j
               /\ \A x \in DOMAIN E["wi"] : E["proc"][E["wi"][x].proc].parent # Q[k].id
    <3>1. /\ D["wo"][Q[k].id].out = 0
          /\ \A j \in DOMAIN Q : Q[j].t = "proc" /\ Q[j].v.parent = Q[k].id => k < j
          /\ \A x \in DOMAIN D["wi"] : D["proc"][D["wi"][x].proc].parent # Q[k].id
      BY <2>3 DEF OrdersOK
    <3>2. Pending(Q, Q[k].id) /\ Q[k].t = "wo"
      BY <2>3 DEF Pending, NetOrder
    <3>3. E["wo"][Q[k].id].out = 0
      <4>1. CASE w.t = "wo" /\ w.id = Q[k].id
        BY <4>1, <3>2 DEF OrderFits, Stored
      <4>2. CASE ~(w.t = "wo" /\ w.id = Q[k].id)
        BY <4>2, <3>1, <3>2, <2>1, <1>6 DEF Stored
      <4> QED
        BY <4>1, <4>2
    <3>4. \A j \in DOMAIN P : P[j].t = "proc" /\ P[j].v.parent = Q[k].id => k < j
      <4> TAKE j \in DOMAIN P
      <4>1. CASE j \in DOMAIN Q
        BY <4>1, <3>1, <1>5
      <4>2. CASE j = Len(Q) + 1
        BY <4>2, <1>5
      <4> QED
        BY <4>1, <4>2, <1>5
    <3>5. \A x \in DOMAIN E["wi"] : E["proc"][E["wi"][x].proc].parent # Q[k].id
      <4> TAKE x \in DOMAIN E["wi"]
      <4>1. CASE x \in DOMAIN D["wi"]
        BY <4>1, <3>1, <1>9
      <4>2. CASE x \notin DOMAIN D["wi"]
        <5>1. w.t = "wi" /\ E["wi"][x] = w.v
          BY <4>2, <1>6 DEF Stored
        <5>2. w.v.proc \in DOMAIN D["proc"]
          BY <5>1 DEF Fits, Good, Linked
        <5>3. D["proc"][w.v.proc].parent # Q[k].id
          BY <5>1, <3>2 DEF OrderFits
        <5> QED
          BY <5>1, <5>2, <5>3, <1>7
      <4> QED
        BY <4>1, <4>2
    <3> QED
      BY <3>3, <3>4, <3>5
  <2> QED
    BY <2>1, <2>2, <2>3
<1>11. r.t = "wo" /\ r.v.out # 0 => E["wo"][r.id].out # 0
  BY <1>2 DEF Stored
<1>12. ASSUME NetOrder(r)
       PROVE  /\ E["wo"][r.id].out = 0
              /\ \A j \in DOMAIN P : P[j].t = "proc" /\ P[j].v.parent = r.id => Len(Q) + 1 < j
              /\ \A x \in DOMAIN E["wi"] : E["proc"][E["wi"][x].proc].parent # r.id
  <2>1. w.t = "wo" /\ w.v.out = 0 /\ w.id \notin DOMAIN D["wo"] /\ w.id # 0
    BY <1>1, <1>12, NewOrder
  <2>2. E["wo"][r.id].out = 0
    BY <1>2, <2>1 DEF Stored
  <2>3. ASSUME NEW j \in DOMAIN P, P[j].t = "proc"
        PROVE  P[j].v.parent # r.id
    <3>1. j \in DOMAIN Q /\ P[j] = Q[j]
      <4>1. j # Len(Q) + 1
        BY <2>1, <2>3, <1>2, <1>5
      <4> QED
        BY <4>1, <1>5
    <3>2. Q[j].v.parent = 0 \/ Q[j].v.parent \in DOMAIN D["wo"]
      BY <3>1, <2>3 DEF QueueOK, Good, Linked, Above
    <3> QED
      BY <3>1, <3>2, <2>1, <1>2
  <2>4. ASSUME NEW x \in DOMAIN E["wi"]
        PROVE  E["proc"][E["wi"][x].proc].parent # r.id
    <3>1. x \in DOMAIN D["wi"]
      BY <2>1, <1>6 DEF Stored
    <3> QED
      BY <3>1, <2>1, <1>2, <1>8, <1>9 DEF Above
  <2> QED
    BY <2>2, <2>3, <2>4
<1>13. \A k \in DOMAIN P : k \in DOMAIN Q \/ k = Len(Q) + 1
  BY <1>5
<1>14. OrdersOK(E, P)
  <2> SUFFICES ASSUME NEW k \in DOMAIN P
               PROVE  /\ P[k].t = "wo" /\ P[k].v.out # 0 => E["wo"][P[k].id].out # 0
                      /\ NetOrder(P[k]) =>
                           /\ E["wo"][P[k].id].out = 0
                           /\ \A j \in DOMAIN P : P[j].t = "proc" /\ P[j].v.parent = P[k].id => k < j
                           /\ \A x \in DOMAIN E["wi"] : E["proc"][E["wi"][x].proc].parent # P[k].id
    BY DEF OrdersOK
  <2>1. CASE k \in DOMAIN Q
    BY <2>1, <1>10
  <2>2. CASE k = Len(Q) + 1
    <3>1. P[k] = r
      BY <2>2, <1>5
    <3> QED
      BY <3>1, <2>2, <1>11, <1>12
  <2> QED
    BY <2>1, <2>2, <1>13
<1> QED
  BY <1>1, <1>3, <1>14

\* What is left to send, after the first write.
LEMMA SendsTail ==
  ASSUME NEW D, NEW E, NEW Q, NEW T, NEW by \in Author, DbOK(D), QueueOK(D, Q), TodoOK(D, T),
         Q # <<>>, T # <<>>, Stored(D, E, T[1]), SendsOK(D, Q, T),
         OrderFits(D, Q, T[1], by)
  PROVE  SendsOK(E, Append(Q, RecordOf(D, T[1], by)), Tail(T))
<1>1. PICK w : w = T[1]
  OBVIOUS
<1>2. Fits(D, w) /\ Stored(D, E, w) /\ OrderFits(D, Q, w, by)
  BY <1>1, HeadFits
<1>3. PICK r : r = RecordOf(D, w, by)
  OBVIOUS
<1>4. r.t = w.t /\ r.id = w.id /\ r.v = w.v /\ r \in Record /\ Q \in Seq(Record)
  BY <1>2, <1>3, RecordFields, QueueKept DEF QueueOK
<1>5. PICK P : P = Append(Q, r)
  OBVIOUS
<1>6. P[1] = Q[1]
  BY <1>4, <1>5
<1>7. PICK U : U = Tail(T)
  OBVIOUS
<1>8. T \in Seq(Write)
  BY DEF TodoOK
<1>9. /\ DOMAIN T = 1 .. Len(T) /\ Len(T) \in Nat /\ DOMAIN U = 1 .. (Len(T) - 1)
      /\ \A k \in DOMAIN U : k + 1 \in DOMAIN T /\ U[k] = T[k + 1]
      /\ 1 \in DOMAIN T
  BY <1>7, <1>8, TailFacts
<1>10. "proc" \in Types /\ "wi" \in Types /\ "wo" \in Types /\ w.t \in Types
  BY <1>2 DEF Types, Fits, Write
<1>11. \A o : Pending(P, o) => Pending(Q, o) \/ (NetOrder(r) /\ r.id = o)
  BY <1>4, <1>5, PendingAppend
<1>12. NetOrder(r) => w.t = "wo" /\ w.v.out = 0 /\ w.id \notin DOMAIN D["wo"] /\ w.id # 0
  BY <1>2, <1>3, NewOrder
<1>13. \A k \in DOMAIN U : U[k].t \in Types /\ U[k].id \in Ids
  BY <1>8, <1>9, Elements
<1>14. ASSUME NEW k \in DOMAIN U, U[k].t = "wo"
       PROVE  OrderSent(E, P, U, k)
  <2>1. k + 1 \in DOMAIN T /\ U[k] = T[k + 1] /\ OrderSent(D, Q, T, k + 1)
    BY <1>9, <1>14 DEF SendsOK
  <2>2. \A j \in DOMAIN U : U[j].t = "wo" /\ U[j].id = U[k].id => U[j].v.out = U[k].v.out
    BY <2>1, <1>9 DEF OrderSent
  <2>3. w.t = "wo" /\ w.id = U[k].id => w.v.out = U[k].v.out
    BY <2>1, <1>1, <1>9 DEF OrderSent
  <2>4. HasResult(E, U[k].id) => U[k].v.out # 0
    <3>1. CASE w.t = "wo" /\ w.id = U[k].id
      BY <3>1, <2>3, <1>2 DEF HasResult, Stored
    <3>2. CASE ~(w.t = "wo" /\ w.id = U[k].id)
      <4>1. HasResult(E, U[k].id) => HasResult(D, U[k].id)
        BY <3>2, <1>2, <1>10 DEF HasResult, Stored
      <4> QED
        BY <4>1, <2>1 DEF OrderSent
    <3> QED
      BY <3>1, <3>2
  <2>5. ASSUME U[k].id \in DOMAIN E["wo"], U[k].v.out = 0
        PROVE  P[1].t = "wo" /\ P[1].id = U[k].id
    <3>1. U[k].id \in DOMAIN D["wo"]
      <4> SUFFICES ASSUME U[k].id \notin DOMAIN D["wo"] PROVE FALSE
        OBVIOUS
      <4>1. w.t = "wo" /\ w.id = U[k].id
        BY <2>5, <1>2, <1>10 DEF Stored
      <4>2. Fresh(D, T[k + 1])
        <5>1. DOMAIN D["wo"] = 1 .. Len(D["wo"]) /\ Len(D["wo"]) \in Nat
          BY <1>10, DbFacts
        <5> QED
          BY <5>1, <2>1, <1>13, <1>14 DEF Fresh, Ids
      <4>3. Turn(D, T, k + 1) /\ 1 < k + 1
        BY <4>2, <2>1, <1>9 DEF TodoOK, InLine
      <4> QED
        BY <4>1, <4>3, <2>1, <1>1, <1>9, <1>14 DEF Turn
    <3> QED
      BY <3>1, <2>1, <2>5, <1>6 DEF OrderSent
  <2>6. ASSUME Pending(P, U[k].id)
        PROVE  U[k].v.out = 0
    <3>1. CASE Pending(Q, U[k].id)
      BY <3>1, <2>1 DEF OrderSent
    <3>2. CASE NetOrder(r) /\ r.id = U[k].id
      BY <3>2, <2>3, <1>4, <1>12
    <3> QED
      BY <3>1, <3>2, <2>6, <1>11
  <2> QED
    BY <2>2, <2>4, <2>5, <2>6 DEF OrderSent
<1>15. ASSUME NEW k \in DOMAIN U, U[k].t = "wi"
       PROVE  ItemSent(E, P, U, k)
  <2>1. k + 1 \in DOMAIN T /\ U[k] = T[k + 1] /\ ItemSent(D, Q, T, k + 1)
    BY <1>9, <1>15 DEF SendsOK
  <2>2. U[k].v.proc \in DOMAIN D["proc"]
    BY <2>1, <1>15 DEF TodoOK, Good, Linked
  <2>3. /\ E["proc"][U[k].v.proc].parent = D["proc"][U[k].v.proc].parent
        /\ \/ D["proc"][U[k].v.proc].parent = 0
           \/ D["proc"][U[k].v.proc].parent \in DOMAIN D["wo"]
    BY <2>2, <1>2, LinksKept, DbFacts DEF Above
  <2>4. ~Pending(P, E["proc"][U[k].v.proc].parent)
    <3>1. ~Pending(Q, E["proc"][U[k].v.proc].parent)
      BY <2>1, <2>3 DEF ItemSent
    <3>2. ~(NetOrder(r) /\ r.id = E["proc"][U[k].v.proc].parent)
      BY <2>3, <1>4, <1>12
    <3> QED
      BY <3>1, <3>2, <1>11
  <2>5. ASSUME U[k].v.done, Net[U[k].v.elem].kind = "task", NEW o \in ToSet(U[k].v.wol)
        PROVE  \/ HasResult(E, o)
               \/ \E j \in DOMAIN U : j < k /\ U[j].t = "wo" /\ U[j].id = o /\ U[j].v.out # 0
    <3>1. CASE HasResult(D, o)
      <4>1. w.t = "wo" /\ w.id = o => w.v.out # 0
        BY <3>1, <1>2 DEF OrderFits
      <4> QED
        BY <4>1, <3>1, <1>2, ResultKept
    <3>2. CASE ~HasResult(D, o)
      <4>1. PICK j \in DOMAIN T : j < k + 1 /\ T[j].t = "wo" /\ T[j].id = o /\ T[j].v.out # 0
        BY <3>2, <2>1, <2>5 DEF ItemSent
      <4>2. CASE j = 1
        <5>1. w.t = "wo" /\ w.id = o /\ w.v.out # 0
          BY <4>1, <4>2, <1>1
        <5> QED
          BY <5>1, <1>2 DEF Stored, HasResult
      <4>3. CASE j # 1
        <5>1. j - 1 \in DOMAIN U /\ j - 1 < k /\ U[j - 1] = T[j]
          <6>1. j - 1 \in DOMAIN U /\ j - 1 < k /\ j - 1 + 1 = j
            BY <4>1, <4>3, <1>9
          <6> QED
            BY <6>1, <1>9
        <5> QED
          BY <5>1, <4>1
      <4> QED
        BY <4>2, <4>3
    <3> QED
      BY <3>1, <3>2
  <2> QED
    BY <2>4, <2>5 DEF ItemSent
<1>16. SendsOK(E, P, U)
  BY <1>14, <1>15 DEF SendsOK
<1> QED
  BY <1>1, <1>3, <1>5, <1>7, <1>16

\* The same when a user writes, who writes to no work order or work item.
LEMMA SendsUser ==
  ASSUME NEW D, NEW E, NEW Q, NEW T, NEW w, NEW by \in Author, DbOK(D), QueueOK(D, Q),
         TodoOK(D, T), T # <<>> => Q # <<>>, Fits(D, w), Stored(D, E, w), SendsOK(D, Q, T),
         w.t # "wo", w.t # "wi"
  PROVE  SendsOK(E, Append(Q, RecordOf(D, w, by)), T)
<1>1. PICK r : r = RecordOf(D, w, by)
  OBVIOUS
<1>2. r.t = w.t /\ r \in Record /\ Q \in Seq(Record)
  BY <1>1, RecordFields, QueueKept DEF QueueOK
<1>3. PICK P : P = Append(Q, r)
  OBVIOUS
<1>4. Q # <<>> => P[1] = Q[1]
  BY <1>2, <1>3
<1>5. \A o : Pending(P, o) => Pending(Q, o)
  BY <1>2, <1>3, PendingAppend DEF NetOrder
<1>6. "wo" \in Types
  BY DEF Types
<1>7. \A o : HasResult(E, o) <=> HasResult(D, o)
  BY <1>6 DEF HasResult, Stored
<1>8. ASSUME NEW k \in DOMAIN T
      PROVE  /\ T[k].t = "wo" => OrderSent(E, P, T, k)
             /\ T[k].t = "wi" => ItemSent(E, P, T, k)
  <2>1. P[1] = Q[1]
    <3>1. T # <<>>
      OBVIOUS
    <3> QED
      BY <3>1, <1>4
  <2>2. ASSUME T[k].t = "wo"
        PROVE  OrderSent(E, P, T, k)
    <3>1. OrderSent(D, Q, T, k)
      BY <2>2 DEF SendsOK
    <3>2. T[k].id \in DOMAIN E["wo"] => T[k].id \in DOMAIN D["wo"]
      BY <1>6 DEF Stored
    <3> QED
      BY <3>1, <3>2, <2>1, <1>5, <1>7 DEF OrderSent
  <2>3. ASSUME T[k].t = "wi"
        PROVE  ItemSent(E, P, T, k)
    <3>1. ItemSent(D, Q, T, k)
      BY <2>3 DEF SendsOK
    <3>2. T[k].v.proc \in DOMAIN D["proc"]
      BY <2>3 DEF TodoOK, Good, Linked
    <3>3. E["proc"][T[k].v.proc].parent = D["proc"][T[k].v.proc].parent
      BY <3>2, LinksKept
    <3> QED
      BY <3>1, <3>3, <1>5, <1>7 DEF ItemSent
  <2> QED
    BY <2>2, <2>3
<1>9. SendsOK(E, P, T)
  BY <1>8 DEF SendsOK
<1> QED
  BY <1>1, <1>3, <1>9

\* The queue without its first record.
LEMMA OrdersTail ==
  ASSUME NEW D, NEW Q \in Seq(Record), OrdersOK(D, Q), Q # <<>>
  PROVE  OrdersOK(D, Tail(Q))
<1>1. PICK P : P = Tail(Q)
  OBVIOUS
<1>2. /\ DOMAIN Q = 1 .. Len(Q) /\ Len(Q) \in Nat /\ DOMAIN P = 1 .. (Len(Q) - 1)
      /\ \A k \in DOMAIN P : k + 1 \in DOMAIN Q /\ P[k] = Q[k + 1]
  BY <1>1, TailFacts
<1>3. ASSUME NEW k \in DOMAIN P
      PROVE  /\ P[k].t = "wo" /\ P[k].v.out # 0 => D["wo"][P[k].id].out # 0
             /\ NetOrder(P[k]) =>
                  /\ D["wo"][P[k].id].out = 0
                  /\ \A j \in DOMAIN P : P[j].t = "proc" /\ P[j].v.parent = P[k].id => k < j
                  /\ \A x \in DOMAIN D["wi"] : D["proc"][D["wi"][x].proc].parent # P[k].id
  <2>1. k + 1 \in DOMAIN Q /\ P[k] = Q[k + 1]
    BY <1>2
  <2>2. NetOrder(P[k]) =>
          \A j \in DOMAIN P : P[j].t = "proc" /\ P[j].v.parent = P[k].id => k + 1 < j + 1
    BY <2>1, <1>2 DEF OrdersOK
  <2>3. \A j \in DOMAIN P : k + 1 < j + 1 => k < j
    BY <1>2
  <2> QED
    BY <2>1, <2>2, <2>3 DEF OrdersOK
<1>4. OrdersOK(D, P)
  BY <1>3 DEF OrdersOK
<1> QED
  BY <1>1, <1>4

\* The writes of one script to a work order have the same result.
LEMMA SameOut ==
  ASSUME NEW D, DbOK(D), NEW r, IsRecord(D, r), NEW x \in Items(D, r), NEW y \in Items(D, r),
         x.t = "wo", y.t = "wo", x.id = y.id
  PROVE  x.v.out = y.v.out
<1>1. WoItem(D, r, x) /\ WoItem(D, r, y) /\ (Fresh(D, x) <=> Fresh(D, y))
  BY DEF Items, Item, Fresh
<1>2. x \in Write /\ y \in Write
  BY DEF Items
<1>3. x.id \in DOMAIN D["wo"] => ~Fresh(D, x) /\ ~Fresh(D, y)
  BY <1>2, MakesFacts
<1>4. r.t \in {"form", "proc", "wi", "wo", "df"}
  BY RecordFacts DEF Types
<1>5. CASE r.t = "wi"
  BY <1>1, <1>3, <1>5 DEF WoItem
<1>6. CASE r.t = "wo"
  BY <1>1, <1>6 DEF WoItem, Codelet, Nets
<1>7. CASE r.t = "df"
  BY <1>1, <1>7 DEF WoItem
<1> QED
  BY <1>1, <1>4, <1>5, <1>6, <1>7 DEF WoItem

\* A work order that waits is one of a net, and below it there is nothing.
LEMMA PendingFacts ==
  ASSUME NEW D, DbOK(D), NEW Q, QueueOK(D, Q), OrdersOK(D, Q), NEW o, Pending(Q, o)
  PROVE  /\ o \in DOMAIN D["wo"] /\ D["wo"][o].executor \in Nets /\ D["wo"][o].out = 0
         /\ \A x \in DOMAIN D["wi"] : D["proc"][D["wi"][x].proc].parent # o
         /\ Q[1].t = "proc" => Q[1].v.parent # o
<1>1. PICK k \in DOMAIN Q : NetOrder(Q[k]) /\ Q[k].id = o
  BY DEF Pending
<1>2. Q[k].t = "wo" /\ Q[k].v.executor \in Nets
  BY <1>1 DEF NetOrder
<1>3. o \in DOMAIN D["wo"] /\ D["wo"][o].executor = Q[k].v.executor
  BY <1>1, <1>2 DEF QueueOK, Good, Same
<1>4. /\ D["wo"][o].out = 0
      /\ \A j \in DOMAIN Q : Q[j].t = "proc" /\ Q[j].v.parent = o => k < j
      /\ \A x \in DOMAIN D["wi"] : D["proc"][D["wi"][x].proc].parent # o
  BY <1>1 DEF OrdersOK
<1>5. Q \in Seq(Record)
  BY DEF QueueOK
<1>6. 1 \in DOMAIN Q /\ ~(k < 1)
  BY <1>5
<1> QED
  BY <1>2, <1>3, <1>4, <1>6

\* What a script writes to work orders.
LEMMA RunOrders ==
  ASSUME TInv, OrdersOK(db, queue), queue # <<>>, NEW r, r = queue[1], Triggered(r),
         NEW T, List(db, r, T), NEW k \in DOMAIN T, T[k].t = "wo"
  PROVE  OrderSent(db, queue, T, k)
<1>1. IsRecord(db, r) /\ DbOK(db) /\ QueueOK(db, queue) /\ 1 \in DOMAIN queue
  BY HeadRecord DEF TInv
<1>2. \A j \in DOMAIN T : T[j] \in Items(db, r)
  BY DEF List
<1>3. PICK x : x = T[k]
  OBVIOUS
<1>4. x \in Items(db, r) /\ x.t = "wo"
  BY <1>2, <1>3
<1>5. WoItem(db, r, x) /\ Good(db, "wo", x.id, x.v) /\ x \in Write
  BY <1>4 DEF Items, Item
<1>6. x.id \in DOMAIN db["wo"] => ~Fresh(db, x)
  BY <1>4, <1>5, <1>1, MakesFacts
<1>7. \A j \in DOMAIN T : T[j].t = "wo" /\ T[j].id = T[k].id => T[j].v.out = T[k].v.out
  BY <1>1, <1>2, SameOut
<1>8. ASSUME HasResult(db, x.id)
      PROVE  x.v.out # 0
  <2>1. x.id \in DOMAIN db["wo"] /\ db["wo"][x.id].out # 0
    BY <1>8 DEF HasResult
  <2>2. CASE r.t = "wo" /\ r.v.executor \in Nets /\ r.v.out = 0 /\ x.id = r.id
    <3>1. r.by # <<"wo", r.id, "df4">>
      BY <2>2 DEF Triggered, Script
    <3>2. NetOrder(queue[1])
      BY <3>1, <2>2 DEF NetOrder
    <3>3. db["wo"][r.id].out = 0
      BY <3>2, <1>1 DEF OrdersOK
    <3> QED
      BY <3>3, <2>1, <2>2
  <2>3. CASE ~(r.t = "wo" /\ r.v.executor \in Nets /\ r.v.out = 0 /\ x.id = r.id)
    BY <2>1, <2>3, <1>5, <1>6 DEF WoItem
  <2> QED
    BY <2>2, <2>3
<1>9. x.id \in DOMAIN db["wo"] /\ x.v.out = 0 => queue[1].t = "wo" /\ queue[1].id = x.id
  BY <1>5, <1>6 DEF WoItem
<1>10. ASSUME Pending(queue, x.id)
       PROVE  x.v.out = 0
  <2>1. /\ x.id \in DOMAIN db["wo"] /\ db["wo"][x.id].executor \in Nets
        /\ \A y \in DOMAIN db["wi"] : db["proc"][db["wi"][y].proc].parent # x.id
    BY <1>1, <1>10, PendingFacts
  <2>2. CASE r.t = "wo"
    <3>1. x.id = r.id
      BY <2>1, <2>2, <1>5, <1>6 DEF WoItem
    <3>2. r.v.executor \in Nets
      BY <3>1, <2>1, <2>2, <1>1, RecordFacts DEF Same
    <3> QED
      BY <3>2, <2>2, <1>5 DEF WoItem, Codelet, Nets
  <2>3. CASE r.t = "wi"
    <3>1. r.id \in DOMAIN db["wi"] /\ db["wi"][r.id].proc = r.v.proc
      BY <2>3, <1>1, RecordFacts DEF Same
    <3> QED
      BY <3>1, <2>1, <2>3, <1>5 DEF WoItem
  <2>4. CASE r.t = "df"
    <3>1. db["wo"][r.v.wo].executor \in Users
      BY <2>4, <1>1, RecordFacts
    <3> QED
      BY <3>1, <2>1, <2>4, <1>5 DEF WoItem, Nets
  <2> QED
    BY <2>2, <2>3, <2>4, <1>5 DEF WoItem
<1> QED
  BY <1>3, <1>7, <1>8, <1>9, <1>10 DEF OrderSent

\* What a script writes to work items.
LEMMA RunItems ==
  ASSUME TInv, OrdersOK(db, queue), queue # <<>>, NEW r, r = queue[1],
         NEW T, List(db, r, T), T = Writes(r), NEW k \in DOMAIN T, T[k].t = "wi"
  PROVE  ItemSent(db, queue, T, k)
<1>1. IsRecord(db, r) /\ DbOK(db) /\ QueueOK(db, queue) /\ 1 \in DOMAIN queue
  BY HeadRecord DEF TInv
<1>2. PICK x : x = T[k]
  OBVIOUS
<1>3. x \in Items(db, r) /\ x.t = "wi"
  BY <1>2 DEF List
<1>4. WiItem(db, r, x) /\ Good(db, "wi", x.id, x.v) /\ x \in Write
  BY <1>3 DEF Items, Item
<1>5. ASSUME Pending(queue, db["proc"][x.v.proc].parent)
      PROVE  FALSE
  <2>1. PICK o : o = db["proc"][x.v.proc].parent
    OBVIOUS
  <2>2. /\ \A y \in DOMAIN db["wi"] : db["proc"][db["wi"][y].proc].parent # o
        /\ r.t = "proc" => r.v.parent # o
    BY <2>1, <1>1, <1>5, PendingFacts
  <2>3. \A y \in DOMAIN db["wi"] : db["wi"][y].proc # x.v.proc
    BY <2>1, <2>2
  <2>4. x.id \notin DOMAIN db["wi"]
    BY <2>3, <1>4 DEF Good, Same
  <2>5. CASE r.t = "proc"
    <3>1. x.v.proc = r.id
      BY <2>5, <1>4 DEF WiItem
    <3>2. r.v.parent = db["proc"][r.id].parent
      BY <2>5, <1>1, RecordFacts DEF Same
    <3> QED
      BY <3>1, <3>2, <2>1, <2>2, <2>5
  <2>6. CASE r.t = "wi"
    <3>1. r.id \in DOMAIN db["wi"] /\ db["wi"][r.id].proc = r.v.proc
      BY <2>6, <1>1, RecordFacts DEF Same
    <3> QED
      BY <3>1, <2>3, <2>4, <2>6, <1>4 DEF WiItem
  <2>7. CASE r.t = "wo"
    <3>1. r.v.wi \in DOMAIN db["wi"]
      BY <2>7, <1>1, RecordFacts
    <3> QED
      BY <3>1, <2>3, <2>4, <2>7, <1>4 DEF WiItem
  <2> QED
    BY <2>5, <2>6, <2>7, <1>4 DEF WiItem
<1>6. ASSUME x.v.done, Net[x.v.elem].kind = "task", NEW o \in ToSet(x.v.wol)
      PROVE  \/ HasResult(db, o)
             \/ \E j \in DOMAIN T : j < k /\ T[j].t = "wo" /\ T[j].id = o /\ T[j].v.out # 0
  <2>1. r.t = "wo" /\ Resulted(db, r, o)
    BY <1>4, <1>6 DEF WiItem
  <2>2. CASE o # r.id
    BY <2>1, <2>2 DEF Resulted, HasResult
  <2>3. CASE o = r.id /\ r.v.out # 0
    <3>1. o \in DOMAIN db["wo"]
      BY <2>1, <2>3, <1>1, RecordFacts
    <3> QED
      BY <3>1, <2>1, <2>3, <1>1 DEF OrdersOK, HasResult
  <2>4. CASE o = r.id /\ r.v.out = 0
    <3>1. Codelet(r.v.executor)
      BY <2>1, <2>4 DEF Resulted
    <3>2. T = prepare_work_order(r.id, r.v) /\ T # <<>>
      BY <2>1 DEF Writes
    <3>3. PICK j \in DOMAIN T : /\ T[j].t = "wo" /\ T[j].id = r.id /\ T[j].v.out = 1
                                /\ \A i \in DOMAIN T : T[i].t = "wi" => j < i
      BY <3>1, <3>2, <2>1, <2>4, <1>1, WorkOrderList
    <3>4. j < k
      BY <3>3
    <3> QED
      BY <3>3, <3>4, <2>4
  <2> QED
    BY <2>2, <2>3, <2>4
<1> QED
  BY <1>2, <1>5, <1>6 DEF ItemSent

\* The tasks that are left, after a write.
LEMMA LeftKept ==
  ASSUME NEW D, NEW E, NEW w, Stored(D, E, w), Left(D), w.t = "wo" /\ HasResult(D, w.id) => w.v.out # 0,
         w.t = "wi" /\ w.v.done /\ Net[w.v.elem].kind = "task" =>
           \A o \in ToSet(w.v.wol) : HasResult(D, o)
  PROVE  Left(E)
<1>1. \A o : HasResult(D, o) => HasResult(E, o)
  BY ResultKept
<1>2. "wi" \in Types
  BY DEF Types
<1>3. ASSUME NEW x \in DOMAIN E["wi"], E["wi"][x].done, Net[E["wi"][x].elem].kind = "task"
      PROVE  \A o \in ToSet(E["wi"][x].wol) : HasResult(D, o)
  <2>1. CASE w.t = "wi" /\ x = w.id
    BY <2>1, <1>3 DEF Stored
  <2>2. CASE ~(w.t = "wi" /\ x = w.id)
    <3>1. x \in DOMAIN D["wi"] /\ E["wi"][x] = D["wi"][x]
      BY <2>2, <1>2 DEF Stored
    <3> QED
      BY <3>1, <1>3 DEF Left
  <2> QED
    BY <2>1, <2>2
<1> QED
  BY <1>1, <1>3 DEF Left

\* The invariant holds initially.
LEMMA LInvInit ==
  ASSUME Init
  PROVE  LInv
<1>1. TInv
  BY TInvInit
<1>2. queue = <<>> /\ todo = <<>> /\ db["wi"] = <<>>
  BY DEF Init
<1>3. DOMAIN (<< >>) = {}
  OBVIOUS
<1> QED
  BY <1>1, <1>2, <1>3 DEF LInv, OrdersOK, SendsOK, Left

\* Every step keeps it.
LEMMA LInvNext ==
  ASSUME LInv, [Next]_vars
  PROVE  LInv'
<1>1. TInv /\ OrdersOK(db, queue) /\ SendsOK(db, queue, todo) /\ Left(db)
  BY DEF LInv
<1>2. TInv'
  BY <1>1, TInvNext
<1>3. DbOK(db) /\ QueueOK(db, queue) /\ TodoOK(db, todo) /\ queue \in Seq(Record)
  BY <1>1 DEF TInv, QueueOK
<1>4. SUFFICES OrdersOK(db', queue') /\ SendsOK(db', queue', todo') /\ Left(db')
  BY <1>2 DEF LInv
<1>5. \A Q : SendsOK(db, Q, <<>>)
  <2>1. DOMAIN (<< >>) = {}
    OBVIOUS
  <2> QED
    BY <2>1 DEF SendsOK
<1>6. CASE Run
  <2>1. /\ queue # <<>> /\ db' = db /\ List(db, queue[1], todo')
        /\ todo' = <<>> \/ (Triggered(queue[1]) /\ todo' = Writes(queue[1]))
        /\ queue' = IF todo' = <<>> THEN Tail(queue) ELSE queue
    BY <1>1, <1>6, RunFacts
  <2>2. CASE todo' = <<>>
    BY <2>1, <2>2, <1>1, <1>3, <1>5, OrdersTail
  <2>3. CASE todo' # <<>>
    <3>1. PICK T : T = todo'
      OBVIOUS
    <3>2. PICK r : r = queue[1]
      OBVIOUS
    <3>3. /\ List(db, r, T) /\ Triggered(r) /\ T = Writes(r) /\ queue' = queue
      BY <2>1, <2>3, <3>1, <3>2
    <3>4. \A k \in DOMAIN T : /\ T[k].t = "wo" => OrderSent(db, queue, T, k)
                              /\ T[k].t = "wi" => ItemSent(db, queue, T, k)
      BY <3>2, <3>3, <2>1, <1>1, RunOrders, RunItems
    <3>5. SendsOK(db, queue, T)
      BY <3>4 DEF SendsOK
    <3> QED
      BY <3>1, <3>3, <3>5, <2>1, <1>1
  <2> QED
    BY <2>2, <2>3
<1>7. CASE CommitItem
  <2>1. PICK by : by = By(queue[1])
    OBVIOUS
  <2>2. PICK w : w = todo[1]
    OBVIOUS
  <2>3. /\ todo # <<>> /\ queue # <<>> /\ by \in Author /\ todo' = Tail(todo)
        /\ Fits(db, w) /\ Stored(db, db', w)
        /\ queue' = Append(queue, RecordOf(db, w, by))
    BY <2>1, <2>2, <1>1, <1>7, CommitFacts
  <2>4. 1 \in DOMAIN todo /\ \A j \in DOMAIN todo : ~(j < 1)
    BY <2>3, <1>3 DEF TodoOK
  <2>5. /\ w.t = "wo" => OrderSent(db, queue, todo, 1)
        /\ w.t = "wi" => ItemSent(db, queue, todo, 1)
    BY <2>2, <2>4, <1>1 DEF SendsOK
  <2>6. OrderFits(db, queue, w, by)
    <3>1. ASSUME w.t = "wo", w.id \in DOMAIN db["wo"], w.v.out = 0
          PROVE  by = <<"wo", w.id, "df4">>
      <4>1. queue[1].t = "wo" /\ queue[1].id = w.id
        BY <3>1, <2>2, <2>5 DEF OrderSent
      <4> QED
        BY <4>1, <2>1 DEF By, Script
    <3> QED
      BY <3>1, <2>2, <2>5 DEF OrderFits, OrderSent, ItemSent
  <2>7. OrdersOK(db', queue')
    BY <2>3, <2>6, <1>1, <1>3, OrdersKept
  <2>8. SendsOK(db', queue', todo')
    BY <2>2, <2>3, <2>6, <1>1, <1>3, SendsTail
  <2>9. Left(db')
    <3>1. w.t = "wi" /\ w.v.done /\ Net[w.v.elem].kind = "task" =>
            \A o \in ToSet(w.v.wol) : HasResult(db, o)
      BY <2>2, <2>4, <2>5 DEF ItemSent
    <3>2. w.t = "wo" /\ HasResult(db, w.id) => w.v.out # 0
      BY <2>6 DEF OrderFits
    <3> QED
      BY <3>1, <3>2, <2>3, <1>1, LeftKept
  <2> QED
    BY <2>7, <2>8, <2>9
<1>8. CASE Finish
  <2>1. running /\ todo = <<>> /\ queue' = Tail(queue) /\ db' = db /\ todo' = todo
    BY <1>8 DEF Finish
  <2>2. OrdersOK(db, Tail(queue))
    BY <2>1, <1>1, <1>3, OrdersTail DEF TInv
  <2> QED
    BY <2>1, <2>2, <1>1, <1>5
<1>9. CASE Crash
  <2>1. queue' = queue /\ todo' = <<>> /\ db' = db
    BY <1>9 DEF Crash
  <2> QED
    BY <2>1, <1>1, <1>5
<1>10. CASE \/ Send
            \/ \E f \in DOMAIN db.df, v \in Results \cup {0} : Answer(f, v)
            \/ \E p \in DOMAIN db.proc : Stop(p)
  <2>1. PICK w : UserStep(w)
    BY <1>1, <1>10, UserFacts
  <2>2. /\ Fits(db, w) /\ Stored(db, db', w) /\ w.t # "wo" /\ w.t # "wi"
        /\ queue' = Append(queue, RecordOf(db, w, User)) /\ todo' = todo
    BY <2>1 DEF UserStep, ByUser
  <2>3. User \in Author /\ OrderFits(db, queue, w, User)
    BY <2>2 DEF User, Author, OrderFits
  <2>4. OrdersOK(db', queue')
    BY <2>2, <2>3, <1>1, <1>3, OrdersKept
  <2>5. SendsOK(db', queue', todo')
    <3>1. todo # <<>> => queue # <<>>
      BY <1>1 DEF TInv
    <3> QED
      BY <3>1, <2>2, <2>3, <1>1, <1>3, SendsUser
  <2>6. Left(db')
    BY <2>2, <1>1, LeftKept
  <2> QED
    BY <2>4, <2>5, <2>6
<1>11. CASE UNCHANGED vars
  BY <1>1, <1>11 DEF vars
<1> QED
  BY <1>6, <1>7, <1>8, <1>9, <1>10, <1>11 DEF Next

\* A task is left only when all its executors have given their results
\* (LeftByAll), for every net, with users that answer while the scripts run and
\* crashes wherever they come: the work order of a net that is written by the
\* snapshot of its record has no result that the write could take back.
THEOREM LeftByAllTheorem == Spec => []LeftByAll
<1>1. Init => LInv
  BY LInvInit
<1>2. LInv /\ [Next]_vars => LInv'
  BY LInvNext
<1>3. LInv => LeftByAll
  BY DEF LInv, Left, HasResult, LeftByAll
<1> QED
  BY <1>1, <1>2, <1>3, PTL DEF Spec
-----------------------------------------------------------------------------
(***************************************************************************)
(* A stop is not lost.                                                     *)
(***************************************************************************)

\* A new individual that is still to be sent is new after the first write too.
LEMMA StillFresh ==
  ASSUME NEW D, NEW E, NEW T, DbOK(D), TodoOK(D, T), T # <<>>, Stored(D, E, T[1]),
         NEW k \in DOMAIN T, k # 1, T[k].id \notin DOMAIN D[T[k].t]
  PROVE  T[k].id \notin DOMAIN E[T[k].t]
<1>1. T \in Seq(Write)
  BY DEF TodoOK
<1>2. T[k].t \in Types /\ T[k].id \in Ids /\ 1 \in DOMAIN T /\ 1 < k
  BY <1>1, Elements, TailFacts
<1>3. DOMAIN D[T[k].t] = 1 .. Len(D[T[k].t]) /\ Len(D[T[k].t]) \in Nat
  BY <1>2, DbFacts
<1>4. Fresh(D, T[k])
  BY <1>2, <1>3 DEF Fresh, Ids
<1>5. Turn(D, T, k)
  BY <1>4 DEF TodoOK, InLine
<1>6. T[1].t = T[k].t => T[1].id # T[k].id
  BY <1>2, <1>5 DEF Turn
<1> QED
  BY <1>2, <1>6 DEF Stored

\* A write that is stored: a stop in it is behind all records.
LEMMA HoldsKept ==
  ASSUME NEW D, NEW E, NEW Q, NEW U, NEW w, NEW by \in Author, DbOK(D), QueueOK(D, Q),
         Fits(D, w), Stored(D, E, w), BehindOK(D, Q), UndoesOK(D, Q, U),
         \A k \in DOMAIN U : U[k].t = "proc" /\ U[k].id \in DOMAIN E["proc"] =>
                               Q # <<>> /\ U[k].id \in DOMAIN D["proc"]
  PROVE  /\ BehindOK(E, Append(Q, RecordOf(D, w, by)))
         /\ UndoesOK(E, Append(Q, RecordOf(D, w, by)), U)
<1>1. PICK r : r = RecordOf(D, w, by)
  OBVIOUS
<1>2. r.t = w.t /\ r.id = w.id /\ r.v = w.v /\ r \in Record /\ Q \in Seq(Record)
  BY <1>1, RecordFields, QueueKept DEF QueueOK
<1>3. PICK P : P = Append(Q, r)
  OBVIOUS
<1>4. PICK n : n = Len(Q)
  OBVIOUS
<1>5. /\ DOMAIN Q = 1 .. n /\ n \in Nat /\ DOMAIN P = 1 .. (n + 1)
      /\ \A k \in DOMAIN Q : P[k] = Q[k] /\ k < n + 1
      /\ P[n + 1] = r /\ n + 1 \in DOMAIN P
      /\ Q # <<>> => 1 < n + 1
  BY <1>2, <1>3, <1>4, AppendFacts
<1>6. "proc" \in Types
  BY DEF Types
<1>7. ASSUME NEW p \in DOMAIN D["proc"], E["proc"][p].stopped
      PROVE  D["proc"][p].stopped \/ StopOf(r, p)
  <2>1. CASE w.t = "proc" /\ w.id = p
    <3>1. ~(w.id > Len(D[w.t])) /\ E["proc"][p] = w.v
      BY <2>1, <1>6, DbFacts DEF Stored
    <3>2. r.was = D["proc"][p]
      BY <2>1, <3>1, <1>1 DEF RecordOf
    <3> QED
      BY <2>1, <3>1, <3>2, <1>2, <1>7 DEF StopOf
  <2>2. CASE ~(w.t = "proc" /\ w.id = p)
    BY <2>2, <1>6, <1>7 DEF Stored
  <2> QED
    BY <2>1, <2>2
<1>8. ASSUME NEW k \in DOMAIN P, Opens(P[k]), E["proc"][P[k].id].stopped
      PROVE  \E j \in DOMAIN P : k < j /\ StopOf(P[j], P[k].id)
  <2>1. k \in DOMAIN Q
    <3>1. CASE k = n + 1
      BY <3>1, <1>2, <1>5, <1>8 DEF Opens, Stored
    <3>2. CASE k # n + 1
      BY <3>2, <1>5
    <3> QED
      BY <3>1, <3>2
  <2>2. P[k] = Q[k] /\ k < n + 1 /\ P[k].id \in DOMAIN D["proc"]
    BY <2>1, <1>5, <1>8 DEF QueueOK, Opens
  <2>3. CASE D["proc"][P[k].id].stopped
    <3>1. PICK j \in DOMAIN Q : k < j /\ StopOf(Q[j], Q[k].id)
      BY <2>1, <2>2, <2>3, <1>8 DEF BehindOK
    <3>2. j \in DOMAIN P /\ P[j] = Q[j]
      BY <1>5
    <3> QED
      BY <3>1, <3>2, <2>2
  <2>4. CASE StopOf(r, P[k].id)
    BY <2>2, <2>4, <1>5
  <2> QED
    BY <2>2, <2>3, <2>4, <1>7, <1>8
<1>9. ASSUME NEW k \in DOMAIN U, U[k].t = "proc", U[k].id \in DOMAIN E["proc"],
             ~U[k].v.stopped, E["proc"][U[k].id].stopped
      PROVE  \E j \in DOMAIN P : 1 < j /\ StopOf(P[j], U[k].id)
  <2>1. Q # <<>> /\ U[k].id \in DOMAIN D["proc"]
    BY <1>9
  <2>2. CASE D["proc"][U[k].id].stopped
    <3>1. PICK j \in DOMAIN Q : 1 < j /\ StopOf(Q[j], U[k].id)
      BY <2>1, <2>2, <1>9 DEF UndoesOK
    <3>2. j \in DOMAIN P /\ P[j] = Q[j]
      BY <1>5
    <3> QED
      BY <3>1, <3>2
  <2>3. CASE StopOf(r, U[k].id)
    BY <2>1, <2>3, <1>5
  <2> QED
    BY <2>1, <2>2, <2>3, <1>7, <1>9
<1>10. BehindOK(E, P) /\ UndoesOK(E, P, U)
  BY <1>8, <1>9 DEF BehindOK, UndoesOK
<1> QED
  BY <1>1, <1>3, <1>10

\* The queue without its first record.
LEMMA BehindNext ==
  ASSUME NEW D, NEW Q \in Seq(Record), BehindOK(D, Q), Q # <<>>
  PROVE  BehindOK(D, Tail(Q))
<1>1. PICK P : P = Tail(Q)
  OBVIOUS
<1>2. /\ DOMAIN Q = 1 .. Len(Q) /\ Len(Q) \in Nat /\ DOMAIN P = 1 .. (Len(Q) - 1)
      /\ \A k \in DOMAIN P : k + 1 \in DOMAIN Q /\ P[k] = Q[k + 1]
  BY <1>1, TailFacts
<1>3. ASSUME NEW k \in DOMAIN P, Opens(P[k]), D["proc"][P[k].id].stopped
      PROVE  \E j \in DOMAIN P : k < j /\ StopOf(P[j], P[k].id)
  <2>1. PICK j \in DOMAIN Q : k + 1 < j /\ StopOf(Q[j], Q[k + 1].id)
    BY <1>2, <1>3 DEF BehindOK
  <2>2. j - 1 \in DOMAIN P /\ k < j - 1 /\ j - 1 + 1 = j
    BY <2>1, <1>2
  <2>3. P[j - 1] = Q[j] /\ P[k] = Q[k + 1]
    BY <2>2, <1>2
  <2> QED
    BY <2>1, <2>2, <2>3
<1>4. BehindOK(D, P)
  BY <1>3 DEF BehindOK
<1> QED
  BY <1>1, <1>4

\* What a script writes undoes a stop only when it begins the process.
LEMMA RunUndoes ==
  ASSUME TInv, BehindOK(db, queue), queue # <<>>, NEW r, r = queue[1], NEW T, List(db, r, T)
  PROVE  UndoesOK(db, queue, T)
<1>1. DbOK(db) /\ 1 \in DOMAIN queue
  BY HeadRecord DEF TInv
<1>2. ASSUME NEW k \in DOMAIN T, T[k].t = "proc", T[k].id \in DOMAIN db["proc"],
             ~T[k].v.stopped, db["proc"][T[k].id].stopped
      PROVE  \E j \in DOMAIN queue : 1 < j /\ StopOf(queue[j], T[k].id)
  <2>1. T[k] \in Write /\ ProcItem(db, r, T[k])
    BY <1>2, ListWrites DEF Item
  <2>2. ~Fresh(db, T[k])
    BY <2>1, <1>1, <1>2, MakesFacts
  <2>3. Opens(r) /\ T[k].id = r.id
    BY <2>1, <2>2, <1>2 DEF ProcItem, Opens, Grown
  <2> QED
    BY <2>3, <1>1, <1>2 DEF BehindOK
<1> QED
  BY <1>2 DEF UndoesOK

\* The invariant holds initially.
LEMMA HInvInit ==
  ASSUME Init
  PROVE  HInv
<1>1. TInv
  BY TInvInit
<1>2. queue = <<>> /\ todo = <<>>
  BY DEF Init
<1>3. DOMAIN (<< >>) = {}
  OBVIOUS
<1> QED
  BY <1>1, <1>2, <1>3 DEF HInv, BehindOK, UndoesOK

\* Every step keeps it.
LEMMA HInvNext ==
  ASSUME HInv, [Next]_vars
  PROVE  HInv'
<1>1. TInv /\ TInv' /\ BehindOK(db, queue) /\ UndoesOK(db, queue, todo)
  BY TInvNext DEF HInv
<1>2. DbOK(db) /\ QueueOK(db, queue) /\ TodoOK(db, todo) /\ queue \in Seq(Record)
  BY <1>1 DEF TInv, QueueOK
<1>3. SUFFICES BehindOK(db', queue') /\ UndoesOK(db', queue', todo')
  BY <1>1 DEF HInv
<1>4. \A Q : UndoesOK(db, Q, <<>>)
  <2>1. DOMAIN (<< >>) = {}
    OBVIOUS
  <2> QED
    BY <2>1 DEF UndoesOK
<1>5. CASE Run
  <2>1. /\ queue # <<>> /\ db' = db /\ List(db, queue[1], todo')
        /\ queue' = IF todo' = <<>> THEN Tail(queue) ELSE queue
    BY <1>1, <1>5, RunFacts
  <2>2. CASE todo' = <<>>
    <3>1. queue' = Tail(queue)
      BY <2>1, <2>2
    <3> QED
      BY <3>1, <2>1, <2>2, <1>1, <1>2, <1>4, BehindNext
  <2>3. CASE todo' # <<>>
    <3>1. PICK T : T = todo'
      OBVIOUS
    <3>2. queue' = queue /\ UndoesOK(db, queue, T)
      BY <3>1, <2>1, <2>3, <1>1, RunUndoes
    <3> QED
      BY <3>1, <3>2, <2>1, <1>1
  <2> QED
    BY <2>2, <2>3
<1>6. CASE CommitItem
  <2>1. PICK by : by = By(queue[1])
    OBVIOUS
  <2>2. /\ todo # <<>> /\ queue # <<>> /\ by \in Author /\ todo' = Tail(todo)
        /\ Fits(db, todo[1]) /\ Stored(db, db', todo[1])
        /\ queue' = Append(queue, RecordOf(db, todo[1], by))
    BY <2>1, <1>1, <1>6, CommitFacts
  <2>3. PICK U : U = Tail(todo)
    OBVIOUS
  <2>4. todo \in Seq(Write)
    BY <1>2 DEF TodoOK
  <2>5. \A k \in DOMAIN U : k + 1 \in DOMAIN todo /\ U[k] = todo[k + 1] /\ k + 1 # 1
    BY <2>2, <2>3, <2>4, TailFacts
  <2>6. UndoesOK(db, queue, U)
    BY <2>5, <1>1 DEF UndoesOK
  <2>7. ASSUME NEW k \in DOMAIN U, U[k].t = "proc", U[k].id \in DOMAIN db'["proc"]
        PROVE  U[k].id \in DOMAIN db["proc"]
    BY <2>2, <2>5, <2>7, <1>2, StillFresh
  <2>8. BehindOK(db', queue') /\ UndoesOK(db', queue', U)
    BY <2>2, <2>6, <2>7, <1>1, <1>2, HoldsKept
  <2> QED
    BY <2>2, <2>3, <2>8
<1>7. CASE Finish
  <2>1. running /\ todo = <<>> /\ queue' = Tail(queue) /\ db' = db /\ todo' = todo
    BY <1>7 DEF Finish
  <2>2. BehindOK(db, Tail(queue))
    BY <2>1, <1>1, <1>2, BehindNext DEF TInv
  <2> QED
    BY <2>1, <2>2, <1>4
<1>8. CASE Crash
  BY <1>1, <1>4, <1>8 DEF Crash
<1>9. CASE \/ Send
           \/ \E f \in DOMAIN db.df, v \in Results \cup {0} : Answer(f, v)
           \/ \E p \in DOMAIN db.proc : Stop(p)
  <2>1. PICK w : UserStep(w)
    BY <1>1, <1>9, UserFacts
  <2>2. /\ ByUser(db, w) /\ Stored(db, db', w)
        /\ queue' = Append(queue, RecordOf(db, w, User)) /\ todo' = todo
    BY <2>1 DEF UserStep
  <2>3. User \in Author /\ Fits(db, w) /\ w.id \in DOMAIN db[w.t]
    BY <2>2 DEF User, Author, ByUser
  <2>4. \A p \in DOMAIN db'["proc"] : p \in DOMAIN db["proc"]
    BY <2>2, <2>3 DEF Stored, Types
  <2>5. \A k \in DOMAIN todo : queue # <<>>
    <3>1. DOMAIN (<< >>) = {}
      OBVIOUS
    <3> QED
      BY <3>1, <1>1 DEF TInv
  <2> QED
    BY <2>2, <2>3, <2>4, <2>5, <1>1, <1>2, HoldsKept
<1>10. CASE UNCHANGED vars
  BY <1>1, <1>10 DEF vars
<1> QED
  BY <1>5, <1>6, <1>7, <1>8, <1>9, <1>10 DEF Next

\* A step undoes a stop only when the record of the stop is behind the one in hand.
LEMMA StopStep ==
  ASSUME HInv, [Next]_vars, NEW p \in DOMAIN db["proc"],
         db["proc"][p].stopped, ~db'["proc"][p].stopped
  PROVE  \E k \in 2 .. Len(queue) : StopOf(queue[k], p)
<1>1. TInv /\ UndoesOK(db, queue, todo) /\ "proc" \in Types
  BY DEF HInv, Types
<1>2. CASE CommitItem
  <2>1. todo # <<>> /\ Stored(db, db', todo[1])
    BY <1>1, <1>2, CommitFacts
  <2>2. todo \in Seq(Write) /\ queue \in Seq(Record)
    BY <1>1 DEF TInv, TodoOK, QueueOK
  <2>3. 1 \in DOMAIN todo /\ DOMAIN queue = 1 .. Len(queue) /\ Len(queue) \in Nat
    BY <2>1, <2>2
  <2>4. todo[1].t = "proc" /\ todo[1].id = p /\ db'["proc"][p] = todo[1].v
    BY <2>1, <1>1 DEF Stored
  <2>5. PICK j \in DOMAIN queue : 1 < j /\ StopOf(queue[j], p)
    BY <2>3, <2>4, <1>1 DEF UndoesOK
  <2> QED
    BY <2>3, <2>5
<1>3. CASE \/ Send
           \/ \E f \in DOMAIN db.df, v \in Results \cup {0} : Answer(f, v)
           \/ \E q \in DOMAIN db.proc : Stop(q)
  <2>1. PICK w : UserStep(w)
    BY <1>1, <1>3, UserFacts
  <2> QED
    BY <2>1, <1>1 DEF UserStep, ByUser, Stored
<1>4. CASE Run \/ Finish \/ Crash \/ UNCHANGED vars
  BY <1>4 DEF Run, Finish, Crash, vars
<1> QED
  BY <1>2, <1>3, <1>4 DEF Next

\* A stop is undone only while its record is behind the one in hand (StopHolds), for
\* every net, with variables that are added to the process, and with crashes: of all
\* that the scripts write to a process only prepare_process() takes its state from a
\* record, and the others read the process as it is stored when they run.
THEOREM StopTheorem == Spec => StopHolds
<1>1. Init => HInv
  BY HInvInit
<1>2. HInv /\ [Next]_vars => HInv'
  BY HInvNext
<1>3. HInv /\ [Next]_vars =>
        [\A p \in DOMAIN db.proc :
           db.proc[p].stopped /\ ~db'.proc[p].stopped =>
             \E k \in 2 .. Len(queue) : /\ queue[k].t = "proc" /\ queue[k].id = p
                                        /\ queue[k].v.stopped /\ ~queue[k].was.stopped]_vars
  BY StopStep DEF StopOf
<1> QED
  BY <1>1, <1>2, <1>3, PTL DEF Spec, StopHolds
-----------------------------------------------------------------------------
(***************************************************************************)
(* A decision is the result of its work order.                             *)
(***************************************************************************)

\* What prepare_decision_form() writes, in its order: the result before the form
\* that is taken, and the decision of before after the report.
LEMMA DecisionOrder ==
  ASSUME DbOK(db), NEW r, IsRecord(db, r), r.t = "df",
         NEW T, T = prepare_decision_form(r.id, r.v, r.was)
  PROVE  /\ r.was.taken # 0 /\ r.v.taken # r.was.taken =>
              /\ T # <<>> /\ DOMAIN T = {1, 2}
              /\ T[2].t = "df" /\ T[2].id = r.id /\ T[2].v.taken = r.was.taken
              /\ T[2].v.deleted = db["df"][r.id].deleted
         /\ \A k \in DOMAIN T : T[k].t = "df" /\ T[k].v.done =>
              \/ db["df"][r.id].done
              \/ /\ r.was.taken = 0
                 /\ \E j \in DOMAIN T : /\ j < k /\ T[j].t = "wo" /\ T[j].id = r.v.wo
                                        /\ T[j].v.out = r.v.taken
<1>1. r.v \in DecisionForm /\ r.v.wo \in DOMAIN db["wo"] /\ r.id \in DOMAIN db["df"]
  BY RecordFacts
<1>2. db["df"][r.id] \in DecisionForm /\ db["wo"][r.v.wo] \in WorkOrder
  BY <1>1, DbFacts
<1>3. PICK a : a = Put("df", r.id, db["df"][r.id])
  OBVIOUS
<1>4. a.t = "df" /\ a.id = r.id /\ a.v = db["df"][r.id]
  BY <1>3, PutFacts
<1>5. PICK u : u = [db["wo"][r.v.wo] EXCEPT !.out = r.v.taken]
  OBVIOUS
<1>6. PICK b : b = Put("wo", r.v.wo, u)
  OBVIOUS
<1>7. b.t = "wo" /\ b.id = r.v.wo /\ b.v.out = r.v.taken
  BY <1>2, <1>5, <1>6, PutFacts DEF WorkOrder
<1>8. PICK v : v = [db["df"][r.id] EXCEPT !.done = TRUE]
  OBVIOUS
<1>9. PICK c : c = Put("df", r.id, v)
  OBVIOUS
<1>10. c.t = "df" /\ c.id = r.id /\ c.v.taken = db["df"][r.id].taken
  BY <1>2, <1>8, <1>9, PutFacts DEF DecisionForm
<1>11. PICK z : z = [db["df"][r.id] EXCEPT !.taken = r.was.taken]
  OBVIOUS
<1>12. PICK e : e = Put("df", r.id, z)
  OBVIOUS
<1>13. /\ e.t = "df" /\ e.id = r.id /\ e.v.taken = r.was.taken
       /\ e.v.done = db["df"][r.id].done /\ e.v.deleted = db["df"][r.id].deleted
  BY <1>2, <1>11, <1>12, PutFacts DEF DecisionForm
<1>14. CASE r.was.taken = 0
  <2>1. T = <<>> \/ T = <<a>> \/ T = <<b, c>>
    BY <1>14, <1>3, <1>5, <1>6, <1>8, <1>9 DEF prepare_decision_form, TakeDecision, Report
  <2>2. CASE T = <<>>
    BY <2>2, <1>14
  <2>3. CASE T = <<a>>
    <3>1. DOMAIN T = {1} /\ T[1] = a
      BY <2>3
    <3> QED
      BY <3>1, <1>4, <1>14
  <2>4. CASE T = <<b, c>>
    <3>1. DOMAIN T = {1, 2} /\ T[1] = b /\ T[2] = c
      BY <2>4
    <3>2. \A k \in DOMAIN T : T[k].t = "df" => k = 2
      BY <3>1, <1>7
    <3> QED
      BY <3>1, <3>2, <1>7, <1>10, <1>14
  <2> QED
    BY <2>1, <2>2, <2>3, <2>4
<1>15. CASE r.was.taken # 0 /\ r.v.taken = r.was.taken
  <2>1. T = <<>>
    BY <1>15 DEF prepare_decision_form
  <2> QED
    BY <2>1, <1>15
<1>16. CASE r.was.taken # 0 /\ r.v.taken # r.was.taken
  <2>1. T = <<a, e>>
    BY <1>16, <1>3, <1>11, <1>12 DEF prepare_decision_form, Report
  <2>2. DOMAIN T = {1, 2} /\ T[1] = a /\ T[2] = e /\ T # <<>>
    BY <2>1
  <2> QED
    BY <2>2, <1>4, <1>13, <1>16
<1> QED
  BY <1>14, <1>15, <1>16

\* The scripts are no users.
LEMMA ByOther ==
  ASSUME NEW r \in Record
  PROVE  By(r) # User
<1>1. r.t # "user"
  BY DEF Record, Types
<1>2. By(r)[1] = r.t /\ User[1] = "user"
  BY DEF By, User
<1> QED
  BY <1>1, <1>2

\* What is due stays due when a record is added.
LEMMA DueAppend ==
  ASSUME NEW Q \in Seq(Record), NEW r \in Record, NEW T, NEW hand, NEW f, NEW x, NEW n,
         Due(Q, T, hand, f, x, n)
  PROVE  Due(Append(Q, r), T, hand, f, x, n)
<1>1. /\ DOMAIN Q = 1 .. Len(Q) /\ Len(Q) \in Nat /\ DOMAIN Append(Q, r) = 1 .. (Len(Q) + 1)
      /\ \A k \in DOMAIN Q : Append(Q, r)[k] = Q[k]
  BY AppendFacts
<1>2. \A k \in DOMAIN Q : k \in DOMAIN Append(Q, r)
  BY <1>1
<1> QED
  BY <1>1, <1>2 DEF Due

\* What is due stays due when the first write, which is not it, is sent.
LEMMA DueTail ==
  ASSUME NEW Q, NEW T \in Seq(Write), T # <<>>, NEW hand, NEW f, NEW x, NEW n \in Nat,
         NEW m \in Nat, m = n - 1 \/ (m = n /\ n = 0 /\ ~FormPut(T, 1, f)),
         Due(Q, T, hand, f, x, n)
  PROVE  Due(Q, Tail(T), hand, f, x, m)
<1>1. CASE \E k \in DOMAIN Q : Change(Q[k], f, x) /\ ~(k = 1 /\ hand)
  BY <1>1 DEF Due
<1>2. CASE \E j \in DOMAIN T : n < j /\ FormPut(T, j, f) /\ T[j].v.taken = x
  <2>1. PICK j \in DOMAIN T : n < j /\ FormPut(T, j, f) /\ T[j].v.taken = x
    BY <1>2
  <2>2. /\ DOMAIN T = 1 .. Len(T) /\ Len(T) \in Nat /\ DOMAIN Tail(T) = 1 .. (Len(T) - 1)
        /\ \A k \in DOMAIN Tail(T) : Tail(T)[k] = T[k + 1]
    BY TailFacts
  <2>3. j \in Nat /\ j # 1
    BY <2>1, <2>2
  <2>4. j - 1 \in DOMAIN Tail(T) /\ Tail(T)[j - 1] = T[j] /\ m < j - 1
    BY <2>1, <2>2, <2>3
  <2>5. FormPut(Tail(T), j - 1, f) /\ Tail(T)[j - 1].v.taken = x
    BY <2>1, <2>4 DEF FormPut
  <2> QED
    BY <2>4, <2>5 DEF Due
<1> QED
  BY <1>1, <1>2 DEF Due

\* What is due stays due when the first record, which is not it, is done.
LEMMA DueNext ==
  ASSUME NEW Q \in Seq(Record), Q # <<>>, NEW T, NEW hand, NEW f, NEW x,
         hand \/ ~Change(Q[1], f, x), DOMAIN T = {}, Due(Q, T, hand, f, x, 0)
  PROVE  \A U : Due(Tail(Q), U, FALSE, f, x, 0)
<1>1. PICK k \in DOMAIN Q : Change(Q[k], f, x) /\ ~(k = 1 /\ hand)
  BY DEF Due
<1>2. /\ DOMAIN Q = 1 .. Len(Q) /\ Len(Q) \in Nat /\ DOMAIN Tail(Q) = 1 .. (Len(Q) - 1)
      /\ \A j \in DOMAIN Tail(Q) : Tail(Q)[j] = Q[j + 1]
  BY TailFacts
<1>3. k \in Nat /\ k # 1
  BY <1>1, <1>2
<1>4. k - 1 \in DOMAIN Tail(Q) /\ Tail(Q)[k - 1] = Q[k]
  BY <1>1, <1>2, <1>3
<1> QED
  BY <1>1, <1>4 DEF Due
\* The forms after a write: the old ones keep their work orders.
LEMMA FormLinks ==
  ASSUME NEW D, NEW E, NEW w, DbOK(D), Fits(D, w), Stored(D, E, w)
  PROVE  /\ \A f \in DOMAIN D["df"] : f \in DOMAIN E["df"] /\ E["df"][f].wo = D["df"][f].wo
         /\ \A f \in DOMAIN E["df"] :
              \/ f \in DOMAIN D["df"]
              \/ w.t = "df" /\ w.id = f /\ f \notin DOMAIN D["df"] /\ E["df"][f] = w.v
         /\ \A f \in DOMAIN D["df"] : w.t # "df" \/ w.id # f => E["df"][f] = D["df"][f]
         /\ \A o \in DOMAIN D["wo"] : w.t # "wo" \/ w.id # o => E["wo"][o] = D["wo"][o]
         /\ E[w.t][w.id] = w.v
<1>1. "df" \in Types /\ "wo" \in Types
  BY DEF Types
<1>2. /\ \A f \in DOMAIN D["df"] : w.t # "df" \/ w.id # f => E["df"][f] = D["df"][f]
      /\ \A o \in DOMAIN D["wo"] : w.t # "wo" \/ w.id # o => E["wo"][o] = D["wo"][o]
      /\ E[w.t][w.id] = w.v
  BY <1>1 DEF Stored
<1>3. ASSUME NEW f \in DOMAIN D["df"]
      PROVE  f \in DOMAIN E["df"] /\ E["df"][f].wo = D["df"][f].wo
  <2>1. f \in DOMAIN E["df"]
    BY <1>1 DEF Stored
  <2>2. CASE w.t = "df" /\ w.id = f
    BY <2>1, <2>2, <1>2 DEF Fits, Good, Same
  <2>3. CASE ~(w.t = "df" /\ w.id = f)
    BY <2>1, <2>3, <1>2
  <2> QED
    BY <2>2, <2>3
<1>4. ASSUME NEW f \in DOMAIN E["df"]
      PROVE  \/ f \in DOMAIN D["df"]
             \/ w.t = "df" /\ w.id = f /\ f \notin DOMAIN D["df"] /\ E["df"][f] = w.v
  BY <1>1, <1>2 DEF Stored
<1> QED
  BY <1>2, <1>3, <1>4

\* A work order without a form has none after a write that makes none for it.
LEMMA NoFormKept ==
  ASSUME NEW D, NEW E, NEW w, DbOK(D), Fits(D, w), Stored(D, E, w), NEW o, NoForm(D, o),
         w.t = "df" /\ w.id \notin DOMAIN D["df"] => w.v.wo # o
  PROVE  NoForm(E, o)
BY FormLinks DEF NoForm

\* A work order has one form.
LEMMA OneFormKept ==
  ASSUME NEW D, NEW E, NEW w, DbOK(D), Fits(D, w), Stored(D, E, w), OneForm(D),
         w.t = "df" /\ w.id \notin DOMAIN D["df"] => NoForm(D, w.v.wo)
  PROVE  OneForm(E)
<1> SUFFICES ASSUME NEW f \in DOMAIN E["df"], NEW g \in DOMAIN E["df"],
                    E["df"][f].wo = E["df"][g].wo, f # g
             PROVE  FALSE
  BY DEF OneForm
<1>1. CASE f \in DOMAIN D["df"] /\ g \in DOMAIN D["df"]
  BY <1>1, FormLinks DEF OneForm
<1>2. CASE f \notin DOMAIN D["df"]
  <2>1. w.t = "df" /\ w.id = f /\ E["df"][f] = w.v
    BY <1>2, FormLinks
  <2>2. g \in DOMAIN D["df"] /\ E["df"][g].wo = D["df"][g].wo
    BY <2>1, FormLinks
  <2> QED
    BY <2>1, <2>2, <1>2 DEF NoForm
<1>3. CASE g \notin DOMAIN D["df"]
  <2>1. w.t = "df" /\ w.id = g /\ E["df"][g] = w.v
    BY <1>3, FormLinks
  <2>2. f \in DOMAIN D["df"] /\ E["df"][f].wo = D["df"][f].wo
    BY <2>1, FormLinks
  <2> QED
    BY <2>1, <2>2, <1>3 DEF NoForm
<1> QED
  BY <1>1, <1>2, <1>3

\* What a write must be that keeps AsksOK.
AskFits(D, Q, w, by, hand) ==
  /\ w.t = "wo" /\ w.id \in DOMAIN D["wo"] /\ w.v.out = 0 => by = <<"wo", w.id, "df4">>
  /\ w.t = "df" /\ w.id \notin DOMAIN D["df"] =>
       \A j \in DOMAIN Q : Ask(Q[j]) /\ Q[j].id = w.v.wo => j = 1 /\ hand

\* A record that asks belongs to a new work order.
LEMMA NewAsk ==
  ASSUME NEW D, NEW Q, NEW w, NEW by, NEW hand, AskFits(D, Q, w, by, hand),
         Ask(RecordOf(D, w, by))
  PROVE  w.t = "wo" /\ w.id \notin DOMAIN D["wo"]
BY RecordFields DEF AskFits, Ask

\* The records that ask, with one more record.
LEMMA AskAppend ==
  ASSUME NEW Q \in Seq(Record), NEW r \in Record, NEW j \in DOMAIN Append(Q, r)
  PROVE  (j \in DOMAIN Q /\ Append(Q, r)[j] = Q[j]) \/ (j = Len(Q) + 1 /\ Append(Q, r)[j] = r)
<1>1. /\ DOMAIN Q = 1 .. Len(Q) /\ Len(Q) \in Nat /\ DOMAIN Append(Q, r) = 1 .. (Len(Q) + 1)
      /\ \A k \in DOMAIN Q : Append(Q, r)[k] = Q[k]
      /\ Append(Q, r)[Len(Q) + 1] = r
  BY AppendFacts
<1> QED
  BY <1>1

\* It keeps AsksOK.
LEMMA AsksKept ==
  ASSUME NEW D, NEW E, NEW Q, NEW w, NEW by \in Author, NEW hand, DbOK(D), QueueOK(D, Q),
         AsksOK(D, Q, hand), Fits(D, w), Stored(D, E, w), AskFits(D, Q, w, by, hand)
  PROVE  AsksOK(E, Append(Q, RecordOf(D, w, by)), hand)
<1>1. PICK r : r = RecordOf(D, w, by)
  OBVIOUS
<1>2. PICK P : P = Append(Q, r)
  OBVIOUS
<1>3. r \in Record /\ Q \in Seq(Record)
  BY <1>1, QueueKept DEF QueueOK
<1>4. r.t = w.t /\ r.id = w.id
  BY <1>1, RecordFields
<1>5. \A j \in DOMAIN P : (j \in DOMAIN Q /\ P[j] = Q[j]) \/ (j = Len(Q) + 1 /\ P[j] = r)
  BY <1>2, <1>3, AskAppend
<1>6. Ask(r) => w.t = "wo" /\ w.id \notin DOMAIN D["wo"]
  BY <1>1, NewAsk
<1>7. \A j \in DOMAIN Q : Ask(Q[j]) => Q[j].id \in DOMAIN D["wo"]
  BY DEF Ask, QueueOK
<1>8. ASSUME NEW k \in DOMAIN P, Ask(P[k])
      PROVE  (k = 1 /\ hand) \/ NoForm(E, P[k].id)
  <2>1. CASE k \in DOMAIN Q /\ P[k] = Q[k]
    <3>1. (k = 1 /\ hand) \/ NoForm(D, Q[k].id)
      BY <2>1, <1>8 DEF AsksOK
    <3>2. (k = 1 /\ hand) \/ ~(w.t = "df" /\ w.id \notin DOMAIN D["df"] /\ w.v.wo = Q[k].id)
      BY <2>1, <1>8 DEF AskFits
    <3> QED
      BY <2>1, <3>1, <3>2, NoFormKept
  <2>2. CASE P[k] = r
    <3>1. w.t = "wo" /\ w.id \notin DOMAIN D["wo"]
      BY <2>2, <1>6, <1>8
    <3>2. NoForm(D, w.id)
      BY <3>1, DbFacts DEF NoForm
    <3>3. NoForm(E, w.id)
      BY <3>1, <3>2, NoFormKept
    <3> QED
      BY <3>3, <2>2, <1>4
  <2> QED
    BY <2>1, <2>2, <1>5
<1>9. ASSUME NEW k \in DOMAIN P, Ask(P[k]), NEW j \in DOMAIN P, Ask(P[j]), P[j].id = P[k].id
      PROVE  j = k
  <2>1. CASE k \in DOMAIN Q /\ P[k] = Q[k] /\ j \in DOMAIN Q /\ P[j] = Q[j]
    BY <2>1, <1>9 DEF AsksOK
  <2>2. CASE k = Len(Q) + 1 /\ P[k] = r /\ j \in DOMAIN Q /\ P[j] = Q[j]
    BY <2>2, <1>4, <1>6, <1>7, <1>9
  <2>3. CASE j = Len(Q) + 1 /\ P[j] = r /\ k \in DOMAIN Q /\ P[k] = Q[k]
    BY <2>3, <1>4, <1>6, <1>7, <1>9
  <2> QED
    BY <2>1, <2>2, <2>3, <1>5
<1> QED
  BY <1>1, <1>2, <1>8, <1>9 DEF AsksOK

\* The queue without its first record, which may be in hand.
LEMMA AsksNext ==
  ASSUME NEW D, NEW Q \in Seq(Record), NEW hand, AsksOK(D, Q, hand), Q # <<>>
  PROVE  AsksOK(D, Tail(Q), FALSE)
<1>1. /\ DOMAIN Q = 1 .. Len(Q) /\ Len(Q) \in Nat /\ DOMAIN Tail(Q) = 1 .. (Len(Q) - 1)
      /\ \A j \in DOMAIN Tail(Q) : j + 1 \in DOMAIN Q /\ Tail(Q)[j] = Q[j + 1]
  BY TailFacts
<1>2. ASSUME NEW k \in DOMAIN Tail(Q), Ask(Tail(Q)[k])
      PROVE  NoForm(D, Tail(Q)[k].id)
  <2>1. k + 1 \in DOMAIN Q /\ Tail(Q)[k] = Q[k + 1] /\ k + 1 # 1
    BY <1>1
  <2> QED
    BY <2>1, <1>2 DEF AsksOK
<1>3. ASSUME NEW k \in DOMAIN Tail(Q), Ask(Tail(Q)[k]), NEW j \in DOMAIN Tail(Q), Ask(Tail(Q)[j]),
             Tail(Q)[j].id = Tail(Q)[k].id
      PROVE  j = k
  <2>1. /\ k + 1 \in DOMAIN Q /\ Tail(Q)[k] = Q[k + 1]
        /\ j + 1 \in DOMAIN Q /\ Tail(Q)[j] = Q[j + 1]
    BY <1>1
  <2>2. j + 1 = k + 1
    BY <2>1, <1>3 DEF AsksOK
  <2> QED
    BY <2>2, <1>1
<1> QED
  BY <1>2, <1>3 DEF AsksOK
\* What is left to send to forms and work orders, after the first write.
LEMMA DecisionsTail ==
  ASSUME NEW D, NEW E, NEW Q, NEW T, NEW by \in Author, DbOK(D), QueueOK(D, Q), TodoOK(D, T),
         Q # <<>>, T # <<>>, Stored(D, E, T[1]), SendsOK(D, Q, T), DecisionsSent(D, Q, T),
         AskFits(D, Q, T[1], by, TRUE)
  PROVE  DecisionsSent(E, Append(Q, RecordOf(D, T[1], by)), Tail(T))
<1>1. Fits(D, T[1])
  BY HeadFits
<1>2. PICK r : r = RecordOf(D, T[1], by)
  OBVIOUS
<1>3. PICK P : P = Append(Q, r)
  OBVIOUS
<1>4. PICK U : U = Tail(T)
  OBVIOUS
<1>5. r \in Record /\ Q \in Seq(Record) /\ T \in Seq(Write)
  BY <1>1, <1>2, QueueKept DEF QueueOK, TodoOK
<1>6. r.t = T[1].t /\ r.id = T[1].id
  BY <1>2, RecordFields
<1>7. \A j \in DOMAIN P : (j \in DOMAIN Q /\ P[j] = Q[j]) \/ (j = Len(Q) + 1 /\ P[j] = r)
  BY <1>3, <1>5, AskAppend
<1>8. 1 \in DOMAIN Q /\ P[1] = Q[1]
  BY <1>3, <1>5, AppendFacts, TailFacts
<1>9. /\ 1 \in DOMAIN T /\ DOMAIN U = 1 .. (Len(T) - 1) /\ Len(T) \in Nat
      /\ \A k \in DOMAIN U : k \in Nat /\ k + 1 # 1 /\ k + 1 \in DOMAIN T /\ U[k] = T[k + 1]
  BY <1>4, <1>5, TailFacts
<1>10. ASSUME NEW k \in DOMAIN U, U[k].t = "df"
       PROVE  FormSent(E, P, U, k)
  <2>1. k + 1 \in DOMAIN T /\ U[k] = T[k + 1] /\ T[k + 1].t = "df" /\ k + 1 # 1 /\ k \in Nat
    BY <1>9, <1>10
  <2>2. FormSent(D, Q, T, k + 1)
    BY <2>1 DEF DecisionsSent
  <2>3. ASSUME U[k].id \notin DOMAIN E["df"]
        PROVE  /\ U[k].v.taken = 0 /\ ~U[k].v.done /\ NoForm(E, U[k].v.wo)
               /\ \A j \in DOMAIN P : Ask(P[j]) /\ P[j].id = U[k].v.wo => j = 1
               /\ \A j \in DOMAIN U : U[j].t = "df" => j = k
    <3>1. T[k + 1].id \notin DOMAIN D["df"]
      BY <2>1, <2>3, <1>1, FormLinks
    <3>2. /\ T[k + 1].v.taken = 0 /\ ~T[k + 1].v.done /\ NoForm(D, T[k + 1].v.wo)
          /\ \A j \in DOMAIN Q : Ask(Q[j]) /\ Q[j].id = T[k + 1].v.wo => j = 1
          /\ \A j \in DOMAIN T : T[j].t = "df" => j = k + 1
      BY <3>1, <2>2 DEF FormSent
    <3>3. T[1].t # "df"
      BY <3>2, <2>1, <1>9
    <3>4. NoForm(E, T[k + 1].v.wo)
      BY <3>2, <3>3, <1>1, NoFormKept
    <3>5. T[k + 1].v.wo \in DOMAIN D["wo"]
      BY <2>1 DEF TodoOK, Good, Linked
    <3>6. ASSUME NEW j \in DOMAIN P, Ask(P[j]), P[j].id = T[k + 1].v.wo
          PROVE  j = 1
      <4>1. CASE j \in DOMAIN Q /\ P[j] = Q[j]
        BY <4>1, <3>2, <3>6
      <4>2. CASE P[j] = r
        <5>1. Ask(RecordOf(D, T[1], by))
          BY <4>2, <3>6, <1>2
        <5>2. T[1].id \notin DOMAIN D["wo"]
          BY <5>1, NewAsk
        <5> QED
          BY <5>2, <4>2, <3>5, <3>6, <1>6
      <4> QED
        BY <4>1, <4>2, <1>7
    <3>7. ASSUME NEW j \in DOMAIN U, U[j].t = "df"
          PROVE  j = k
      <4>1. j + 1 = k + 1 /\ j \in Nat
        BY <3>2, <3>7, <1>9
      <4> QED
        BY <4>1, <2>1
    <3> QED
      BY <3>2, <3>4, <3>6, <3>7, <2>1
  <2>4. ASSUME U[k].id \in DOMAIN E["df"]
        PROVE  /\ U[k].v.deleted \/ (P[1].t = "df" /\ P[1].id = U[k].id)
               /\ E["df"][U[k].id].deleted => U[k].v.deleted
    <3>1. T[k + 1].id \in DOMAIN D["df"]
      BY <2>1, <2>4, StillFresh
    <3>2. /\ T[k + 1].v.deleted \/ (Q[1].t = "df" /\ Q[1].id = T[k + 1].id)
          /\ D["df"][T[k + 1].id].deleted => T[k + 1].v.deleted
      BY <3>1, <2>2 DEF FormSent
    <3>3. CASE T[1].t = "df" /\ T[1].id = T[k + 1].id
      <4>1. T[1].v.deleted = T[k + 1].v.deleted
        BY <3>3, <2>2, <1>9 DEF FormSent
      <4>2. E["df"][T[k + 1].id] = T[1].v
        BY <3>3, <1>1, FormLinks
      <4> QED
        BY <4>1, <4>2, <3>2, <2>1, <1>8
    <3>4. CASE ~(T[1].t = "df" /\ T[1].id = T[k + 1].id)
      <4>1. E["df"][T[k + 1].id] = D["df"][T[k + 1].id]
        BY <3>1, <3>4, <1>1, FormLinks
      <4> QED
        BY <4>1, <3>2, <2>1, <1>8
    <3> QED
      BY <3>3, <3>4
  <2>5. ASSUME NEW j \in DOMAIN U, U[j].t = "df", U[j].id = U[k].id
        PROVE  U[j].v.deleted = U[k].v.deleted
    <3>1. j + 1 \in DOMAIN T /\ U[j] = T[j + 1]
      BY <1>9
    <3> QED
      BY <3>1, <2>1, <2>2, <2>5 DEF FormSent
  <2> QED
    BY <2>3, <2>4, <2>5 DEF FormSent
<1>11. ASSUME NEW k \in DOMAIN U, U[k].t = "wo"
       PROVE  OutSent(E, P, U, k)
  <2>1. k + 1 \in DOMAIN T /\ U[k] = T[k + 1] /\ T[k + 1].t = "wo"
    BY <1>9, <1>11
  <2>2. OutSent(D, Q, T, k + 1) /\ OrderSent(D, Q, T, k + 1)
    BY <2>1 DEF DecisionsSent, SendsOK
  <2>3. CASE T[1].t = "wo" /\ T[1].id = T[k + 1].id
    <3>1. T[1].v.out = T[k + 1].v.out
      BY <2>2, <2>3, <1>9 DEF OrderSent
    <3>2. E["wo"][T[k + 1].id] = T[1].v
      BY <2>3, <1>1, FormLinks
    <3> QED
      BY <3>1, <3>2, <2>1 DEF OutSent
  <2>4. CASE ~(T[1].t = "wo" /\ T[1].id = T[k + 1].id)
    <3>1. "wo" \in Types
      BY DEF Types
    <3>2. T[k + 1].id \in DOMAIN E["wo"] =>
            T[k + 1].id \in DOMAIN D["wo"] /\ E["wo"][T[k + 1].id] = D["wo"][T[k + 1].id]
      BY <2>4, <3>1 DEF Stored
    <3> QED
      BY <3>2, <2>1, <2>2, <1>8 DEF OutSent
  <2> QED
    BY <2>3, <2>4
<1> QED
  BY <1>2, <1>3, <1>4, <1>10, <1>11 DEF DecisionsSent

\* The same when a user writes.
LEMMA DecisionsUser ==
  ASSUME NEW D, NEW E, NEW Q, NEW T, NEW w, NEW by \in Author, DbOK(D), QueueOK(D, Q),
         TodoOK(D, T), T # <<>> => Q # <<>>, ByUser(D, w), Stored(D, E, w), DecisionsSent(D, Q, T)
  PROVE  DecisionsSent(E, Append(Q, RecordOf(D, w, by)), T)
<1>1. Fits(D, w) /\ w.id \in DOMAIN D[w.t] /\ w.t # "wo" /\ (w.t = "df" => ~w.v.deleted)
  BY DEF ByUser
<1>2. PICK r : r = RecordOf(D, w, by)
  OBVIOUS
<1>3. PICK P : P = Append(Q, r)
  OBVIOUS
<1>4. r \in Record /\ Q \in Seq(Record) /\ T \in Seq(Write)
  BY <1>1, <1>2, QueueKept DEF QueueOK, TodoOK
<1>5. ~Ask(r)
  BY <1>1, <1>2, RecordFields DEF Ask
<1>6. \A j \in DOMAIN P : (j \in DOMAIN Q /\ P[j] = Q[j]) \/ (j = Len(Q) + 1 /\ P[j] = r)
  BY <1>3, <1>4, AskAppend
<1>7. ASSUME NEW k \in DOMAIN T
      PROVE  P[1] = Q[1]
  <2>1. Q # <<>>
    BY <1>4, <1>7
  <2> QED
    BY <2>1, <1>3, <1>4, AppendFacts, TailFacts
<1>8. /\ DOMAIN E["df"] = DOMAIN D["df"] /\ DOMAIN E["wo"] = DOMAIN D["wo"]
      /\ \A o \in DOMAIN D["wo"] : E["wo"][o] = D["wo"][o]
  <2>1. "df" \in Types /\ "wo" \in Types
    BY DEF Types
  <2>2. /\ DOMAIN D["df"] \subseteq DOMAIN E["df"] /\ DOMAIN E["df"] \subseteq DOMAIN D["df"]
        /\ DOMAIN D["wo"] \subseteq DOMAIN E["wo"] /\ DOMAIN E["wo"] \subseteq DOMAIN D["wo"]
    BY <2>1, <1>1 DEF Stored
  <2>3. \A o \in DOMAIN D["wo"] : E["wo"][o] = D["wo"][o]
    BY <2>1, <1>1 DEF Stored
  <2> QED
    BY <2>2, <2>3
<1>9. ASSUME NEW k \in DOMAIN T, T[k].t = "df"
      PROVE  FormSent(E, P, T, k)
  <2>1. FormSent(D, Q, T, k) /\ P[1] = Q[1]
    BY <1>7, <1>9 DEF DecisionsSent
  <2>2. NoForm(D, T[k].v.wo) => NoForm(E, T[k].v.wo)
    BY <1>1, NoFormKept
  <2>3. ASSUME NEW j \in DOMAIN P, Ask(P[j])
        PROVE  j \in DOMAIN Q /\ P[j] = Q[j]
    BY <2>3, <1>5, <1>6
  <2>4. T[k].id \in DOMAIN D["df"] /\ E["df"][T[k].id].deleted => D["df"][T[k].id].deleted
    BY <1>1, FormLinks
  <2>5. ASSUME T[k].id \notin DOMAIN E["df"]
        PROVE  /\ T[k].v.taken = 0 /\ ~T[k].v.done /\ NoForm(E, T[k].v.wo)
               /\ \A j \in DOMAIN P : Ask(P[j]) /\ P[j].id = T[k].v.wo => j = 1
               /\ \A j \in DOMAIN T : T[j].t = "df" => j = k
    <3>1. /\ T[k].v.taken = 0 /\ ~T[k].v.done /\ NoForm(D, T[k].v.wo)
          /\ \A j \in DOMAIN Q : Ask(Q[j]) /\ Q[j].id = T[k].v.wo => j = 1
          /\ \A j \in DOMAIN T : T[j].t = "df" => j = k
      BY <2>1, <2>5, <1>8 DEF FormSent
    <3>2. ASSUME NEW j \in DOMAIN P, Ask(P[j]), P[j].id = T[k].v.wo
          PROVE  j = 1
      BY <3>1, <3>2, <2>3
    <3> QED
      BY <3>1, <3>2, <2>2
  <2>6. T[k].id \in DOMAIN E["df"] =>
          /\ T[k].v.deleted \/ (P[1].t = "df" /\ P[1].id = T[k].id)
          /\ E["df"][T[k].id].deleted => T[k].v.deleted
    BY <2>1, <2>4, <1>8 DEF FormSent
  <2>7. \A j \in DOMAIN T : T[j].t = "df" /\ T[j].id = T[k].id => T[j].v.deleted = T[k].v.deleted
    BY <2>1 DEF FormSent
  <2> QED
    BY <2>5, <2>6, <2>7 DEF FormSent
<1>10. ASSUME NEW k \in DOMAIN T, T[k].t = "wo"
       PROVE  OutSent(E, P, T, k)
  <2>1. OutSent(D, Q, T, k) /\ P[1] = Q[1]
    BY <1>7, <1>10 DEF DecisionsSent
  <2> QED
    BY <2>1, <1>8 DEF OutSent
<1> QED
  BY <1>2, <1>3, <1>9, <1>10 DEF DecisionsSent
\* A first decision that a script takes is a user's.
LEMMA UserDecides ==
  ASSUME NEW r, SourceOK(r), Triggered(r), r.t = "df", r.v.taken # 0 \/ r.was.taken # 0
  PROVE  UserForm(r, r.id)
<1>1. Script(r) = "df5"
  BY DEF Script
<1>2. r.by # <<"df", r.id, "df5">> /\ ~r.v.deleted
  BY <1>1 DEF Triggered
<1> QED
  BY <1>2 DEF SourceOK, UserForm

\* What a script writes to forms and to work orders of users.
LEMMA RunDecisions ==
  ASSUME TInv, AsksOK(db, queue, FALSE), queue # <<>>, NEW r, r = queue[1], SourceOK(r),
         Triggered(r), NEW T, List(db, r, T), T = Writes(r)
  PROVE  DecisionsSent(db, queue, T)
<1>1. IsRecord(db, r) /\ DbOK(db) /\ QueueOK(db, queue) /\ 1 \in DOMAIN queue
  BY HeadRecord DEF TInv
<1>2. \A k \in DOMAIN T : T[k] \in Write /\ Item(db, r, T[k])
  BY ListWrites
<1>3. \A x \in Write : x.id \in DOMAIN db[x.t] => ~Fresh(db, x)
  BY <1>1, MakesFacts
<1>4. r.t = "wo" /\ r.v.out = 0 => Ask(r)
  <2>1. r.t = "wo" => Script(r) = "df4"
    BY DEF Script
  <2> QED
    BY <2>1 DEF Triggered, Ask
<1>5. ASSUME NEW k \in DOMAIN T, T[k].t = "df"
      PROVE  FormSent(db, queue, T, k)
  <2>1. PICK x : x = T[k]
    OBVIOUS
  <2>2. x \in Write /\ x.t = "df" /\ DfItem(db, r, x)
    BY <2>1, <1>2, <1>5 DEF Item
  <2>3. ASSUME T[k].id \notin DOMAIN db["df"]
        PROVE  /\ T[k].v.taken = 0 /\ ~T[k].v.done /\ NoForm(db, T[k].v.wo)
               /\ \A j \in DOMAIN queue : Ask(queue[j]) /\ queue[j].id = T[k].v.wo => j = 1
               /\ \A j \in DOMAIN T : T[j].t = "df" => j = k
    <3>1. r.t = "df" => r.id \in DOMAIN db["df"]
      BY <1>1, RecordFacts
    <3>2. r.t = "wo" /\ r.v.out = 0 /\ x.v.wo = r.id /\ x.v.taken = 0 /\ ~x.v.done
      BY <3>1, <2>1, <2>2, <2>3 DEF DfItem
    <3>3. Ask(r)
      BY <3>2, <1>4
    <3>4. /\ NoForm(db, r.id)
          /\ \A j \in DOMAIN queue : Ask(queue[j]) /\ queue[j].id = r.id => j = 1
      BY <3>3, <1>1 DEF AsksOK
    <3>5. T = prepare_work_order(r.id, r.v)
      BY <3>2 DEF Writes
    <3>6. \A j \in DOMAIN T : T[j].t = "df" => j = 1
      BY <3>2, <3>5, <1>1, WorkOrderList
    <3> QED
      BY <3>2, <3>4, <3>6, <2>1, <1>5
  <2>4. ASSUME T[k].id \in DOMAIN db["df"]
        PROVE  /\ T[k].v.deleted \/ (queue[1].t = "df" /\ queue[1].id = T[k].id)
               /\ db["df"][T[k].id].deleted => T[k].v.deleted
    <3>1. ~Fresh(db, x)
      BY <2>1, <2>2, <2>4, <1>3
    <3> QED
      BY <3>1, <2>1, <2>2 DEF DfItem
  <2>5. ASSUME NEW j \in DOMAIN T, T[j].t = "df", T[j].id = T[k].id
        PROVE  T[j].v.deleted = T[k].v.deleted
    <3>1. PICK y : y = T[j]
      OBVIOUS
    <3>2. y \in Write /\ y.t = "df" /\ DfItem(db, r, y) /\ y.id = x.id
      BY <3>1, <2>1, <2>5, <1>2 DEF Item
    <3>3. x.v \in DecisionForm /\ y.v \in DecisionForm
      BY <3>1, <3>2, <2>1, <2>2, <1>2 DEF Item, Good, Member
    <3>4. CASE r.t = "wo"
      BY <3>1, <3>2, <3>3, <3>4, <2>1, <2>2 DEF DfItem, DecisionForm
    <3>5. CASE r.t = "df"
      BY <3>1, <3>2, <3>3, <3>5, <2>1, <2>2 DEF DfItem, DecisionForm
    <3>6. CASE r.t = "proc"
      BY <3>1, <3>2, <3>3, <3>6, <2>1, <2>2 DEF DfItem, DecisionForm
    <3> QED
      BY <3>4, <3>5, <3>6, <2>2 DEF DfItem
  <2> QED
    BY <2>3, <2>4, <2>5 DEF FormSent
<1>6. ASSUME NEW k \in DOMAIN T, T[k].t = "wo"
      PROVE  OutSent(db, queue, T, k)
  <2>1. PICK x : x = T[k]
    OBVIOUS
  <2>2. x \in Write /\ x.t = "wo" /\ WoItem(db, r, x) /\ x.id \in Ids
    BY <2>1, <1>2, <1>6 DEF Item, Write
  <2>3. SUFFICES ASSUME x.id \in DOMAIN db["wo"], db["wo"][x.id].executor \in Users
                 PROVE  \/ x.v.out = db["wo"][x.id].out
                        \/ /\ UserForm(r, r.id) /\ r.was.taken = 0
                           /\ r.v.wo = x.id /\ r.v.taken = x.v.out
    BY <2>1 DEF OutSent
  <2>4. ~Fresh(db, x)
    BY <2>2, <2>3, <1>3
  <2>5. CASE r.t = "wo"
    <3>1. r.v.executor = db["wo"][r.id].executor
      BY <2>5, <1>1, RecordFacts DEF Same
    <3> QED
      BY <3>1, <2>2, <2>3, <2>4, <2>5 DEF WoItem, Nets, Codelet
  <2>6. CASE r.t = "wi"
    <3>1. x.id = db["proc"][r.v.proc].parent
      BY <2>2, <2>4, <2>6 DEF WoItem
    <3>2. r.v.proc \in DOMAIN db["proc"]
      BY <2>6, <1>1, RecordFacts
    <3>3. Above(db, db["proc"][r.v.proc].parent)
      BY <3>2, <1>1, DbFacts
    <3> QED
      BY <3>1, <3>3, <2>2, <2>3 DEF Above, Nets, Ids
  <2>7. CASE r.t = "df"
    <3>1. r.was.taken = 0 /\ r.v.taken # 0 /\ x.id = r.v.wo /\ x.v.out = r.v.taken
      BY <2>2, <2>4, <2>7 DEF WoItem
    <3>2. UserForm(r, r.id)
      BY <3>1, <2>7, UserDecides
    <3> QED
      BY <3>1, <3>2
  <2> QED
    BY <2>2, <2>5, <2>6, <2>7 DEF WoItem
<1> QED
  BY <1>5, <1>6 DEF DecisionsSent

\* The records of forms come from users, the script of the form, and scripts
\* that make or delete forms.
LEMMA SourceSent ==
  ASSUME NEW D, NEW Q, NEW T, DbOK(D), TodoOK(D, T), T # <<>>, Q # <<>>, DecisionsSent(D, Q, T)
  PROVE  SourceOK(RecordOf(D, T[1], By(Q[1])))
<1>1. PICK r : r = RecordOf(D, T[1], By(Q[1]))
  OBVIOUS
<1>2. r.t = T[1].t /\ r.id = T[1].id /\ r.v = T[1].v /\ r.by = By(Q[1])
  BY <1>1, RecordFields
<1>3. SUFFICES ASSUME T[1].t = "df"
               PROVE  SourceOK(r)
  BY <1>1, <1>2 DEF SourceOK
<1>4. 1 \in DOMAIN T /\ T \in Seq(Write)
  BY TailFacts DEF TodoOK
<1>5. FormSent(D, Q, T, 1)
  BY <1>3, <1>4 DEF DecisionsSent
<1>6. CASE T[1].id \notin DOMAIN D["df"]
  <2>1. T[1].v.taken = 0
    BY <1>5, <1>6 DEF FormSent
  <2>2. T[1].id > Len(D["df"])
    <3>1. T[1].id \in Ids /\ DOMAIN D["df"] = 1 .. Len(D["df"]) /\ Len(D["df"]) \in Nat
      BY <1>4, Elements, DbFacts DEF Types
    <3> QED
      BY <3>1, <1>6 DEF Ids
  <2>3. r.was = T[1].v
    BY <2>2, <1>1, <1>3 DEF RecordOf
  <2> QED
    BY <2>1, <2>3, <1>2 DEF SourceOK
<1>7. CASE T[1].id \in DOMAIN D["df"]
  <2>1. T[1].v.deleted \/ (Q[1].t = "df" /\ Q[1].id = T[1].id)
    BY <1>5, <1>7 DEF FormSent
  <2>2. Q[1].t = "df" => By(Q[1]) = <<"df", Q[1].id, "df5">>
    BY DEF By, Script
  <2> QED
    BY <2>1, <2>2, <1>2 DEF SourceOK
<1> QED
  BY <1>1, <1>6, <1>7
\* Without stops: a write that stops and deletes nothing.
LEMMA NoStopsKept ==
  ASSUME NEW D, NEW E, NEW Q, NEW T, NEW w, NEW by \in Author, DbOK(D), QueueOK(D, Q),
         Fits(D, w), Stored(D, E, w), NoStops(D, Q, T),
         w.t = "proc" => ~w.v.stopped, w.t = "df" => ~w.v.deleted
  PROVE  NoStops(E, Append(Q, RecordOf(D, w, by)), T)
<1>1. PICK r : r = RecordOf(D, w, by)
  OBVIOUS
<1>2. r \in Record /\ Q \in Seq(Record) /\ r.t = w.t /\ r.v = w.v
  BY <1>1, QueueKept, RecordFields DEF QueueOK
<1>3. "proc" \in Types /\ "df" \in Types
  BY DEF Types
<1>4. \A p \in DOMAIN E["proc"] : ~E["proc"][p].stopped
  BY <1>3 DEF NoStops, Stored
<1>5. \A f \in DOMAIN E["df"] : ~E["df"][f].deleted
  BY <1>3 DEF NoStops, Stored
<1>6. ASSUME NEW k \in DOMAIN Append(Q, r), Append(Q, r)[k].t = "proc"
      PROVE  ~Append(Q, r)[k].v.stopped
  BY <1>2, <1>6, AskAppend DEF NoStops
<1> QED
  BY <1>1, <1>4, <1>5, <1>6 DEF NoStops

\* The rest of the writes, and of the queue.
LEMMA NoStopsTail ==
  ASSUME NEW D, NEW Q \in Seq(Record), NEW T \in Seq(Write), NoStops(D, Q, T)
  PROVE  /\ T # <<>> => NoStops(D, Q, Tail(T))
         /\ Q # <<>> => NoStops(D, Tail(Q), T)
<1>1. ASSUME T # <<>>
      PROVE  NoStops(D, Q, Tail(T))
  <2>1. \A k \in DOMAIN Tail(T) : k + 1 \in DOMAIN T /\ Tail(T)[k] = T[k + 1]
    BY <1>1, TailFacts
  <2> QED
    BY <2>1 DEF NoStops
<1>2. ASSUME Q # <<>>
      PROVE  NoStops(D, Tail(Q), T)
  <2>1. \A k \in DOMAIN Tail(Q) : k + 1 \in DOMAIN Q /\ Tail(Q)[k] = Q[k + 1]
    BY <1>2, TailFacts
  <2> QED
    BY <2>1 DEF NoStops
<1> QED
  BY <1>1, <1>2

\* Without stops no script stops or deletes anything.
LEMMA RunNoStops ==
  ASSUME NEW D, NEW Q, NEW U, DbOK(D), NEW r, IsRecord(D, r), r.t = "proc" => ~r.v.stopped,
         NoStops(D, Q, U), NEW T, List(D, r, T)
  PROVE  NoStops(D, Q, T)
<1>1. \A k \in DOMAIN T : T[k] \in Write /\ Item(D, r, T[k])
  BY ListWrites
<1>2. ASSUME NEW k \in DOMAIN T, T[k].t = "proc"
      PROVE  ~T[k].v.stopped
  <2>1. PICK x : x = T[k]
    OBVIOUS
  <2>2. ProcItem(D, r, x)
    BY <2>1, <1>1, <1>2 DEF Item
  <2>3. r.t = "wi" => r.v.proc \in DOMAIN D["proc"]
    BY RecordFacts
  <2> QED
    BY <2>1, <2>2, <2>3 DEF ProcItem, NoStops, Grown
<1>3. ASSUME NEW k \in DOMAIN T, T[k].t = "df"
      PROVE  ~T[k].v.deleted
  <2>1. PICK x : x = T[k]
    OBVIOUS
  <2>2. DfItem(D, r, x)
    BY <2>1, <1>1, <1>3 DEF Item
  <2>3. r.t = "df" => r.id \in DOMAIN D["df"]
    BY RecordFacts
  <2> QED
    BY <2>1, <2>2, <2>3 DEF DfItem, NoStops
<1> QED
  BY <1>2, <1>3 DEF NoStops

\* A decision after a write to something else than its form.
LEMMA ToldKept ==
  ASSUME NEW D, NEW E, NEW Q \in Seq(Record), NEW r \in Record, NEW T, NEW hand, NEW f, NEW x,
         Told(D, Q, T, hand, f, x), E["df"][f] = D["df"][f], ~UserForm(r, f),
         E["wo"][D["df"][f].wo] = D["wo"][D["df"][f].wo]
  PROVE  Told(E, Append(Q, r), T, hand, f, x)
<1>1. PICK P : P = Append(Q, r)
  OBVIOUS
<1>2. \A n : Due(Q, T, hand, f, x, n) => Due(P, T, hand, f, x, n)
  BY <1>1, DueAppend
<1>3. ASSUME NEW k \in DOMAIN P, UserForm(P[k], f)
      PROVE  k \in DOMAIN Q /\ P[k] = Q[k]
  BY <1>1, <1>3, AskAppend
<1>4. \A k \in DOMAIN P : UserForm(P[k], f) =>
        ~P[k].v.deleted /\ (Change(P[k], f, x) \/ (P[k].was.taken = 0 /\ P[k].v.taken = x))
  BY <1>3 DEF Told
<1>5. E["df"][f].taken # x => Due(P, T, hand, f, x, 0)
  BY <1>2 DEF Told
<1>6. ASSUME NEW k \in DOMAIN T, FormPut(T, k, f)
      PROVE  /\ T[k].v.taken # x => Due(P, T, hand, f, x, k)
             /\ T[k].v.done => Gives(E, T, E["df"][f].wo, x, k)
  <2>1. /\ T[k].v.taken # x => Due(Q, T, hand, f, x, k)
        /\ T[k].v.done => Gives(D, T, D["df"][f].wo, x, k)
    BY <1>6 DEF Told
  <2> QED
    BY <2>1, <1>2 DEF Gives
<1>7. x \in Results /\ (E["df"][f].done => E["wo"][E["df"][f].wo].out = x)
  BY DEF Told
<1> QED
  BY <1>1, <1>4, <1>5, <1>6, <1>7 DEF Told

\* A result that is to be given is given, or still to be given, after the first
\* write is sent.
LEMMA GivesTail ==
  ASSUME NEW D, NEW E, NEW T \in Seq(Write), T # <<>>, Stored(D, E, T[1]), NEW o, NEW x,
         NEW k \in Nat, Gives(D, T, o, x, k + 1), D["wo"][o].out = x => E["wo"][o].out = x
  PROVE  Gives(E, Tail(T), o, x, k)
<1>1. CASE D["wo"][o].out = x
  BY <1>1 DEF Gives
<1>2. CASE D["wo"][o].out # x
  <2>1. PICK j \in DOMAIN T : j < k + 1 /\ T[j].t = "wo" /\ T[j].id = o /\ T[j].v.out = x
    BY <1>2 DEF Gives
  <2>2. /\ DOMAIN T = 1 .. Len(T) /\ Len(T) \in Nat /\ DOMAIN Tail(T) = 1 .. (Len(T) - 1)
        /\ \A i \in DOMAIN Tail(T) : Tail(T)[i] = T[i + 1]
    BY TailFacts
  <2>3. CASE j = 1
    <3>1. E["wo"][o] = T[1].v
      BY <2>1, <2>3 DEF Stored
    <3> QED
      BY <3>1, <2>1, <2>3 DEF Gives
  <2>4. CASE j # 1
    <3>1. j - 1 \in DOMAIN Tail(T) /\ Tail(T)[j - 1] = T[j] /\ j - 1 < k
      BY <2>1, <2>2, <2>4
    <3> QED
      BY <3>1, <2>1 DEF Gives
  <2> QED
    BY <2>3, <2>4
<1> QED
  BY <1>1, <1>2
\* The result of a work order whose form has a decision stays, or is that
\* decision.
LEMMA OutStays ==
  ASSUME NEW D, NEW E, NEW Q, NEW T, NEW hand, DbOK(D), QueueOK(D, Q), TodoOK(D, T), T # <<>>,
         Q # <<>>, Stored(D, E, T[1]), OneForm(D), DecisionsSent(D, Q, T),
         NEW f \in DOMAIN D["df"], NEW x, Told(D, Q, T, hand, f, x),
         D["wo"][D["df"][f].wo].out = x
  PROVE  E["wo"][D["df"][f].wo].out = x
<1>1. PICK o : o = D["df"][f].wo
  OBVIOUS
<1>2. o \in DOMAIN D["wo"] /\ D["wo"][o].executor \in Users
  BY <1>1, DbFacts
<1>3. Fits(D, T[1]) /\ 1 \in DOMAIN T /\ 1 \in DOMAIN Q
  BY HeadFits, TailFacts DEF TodoOK, QueueOK
<1>4. CASE T[1].t = "wo" /\ T[1].id = o
  <2>1. E["wo"][o] = T[1].v
    BY <1>3, <1>4, FormLinks
  <2>2. OutSent(D, Q, T, 1)
    BY <1>3, <1>4 DEF DecisionsSent
  <2>3. CASE T[1].v.out = D["wo"][o].out
    BY <2>1, <2>3, <1>1
  <2>4. CASE /\ UserForm(Q[1], Q[1].id) /\ Q[1].was.taken = 0
             /\ Q[1].v.wo = T[1].id /\ Q[1].v.taken = T[1].v.out
    <3>1. Q[1].t = "df" /\ Q[1].id \in DOMAIN D["df"] /\ Q[1].v.wo = D["df"][Q[1].id].wo
      BY <2>4, <1>3 DEF UserForm, QueueOK, Good, Same
    <3>2. Q[1].id = f
      BY <3>1, <2>4, <1>1, <1>4 DEF OneForm
    <3>3. Change(Q[1], f, x) \/ Q[1].v.taken = x
      BY <3>2, <2>4, <1>3 DEF Told
    <3>4. x # 0
      BY DEF Told, Results
    <3> QED
      BY <3>3, <3>4, <2>1, <2>4, <1>1 DEF Change
  <2> QED
    BY <2>2, <2>3, <2>4, <1>2, <1>4 DEF OutSent
<1>5. CASE ~(T[1].t = "wo" /\ T[1].id = o)
  <2>1. E["wo"][o] = D["wo"][o]
    BY <1>2, <1>3, <1>5, FormLinks
  <2> QED
    BY <2>1, <1>1
<1> QED
  BY <1>4, <1>5

\* A decision after the first write of a script is sent.
LEMMA ToldSent ==
  ASSUME NEW D, NEW E, NEW Q \in Seq(Record), NEW r \in Record, NEW T, NEW hand,
         DbOK(D), TodoOK(D, T), T # <<>>, Stored(D, E, T[1]), NEW f \in DOMAIN D["df"], NEW x,
         Told(D, Q, T, hand, f, x), ~UserForm(r, f), ~E["df"][f].deleted,
         D["wo"][D["df"][f].wo].out = x => E["wo"][D["df"][f].wo].out = x
  PROVE  Told(E, Append(Q, r), Tail(T), hand, f, x)
<1>1. PICK P : P = Append(Q, r)
  OBVIOUS
<1>2. PICK U : U = Tail(T)
  OBVIOUS
<1>3. T \in Seq(Write) /\ Fits(D, T[1])
  BY HeadFits DEF TodoOK
<1>4. /\ 1 \in DOMAIN T
      /\ \A k \in DOMAIN U : k \in Nat /\ k + 1 \in DOMAIN T /\ U[k] = T[k + 1]
  BY <1>2, <1>3, TailFacts
<1>5. /\ E["df"][f].wo = D["df"][f].wo
      /\ T[1].t # "df" \/ T[1].id # f => E["df"][f] = D["df"][f]
      /\ T[1].t = "df" /\ T[1].id = f => E["df"][f] = T[1].v
  BY <1>3, FormLinks
<1>6. ASSUME NEW n \in Nat, NEW m \in Nat, m = n - 1 \/ (m = n /\ n = 0 /\ ~FormPut(T, 1, f)),
             Due(Q, T, hand, f, x, n)
      PROVE  Due(P, U, hand, f, x, m)
  <2>1. Due(Q, U, hand, f, x, m)
    BY <1>2, <1>3, <1>6, DueTail
  <2> QED
    BY <2>1, <1>1, DueAppend
<1>7. ASSUME NEW k \in DOMAIN P, UserForm(P[k], f)
      PROVE  k \in DOMAIN Q /\ P[k] = Q[k]
  BY <1>1, <1>7, AskAppend
<1>8. \A k \in DOMAIN P : UserForm(P[k], f) =>
        ~P[k].v.deleted /\ (Change(P[k], f, x) \/ (P[k].was.taken = 0 /\ P[k].v.taken = x))
  BY <1>7 DEF Told
<1>9. ASSUME E["df"][f].taken # x
      PROVE  Due(P, U, hand, f, x, 0)
  <2>1. CASE T[1].t = "df" /\ T[1].id = f
    <3>1. FormPut(T, 1, f) /\ T[1].v.taken # x
      BY <2>1, <1>5, <1>9 DEF FormPut
    <3>2. Due(Q, T, hand, f, x, 1)
      BY <3>1, <1>4 DEF Told
    <3> QED
      BY <3>2, <1>6
  <2>2. CASE ~(T[1].t = "df" /\ T[1].id = f)
    <3>1. Due(Q, T, hand, f, x, 0)
      BY <2>2, <1>5, <1>9 DEF Told
    <3>2. ~FormPut(T, 1, f)
      BY <2>2 DEF FormPut
    <3> QED
      BY <3>1, <3>2, <1>6
  <2> QED
    BY <2>1, <2>2
<1>10. ASSUME E["df"][f].done
       PROVE  E["wo"][E["df"][f].wo].out = x
  <2>1. CASE T[1].t = "df" /\ T[1].id = f
    <3>1. FormPut(T, 1, f) /\ T[1].v.done
      BY <2>1, <1>5, <1>10 DEF FormPut
    <3>2. Gives(D, T, D["df"][f].wo, x, 1)
      BY <3>1, <1>4 DEF Told
    <3>3. \A j \in DOMAIN T : ~(j < 1)
      BY <1>3
    <3> QED
      BY <3>2, <3>3, <1>5 DEF Gives
  <2>2. CASE ~(T[1].t = "df" /\ T[1].id = f)
    BY <2>2, <1>5, <1>10 DEF Told
  <2> QED
    BY <2>1, <2>2
<1>11. ASSUME NEW k \in DOMAIN U, FormPut(U, k, f)
       PROVE  /\ U[k].v.taken # x => Due(P, U, hand, f, x, k)
              /\ U[k].v.done => Gives(E, U, E["df"][f].wo, x, k)
  <2>1. k \in Nat /\ k + 1 \in DOMAIN T /\ U[k] = T[k + 1] /\ FormPut(T, k + 1, f)
    BY <1>4, <1>11 DEF FormPut
  <2>2. /\ T[k + 1].v.taken # x => Due(Q, T, hand, f, x, k + 1)
        /\ T[k + 1].v.done => Gives(D, T, D["df"][f].wo, x, k + 1)
    BY <2>1 DEF Told
  <2>3. U[k].v.taken # x => Due(P, U, hand, f, x, k)
    BY <2>1, <2>2, <1>6
  <2>4. U[k].v.done => Gives(E, U, D["df"][f].wo, x, k)
    BY <2>1, <2>2, <1>2, <1>3, GivesTail
  <2> QED
    BY <2>3, <2>4, <1>5
<1> QED
  BY <1>1, <1>2, <1>8, <1>9, <1>10, <1>11 DEF Told

\* A form after the first write of a script is sent.
LEMMA FormSentOK ==
  ASSUME NEW D, NEW E, NEW Q, NEW T, NEW hand, NEW by \in Author, by # User,
         DbOK(D), QueueOK(D, Q), TodoOK(D, T), T # <<>>, Q # <<>>, Stored(D, E, T[1]),
         OneForm(D), DecisionsSent(D, Q, T), NEW n, NEW f \in DOMAIN D["df"],
         FormOK(D, Q, T, hand, n, f)
  PROVE  FormOK(E, Append(Q, RecordOf(D, T[1], by)), Tail(T), hand, n, f)
<1>1. PICK r : r = RecordOf(D, T[1], by)
  OBVIOUS
<1>2. Fits(D, T[1]) /\ T \in Seq(Write) /\ Q \in Seq(Record)
  BY HeadFits DEF TodoOK, QueueOK
<1>3. r \in Record /\ r.by = by /\ ~UserForm(r, f)
  BY <1>1, <1>2, QueueKept, RecordFields DEF UserForm
<1>4. /\ 1 \in DOMAIN T
      /\ \A k \in DOMAIN Tail(T) : k + 1 \in DOMAIN T /\ Tail(T)[k] = T[k + 1]
  BY <1>2, TailFacts
<1>5. /\ T[1].t # "df" \/ T[1].id # f => E["df"][f] = D["df"][f]
      /\ T[1].t = "df" /\ T[1].id = f => E["df"][f] = T[1].v
  BY <1>2, FormLinks
<1>6. \A k \in DOMAIN Tail(T) : FormPut(Tail(T), k, f) => k + 1 \in DOMAIN T /\ FormPut(T, k + 1, f)
  BY <1>4 DEF FormPut
<1>7. ASSUME D["df"][f].deleted
      PROVE  E["df"][f].deleted
  <2>1. CASE T[1].t = "df" /\ T[1].id = f
    BY <2>1, <1>4, <1>5, <1>7 DEF DecisionsSent, FormSent
  <2>2. CASE ~(T[1].t = "df" /\ T[1].id = f)
    BY <2>2, <1>5, <1>7
  <2> QED
    BY <2>1, <2>2
<1>8. SUFFICES ASSUME ~E["df"][f].deleted
               PROVE  FormOK(E, Append(Q, r), Tail(T), hand, n, f)
  BY <1>1 DEF FormOK
<1>9. CASE n = 0 /\ Untold(D, Q, T, f)
  <2>1. ~(T[1].t = "df" /\ T[1].id = f)
    BY <1>4, <1>5, <1>8, <1>9 DEF Untold, FormPut
  <2>2. E["df"][f].taken = 0 /\ ~E["df"][f].done
    BY <2>1, <1>5, <1>9 DEF Untold
  <2>3. \A k \in DOMAIN Append(Q, r) : ~UserForm(Append(Q, r)[k], f)
    BY <1>2, <1>3, <1>9, AskAppend DEF Untold
  <2>4. \A k \in DOMAIN Tail(T) : ~FormPut(Tail(T), k, f)
    BY <1>6, <1>9 DEF Untold
  <2> QED
    BY <2>2, <2>3, <2>4, <1>9 DEF FormOK, Untold
<1>10. CASE n \in {1, 2} /\ \E x \in Results : Told(D, Q, T, hand, f, x) /\ (n = 1 => Once(D, T, f, x))
  <2>1. PICK x \in Results : Told(D, Q, T, hand, f, x) /\ (n = 1 => Once(D, T, f, x))
    BY <1>10
  <2>2. D["wo"][D["df"][f].wo].out = x => E["wo"][D["df"][f].wo].out = x
    BY <2>1, OutStays
  <2>3. Told(E, Append(Q, r), Tail(T), hand, f, x)
    BY <2>1, <2>2, <1>2, <1>3, <1>8, ToldSent
  <2>4. ASSUME n = 1
        PROVE  Once(E, Tail(T), f, x)
    <3>1. /\ D["df"][f].taken = x
          /\ \A k \in DOMAIN T : FormPut(T, k, f) => T[k].v.taken = x
      BY <2>1, <2>4 DEF Once
    <3>2. E["df"][f].taken = x
      <4>1. CASE T[1].t = "df" /\ T[1].id = f
        <5>1. FormPut(T, 1, f)
          BY <4>1, <1>5, <1>8 DEF FormPut
        <5> QED
          BY <5>1, <4>1, <3>1, <1>4, <1>5
      <4>2. CASE ~(T[1].t = "df" /\ T[1].id = f)
        BY <4>2, <3>1, <1>5
      <4> QED
        BY <4>1, <4>2
    <3>3. \A k \in DOMAIN Tail(T) : FormPut(Tail(T), k, f) => Tail(T)[k].v.taken = x
      BY <3>1, <1>4, <1>6
    <3> QED
      BY <3>2, <3>3 DEF Once
  <2> QED
    BY <2>1, <2>3, <2>4, <1>10 DEF FormOK
<1> QED
  BY <1>7, <1>8, <1>9, <1>10 DEF FormOK
\* A form after a user's write to something else.
LEMMA FormUserOK ==
  ASSUME NEW D, NEW E, NEW Q, NEW T, NEW hand, NEW w, DbOK(D), QueueOK(D, Q), ByUser(D, w),
         Stored(D, E, w), User \in Author, NEW n, NEW f \in DOMAIN D["df"],
         w.t # "df" \/ w.id # f, FormOK(D, Q, T, hand, n, f)
  PROVE  FormOK(E, Append(Q, RecordOf(D, w, User)), T, hand, n, f)
<1>1. PICK r : r = RecordOf(D, w, User)
  OBVIOUS
<1>2. Fits(D, w) /\ w.t # "wo" /\ Q \in Seq(Record)
  BY DEF ByUser, QueueOK
<1>3. r \in Record /\ ~UserForm(r, f)
  BY <1>1, <1>2, QueueKept, RecordFields DEF UserForm
<1>4. E["df"][f] = D["df"][f] /\ D["df"][f].wo \in DOMAIN D["wo"]
  BY <1>2, FormLinks, DbFacts
<1>5. E["wo"][D["df"][f].wo] = D["wo"][D["df"][f].wo]
  BY <1>2, <1>4, FormLinks
<1>6. CASE D["df"][f].deleted
  BY <1>4, <1>6 DEF FormOK
<1>7. CASE n = 0 /\ Untold(D, Q, T, f)
  <2>1. \A k \in DOMAIN Append(Q, r) : ~UserForm(Append(Q, r)[k], f)
    BY <1>2, <1>3, <1>7, AskAppend DEF Untold
  <2>2. Untold(E, Append(Q, r), T, f)
    BY <2>1, <1>4, <1>7 DEF Untold
  <2> QED
    BY <2>2, <1>1, <1>7 DEF FormOK
<1>8. CASE n \in {1, 2} /\ \E x \in Results : Told(D, Q, T, hand, f, x) /\ (n = 1 => Once(D, T, f, x))
  <2>1. PICK x \in Results : Told(D, Q, T, hand, f, x) /\ (n = 1 => Once(D, T, f, x))
    BY <1>8
  <2>2. Told(E, Append(Q, r), T, hand, f, x)
    BY <2>1, <1>2, <1>3, <1>4, <1>5, ToldKept
  <2>3. n = 1 => Once(E, T, f, x)
    BY <2>1, <1>4 DEF Once
  <2> QED
    BY <2>1, <2>2, <2>3, <1>1, <1>8 DEF FormOK
<1> QED
  BY <1>6, <1>7, <1>8 DEF FormOK

\* A new form has no decision.
LEMMA FormNewOK ==
  ASSUME NEW D, NEW E, NEW Q, NEW T, NEW hand, NEW by \in Author, by # User,
         DbOK(D), QueueOK(D, Q), TodoOK(D, T), T # <<>>, Stored(D, E, T[1]),
         DecisionsSent(D, Q, T), NEW f \in DOMAIN E["df"], f \notin DOMAIN D["df"]
  PROVE  FormOK(E, Append(Q, RecordOf(D, T[1], by)), Tail(T), hand, 0, f)
<1>1. PICK r : r = RecordOf(D, T[1], by)
  OBVIOUS
<1>2. Fits(D, T[1]) /\ T \in Seq(Write) /\ Q \in Seq(Record)
  BY HeadFits DEF TodoOK, QueueOK
<1>3. r \in Record /\ ~UserForm(r, f)
  BY <1>1, <1>2, QueueKept, RecordFields DEF UserForm
<1>4. /\ 1 \in DOMAIN T /\ Len(T) \in Nat /\ DOMAIN Tail(T) = 1 .. (Len(T) - 1)
      /\ \A k \in DOMAIN Tail(T) : k + 1 \in DOMAIN T /\ Tail(T)[k] = T[k + 1]
  BY <1>2, TailFacts
<1>5. T[1].t = "df" /\ T[1].id = f /\ E["df"][f] = T[1].v
  BY <1>2, FormLinks
<1>6. T[1].v.taken = 0 /\ ~T[1].v.done /\ \A j \in DOMAIN T : T[j].t = "df" => j = 1
  BY <1>4, <1>5 DEF DecisionsSent, FormSent
<1>7. ASSUME NEW k \in DOMAIN Append(Q, r), UserForm(Append(Q, r)[k], f)
      PROVE  FALSE
  <2>1. k \in DOMAIN Q /\ UserForm(Q[k], f)
    BY <1>2, <1>3, <1>7, AskAppend
  <2> QED
    BY <2>1 DEF UserForm, QueueOK
<1>8. ASSUME NEW k \in DOMAIN Tail(T), FormPut(Tail(T), k, f)
      PROVE  FALSE
  <2>1. k + 1 = 1 /\ k \in Nat /\ k # 0
    BY <1>4, <1>6, <1>8 DEF FormPut
  <2> QED
    BY <2>1
<1> QED
  BY <1>1, <1>5, <1>6, <1>7, <1>8 DEF FormOK, Untold

\* A user writes the decision of a form, the first time.
LEMMA ToldFirst ==
  ASSUME NEW D, NEW E, NEW Q, NEW T, NEW hand, NEW w, DbOK(D), QueueOK(D, Q), ByUser(D, w),
         Stored(D, E, w), User \in Author, NEW f \in DOMAIN D["df"], w.t = "df", w.id = f,
         Untold(D, Q, T, f), w.v.taken \in Results
  PROVE  FormOK(E, Append(Q, RecordOf(D, w, User)), T, hand, 1, f)
<1>1. PICK r : r = RecordOf(D, w, User)
  OBVIOUS
<1>2. PICK P : P = Append(Q, r)
  OBVIOUS
<1>3. PICK x : x = w.v.taken
  OBVIOUS
<1>4. Fits(D, w) /\ Q \in Seq(Record) /\ ~w.v.deleted /\ ~w.v.done
  BY DEF ByUser, QueueOK, Untold
<1>5. r \in Record /\ r.v = w.v /\ r.was = D["df"][f]
  <2>1. ~(w.id > Len(D[w.t]))
    BY DbFacts DEF Types
  <2> QED
    BY <2>1, <1>1, <1>4, QueueKept, RecordFields DEF RecordOf
<1>6. E["df"][f] = w.v
  BY <1>4, FormLinks
<1>7. ASSUME NEW k \in DOMAIN P, UserForm(P[k], f)
      PROVE  ~P[k].v.deleted /\ P[k].was.taken = 0 /\ P[k].v.taken = x
  <2>1. P[k] = r
    BY <1>2, <1>4, <1>5, <1>7, AskAppend DEF Untold
  <2> QED
    BY <2>1, <1>3, <1>4, <1>5 DEF Untold
<1>8. \A k \in DOMAIN T : ~FormPut(T, k, f)
  BY DEF Untold
<1>9. Told(E, P, T, hand, f, x)
  BY <1>3, <1>4, <1>6, <1>7, <1>8 DEF Told
<1>10. Once(E, T, f, x)
  BY <1>3, <1>6, <1>8 DEF Once
<1> QED
  BY <1>1, <1>2, <1>3, <1>9, <1>10 DEF FormOK

\* A user writes the decision of a form again.
LEMMA ToldAgain ==
  ASSUME NEW D, NEW E, NEW Q, NEW T, NEW hand, NEW w, DbOK(D), QueueOK(D, Q), ByUser(D, w),
         Stored(D, E, w), User \in Author, NEW f \in DOMAIN D["df"], w.t = "df", w.id = f,
         NEW x \in Results, Told(D, Q, T, hand, f, x), Once(D, T, f, x), w.v.taken # x,
         hand => Q # <<>>
  PROVE  FormOK(E, Append(Q, RecordOf(D, w, User)), T, hand, 2, f)
<1>1. PICK r : r = RecordOf(D, w, User)
  OBVIOUS
<1>2. PICK P : P = Append(Q, r)
  OBVIOUS
<1>3. Fits(D, w) /\ Q \in Seq(Record) /\ ~w.v.deleted /\ w.v.done = D["df"][f].done
  BY DEF ByUser, QueueOK
<1>4. /\ r \in Record /\ r.v = w.v /\ r.was = D["df"][f] /\ r.t = "df" /\ r.id = f
      /\ r.by = User
  <2>1. ~(w.id > Len(D[w.t]))
    BY DbFacts DEF Types
  <2> QED
    BY <2>1, <1>1, <1>3, QueueKept, RecordFields DEF RecordOf
<1>5. E["df"][f] = w.v /\ E["df"][f].wo = D["df"][f].wo
  BY <1>3, FormLinks
<1>6. D["df"][f].wo \in DOMAIN D["wo"]
  BY DbFacts
<1>7. E["wo"][D["df"][f].wo] = D["wo"][D["df"][f].wo]
  BY <1>3, <1>6, FormLinks
<1>8. Change(r, f, x)
  BY <1>4 DEF Change, UserForm, Once
<1>9. ASSUME NEW k \in DOMAIN P, UserForm(P[k], f)
      PROVE  ~P[k].v.deleted /\ (Change(P[k], f, x) \/ (P[k].was.taken = 0 /\ P[k].v.taken = x))
  <2>1. CASE k \in DOMAIN Q /\ P[k] = Q[k]
    BY <2>1, <1>9 DEF Told
  <2>2. CASE P[k] = r
    BY <2>2, <1>3, <1>4, <1>8
  <2> QED
    BY <2>1, <2>2, <1>2, <1>3, <1>4, AskAppend
<1>10. \A n : Due(P, T, hand, f, x, n)
  <2>1. /\ DOMAIN Q = 1 .. Len(Q) /\ Len(Q) \in Nat /\ DOMAIN P = 1 .. (Len(Q) + 1)
        /\ P[Len(Q) + 1] = r
    BY <1>2, <1>3, <1>4, AppendFacts
  <2>2. hand => Len(Q) # 0
    BY <1>3
  <2>3. Len(Q) + 1 \in DOMAIN P /\ ~(Len(Q) + 1 = 1 /\ hand)
    BY <2>1, <2>2
  <2> QED
    BY <2>1, <2>3, <1>8 DEF Due
<1>11. ASSUME NEW k \in DOMAIN T, FormPut(T, k, f), T[k].v.done
       PROVE  Gives(E, T, E["df"][f].wo, x, k)
  <2>1. Gives(D, T, D["df"][f].wo, x, k)
    BY <1>11 DEF Told
  <2> QED
    BY <2>1, <1>5, <1>7 DEF Gives
<1>12. E["df"][f].done => E["wo"][E["df"][f].wo].out = x
  BY <1>3, <1>5, <1>7 DEF Told
<1>13. Told(E, P, T, hand, f, x)
  BY <1>9, <1>10, <1>11, <1>12 DEF Told
<1> QED
  BY <1>1, <1>2, <1>13 DEF FormOK
\* A script that writes to forms that are there is run for a user's decision.
LEMMA UserRuns ==
  ASSUME NEW r, SourceOK(r), Triggered(r), r.t = "df", NEW T, T = Writes(r), T # <<>>
  PROVE  UserForm(r, r.id)
<1>1. T = prepare_decision_form(r.id, r.v, r.was)
  BY DEF Writes
<1>2. r.v.taken # 0 \/ r.was.taken # 0
  BY <1>1 DEF prepare_decision_form, TakeDecision
<1> QED
  BY <1>2, UserDecides

\* The change of a decision is undone by its script.
LEMMA ChangeRuns ==
  ASSUME DbOK(db), NEW r, IsRecord(db, r), NEW f, NEW x \in Results, Change(r, f, x), ~r.v.deleted
  PROVE  /\ Triggered(r) /\ Writes(r) # <<>> /\ r.id = f
         /\ DOMAIN Writes(r) = {1, 2}
         /\ Writes(r)[2].t = "df" /\ Writes(r)[2].id = f /\ Writes(r)[2].v.taken = x
         /\ Writes(r)[2].v.deleted = db["df"][f].deleted
<1>1. /\ r.t = "df" /\ r.id = f /\ r.by = User /\ r.was.taken = x /\ r.v.taken # x
      /\ x # 0
  BY DEF Change, UserForm, Results
<1>2. r.by # <<"df", r.id, "df5">>
  BY <1>1 DEF User
<1>3. Triggered(r)
  BY <1>1, <1>2 DEF Triggered, Script
<1>4. Writes(r) = prepare_decision_form(r.id, r.v, r.was)
  BY <1>1 DEF Writes
<1>5. PICK T : T = prepare_decision_form(r.id, r.v, r.was)
  OBVIOUS
<1>6. /\ T # <<>> /\ DOMAIN T = {1, 2}
      /\ T[2].t = "df" /\ T[2].id = r.id /\ T[2].v.taken = r.was.taken
      /\ T[2].v.deleted = db["df"][r.id].deleted
  BY <1>1, <1>5, DecisionOrder
<1> QED
  BY <1>1, <1>3, <1>4, <1>5, <1>6

\* A decision when the script of another record is run.
LEMMA ToldApart ==
  ASSUME NEW D, NEW Q, NEW U, DOMAIN U = {}, NEW T, NEW f, NEW x, Told(D, Q, U, FALSE, f, x),
         ~Change(Q[1], f, x), \A k \in DOMAIN T : ~FormPut(T, k, f)
  PROVE  Told(D, Q, T, TRUE, f, x)
<1>1. D["df"][f].taken # x => Due(Q, T, TRUE, f, x, 0)
  <2>1. ASSUME D["df"][f].taken # x
        PROVE  Due(Q, T, TRUE, f, x, 0)
    <3>1. Due(Q, U, FALSE, f, x, 0)
      BY <2>1 DEF Told
    <3>2. \E k \in DOMAIN Q : Change(Q[k], f, x) /\ k # 1
      BY <3>1 DEF Due
    <3> QED
      BY <3>2 DEF Due
  <2> QED
    BY <2>1
<1> QED
  BY <1>1 DEF Told

\* A decision when the script of its form is run.
LEMMA ToldRun ==
  ASSUME TInv, queue # <<>>, NEW r, r = queue[1], NEW f \in DOMAIN db["df"], UserForm(r, f),
         NEW T, T = Writes(r), List(db, r, T), T # <<>>, ~db["df"][f].deleted,
         NEW U, DOMAIN U = {}, NEW x \in Results, Told(db, queue, U, FALSE, f, x)
  PROVE  /\ Told(db, queue, T, TRUE, f, x)
         /\ db["df"][f].taken = x => \A k \in DOMAIN T : FormPut(T, k, f) => T[k].v.taken = x
<1>1. IsRecord(db, r) /\ DbOK(db) /\ 1 \in DOMAIN queue /\ r.t = "df" /\ r.id = f
  BY HeadRecord DEF UserForm
<1>2. T = prepare_decision_form(r.id, r.v, r.was)
  BY <1>1 DEF Writes
<1>3. ~r.v.deleted /\ (Change(r, f, x) \/ (r.was.taken = 0 /\ r.v.taken = x))
  BY <1>1 DEF Told
<1>4. x # 0 /\ r.v.wo = db["df"][f].wo
  BY <1>1, RecordFacts DEF Results, Same
<1>5. db["df"][f].done => db["wo"][db["df"][f].wo].out = x
  BY DEF Told
<1>6. ASSUME NEW k \in DOMAIN T, T[k].t = "df", T[k].v.done
      PROVE  Gives(db, T, db["df"][f].wo, x, k)
  <2>1. \/ db["df"][r.id].done
        \/ /\ r.was.taken = 0
           /\ \E j \in DOMAIN T : j < k /\ T[j].t = "wo" /\ T[j].id = r.v.wo /\ T[j].v.out = r.v.taken
    BY <1>1, <1>2, <1>6, DecisionOrder, SMTT(30)
  <2>2. CASE db["df"][r.id].done
    BY <2>2, <1>1, <1>5 DEF Gives
  <2>3. CASE ~db["df"][r.id].done
    <3>1. r.was.taken = 0
      BY <2>1, <2>3
    <3>2. r.v.taken = x
      BY <3>1, <1>3, <1>4 DEF Change
    <3> QED
      BY <3>2, <2>1, <2>3, <1>4 DEF Gives
  <2> QED
    BY <2>2, <2>3
<1>7. \A k \in DOMAIN T : Item(db, r, T[k])
  BY ListWrites
<1>8. ASSUME db["df"][f].taken = x, NEW k \in DOMAIN T, FormPut(T, k, f)
      PROVE  T[k].v.taken = x
  <2>1. PICK y : y = T[k]
    OBVIOUS
  <2>2. DfItem(db, r, y) /\ y.id = f
    BY <2>1, <1>7, <1>8 DEF Item, FormPut
  <2>3. \/ y.v.taken = db["df"][f].taken
        \/ r.was.taken # 0 /\ y.v.taken = r.was.taken
    BY <2>2, <1>1 DEF DfItem
  <2>4. r.was.taken # 0 => r.was.taken = x
    BY <1>3 DEF Change
  <2> QED
    BY <2>1, <2>3, <2>4, <1>8
<1>9. CASE Change(r, f, x)
  <2>1. DOMAIN T = {1, 2} /\ FormPut(T, 2, f) /\ T[2].v.taken = x
    BY <1>1, <1>3, <1>9, ChangeRuns DEF FormPut
  <2>2. Due(queue, T, TRUE, f, x, 0) /\ Due(queue, T, TRUE, f, x, 1)
    BY <2>1 DEF Due
  <2>3. \A k \in DOMAIN T : T[k].v.taken # x => Due(queue, T, TRUE, f, x, k)
    BY <2>1, <2>2
  <2>4. \A k \in DOMAIN T : FormPut(T, k, f) /\ T[k].v.done => Gives(db, T, db["df"][f].wo, x, k)
    BY <1>6 DEF FormPut
  <2>5. Told(db, queue, T, TRUE, f, x)
    BY <2>2, <2>3, <2>4, <1>5 DEF Told
  <2> QED
    BY <2>5, <1>8
<1>10. CASE r.was.taken = 0 /\ r.v.taken = x
  <2>1. ~Change(r, f, x)
    BY <1>10 DEF Change
  <2>2. ASSUME db["df"][f].taken # x
        PROVE  \A n : Due(queue, T, TRUE, f, x, n)
    <3>1. Due(queue, U, FALSE, f, x, 0)
      BY <2>2 DEF Told
    <3>2. \E k \in DOMAIN queue : Change(queue[k], f, x) /\ k # 1
      BY <3>1, <2>1 DEF Due
    <3> QED
      BY <3>2 DEF Due
  <2>3. \A k \in DOMAIN T : T[k].t = "df" => T[k].v.taken = db["df"][f].taken
    <3> TAKE k \in DOMAIN T
    <3> HAVE T[k].t = "df"
    <3>1. PICK y : y = T[k]
      OBVIOUS
    <3>2. DfItem(db, r, y)
      BY <3>1, <1>7 DEF Item
    <3>3. y.v.taken = db["df"][f].taken
      BY <3>2, <1>1, <1>10 DEF DfItem
    <3> QED
      BY <3>1, <3>3
  <2>4. \A k \in DOMAIN T : FormPut(T, k, f) /\ T[k].v.taken # x => Due(queue, T, TRUE, f, x, k)
    BY <2>2, <2>3 DEF FormPut
  <2>5. \A k \in DOMAIN T : FormPut(T, k, f) /\ T[k].v.done => Gives(db, T, db["df"][f].wo, x, k)
    BY <1>6 DEF FormPut
  <2>6. Told(db, queue, T, TRUE, f, x)
    BY <2>2, <2>4, <2>5, <1>5 DEF Told
  <2> QED
    BY <2>6, <1>8
<1> QED
  BY <1>3, <1>9, <1>10

\* A form when a script is run.
LEMMA FormRunOK ==
  ASSUME TInv, queue # <<>>, NEW r, r = queue[1], SourceOK(r), Triggered(r),
         NEW T, T = Writes(r), List(db, r, T), T # <<>>, DecisionsSent(db, queue, T),
         NEW U, DOMAIN U = {}, NEW n, NEW f \in DOMAIN db["df"],
         FormOK(db, queue, U, FALSE, n, f)
  PROVE  FormOK(db, queue, T, TRUE, n, f)
<1>1. SUFFICES ASSUME ~db["df"][f].deleted
               PROVE  FormOK(db, queue, T, TRUE, n, f)
  BY DEF FormOK
<1>2. ASSUME NEW k \in DOMAIN T, FormPut(T, k, f)
      PROVE  UserForm(r, f)
  <2>1. r.t = "df" /\ r.id = f
    BY <1>2 DEF DecisionsSent, FormSent, FormPut
  <2> QED
    BY <2>1, UserRuns
<1>3. 1 \in DOMAIN queue
  BY HeadRecord
<1>4. CASE n = 0 /\ Untold(db, queue, U, f)
  <2>1. ~UserForm(r, f)
    BY <1>3, <1>4 DEF Untold
  <2>2. Untold(db, queue, T, f)
    BY <2>1, <1>2, <1>4 DEF Untold
  <2> QED
    BY <2>2, <1>4 DEF FormOK
<1>5. CASE /\ n \in {1, 2}
           /\ \E x \in Results : Told(db, queue, U, FALSE, f, x) /\ (n = 1 => Once(db, U, f, x))
  <2>1. PICK x \in Results : Told(db, queue, U, FALSE, f, x) /\ (n = 1 => Once(db, U, f, x))
    BY <1>5
  <2>2. CASE UserForm(r, f)
    <3>1. /\ Told(db, queue, T, TRUE, f, x)
          /\ db["df"][f].taken = x => \A k \in DOMAIN T : FormPut(T, k, f) => T[k].v.taken = x
      BY <2>1, <2>2, <1>1, ToldRun
    <3>2. n = 1 => Once(db, T, f, x)
      BY <3>1, <2>1 DEF Once
    <3> QED
      BY <3>1, <3>2, <1>5 DEF FormOK
  <2>3. CASE ~UserForm(r, f)
    <3>1. \A k \in DOMAIN T : ~FormPut(T, k, f)
      BY <2>3, <1>2
    <3>2. Told(db, queue, T, TRUE, f, x)
      BY <3>1, <2>1, <2>3, ToldApart DEF Change
    <3>3. n = 1 => Once(db, T, f, x)
      BY <3>1, <2>1 DEF Once
    <3> QED
      BY <3>2, <3>3, <1>5 DEF FormOK
  <2> QED
    BY <2>2, <2>3
<1> QED
  BY <1>1, <1>4, <1>5 DEF FormOK

\* A form when the first record is done with.
LEMMA FormNextOK ==
  ASSUME NEW D, NEW Q \in Seq(Record), Q # <<>>, NEW U, DOMAIN U = {}, NEW hand, NEW n, NEW f,
         FormOK(D, Q, U, hand, n, f),
         \A x \in Results : Told(D, Q, U, hand, f, x) => hand \/ ~Change(Q[1], f, x)
  PROVE  FormOK(D, Tail(Q), U, FALSE, n, f)
<1>1. \A k \in DOMAIN Tail(Q) : k + 1 \in DOMAIN Q /\ Tail(Q)[k] = Q[k + 1]
  BY TailFacts
<1>2. \A k \in DOMAIN U : FALSE
  OBVIOUS
<1>3. CASE D["df"][f].deleted
  BY <1>3 DEF FormOK
<1>4. CASE n = 0 /\ Untold(D, Q, U, f)
  <2>1. Untold(D, Tail(Q), U, f)
    BY <1>1, <1>4 DEF Untold
  <2> QED
    BY <2>1, <1>4 DEF FormOK
<1>5. CASE n \in {1, 2} /\ \E x \in Results : Told(D, Q, U, hand, f, x) /\ (n = 1 => Once(D, U, f, x))
  <2>1. PICK x \in Results : Told(D, Q, U, hand, f, x) /\ (n = 1 => Once(D, U, f, x))
    BY <1>5
  <2>2. Due(Q, U, hand, f, x, 0) => Due(Tail(Q), U, FALSE, f, x, 0)
    BY <2>1, DueNext
  <2>3. \A k \in DOMAIN Tail(Q) : UserForm(Tail(Q)[k], f) =>
          /\ ~Tail(Q)[k].v.deleted
          /\ Change(Tail(Q)[k], f, x) \/ (Tail(Q)[k].was.taken = 0 /\ Tail(Q)[k].v.taken = x)
    BY <2>1, <1>1 DEF Told
  <2>4. Told(D, Tail(Q), U, FALSE, f, x)
    BY <2>1, <2>2, <2>3, <1>2 DEF Told
  <2> QED
    BY <2>1, <2>4, <1>5 DEF FormOK
<1> QED
  BY <1>3, <1>4, <1>5 DEF FormOK
\* Whether the first record is in hand, said in two ways.
LEMMA HandFree ==
  ASSUME NEW D, NEW Q, NEW T, NEW g, NEW h, g <=> h
  PROVE  /\ \A a : FormsOK(D, Q, T, g, a) => FormsOK(D, Q, T, h, a)
         /\ \A c : DecOK(D, Q, T, g, c) => DecOK(D, Q, T, h, c)
<1>1. \A f, x, n : Due(Q, T, g, f, x, n) <=> Due(Q, T, h, f, x, n)
  BY DEF Due
<1>2. \A f, x : Told(D, Q, T, g, f, x) <=> Told(D, Q, T, h, f, x)
  BY <1>1 DEF Told
<1>3. \A n, f : FormOK(D, Q, T, g, n, f) <=> FormOK(D, Q, T, h, n, f)
  BY <1>2 DEF FormOK
<1>4. AsksOK(D, Q, g) <=> AsksOK(D, Q, h)
  BY DEF AsksOK
<1>5. \A a : FormsOK(D, Q, T, g, a) => FormsOK(D, Q, T, h, a)
  BY <1>3 DEF FormsOK
<1>6. \A c : DecOK(D, Q, T, g, c) => DecOK(D, Q, T, h, c)
  BY <1>4 DEF DecOK
<1> QED
  BY <1>5, <1>6

\* An item is sent.
LEMMA DecSent ==
  ASSUME NEW D, NEW E, NEW Q, NEW T, NEW c, DbOK(D), QueueOK(D, Q), TodoOK(D, T), T # <<>>, Q # <<>>,
         Stored(D, E, T[1]), SendsOK(D, Q, T), By(Q[1]) \in Author, DecOK(D, Q, T, TRUE, c)
  PROVE  DecOK(E, Append(Q, RecordOf(D, T[1], By(Q[1]))), Tail(T), TRUE, c)
<1>1. PICK w : w = T[1]
  OBVIOUS
<1>2. PICK by : by = By(Q[1])
  OBVIOUS
<1>3. Fits(D, w) /\ Stored(D, E, w) /\ by \in Author /\ Q \in Seq(Record) /\ T \in Seq(Write)
  BY <1>1, <1>2, HeadFits DEF QueueOK, TodoOK
<1>4. 1 \in DOMAIN T /\ 1 \in DOMAIN Q
  BY <1>3, TailFacts
<1>5. RecordOf(D, w, by) \in Record
  BY <1>3, QueueKept
<1>6. /\ w.t = "df" => FormSent(D, Q, T, 1)
      /\ w.t = "wo" => OrderSent(D, Q, T, 1)
  BY <1>1, <1>4 DEF DecOK, DecisionsSent, SendsOK
<1>7. AskFits(D, Q, w, by, TRUE)
  <2>1. ASSUME w.t = "wo", w.id \in DOMAIN D["wo"], w.v.out = 0
        PROVE  by = <<"wo", w.id, "df4">>
    <3>1. Q[1].t = "wo" /\ Q[1].id = w.id
      BY <2>1, <1>1, <1>6 DEF OrderSent
    <3> QED
      BY <3>1, <1>2 DEF By, Script
  <2>2. ASSUME w.t = "df", w.id \notin DOMAIN D["df"]
        PROVE  \A j \in DOMAIN Q : Ask(Q[j]) /\ Q[j].id = w.v.wo => j = 1
    BY <2>2, <1>1, <1>6 DEF FormSent
  <2> QED
    BY <2>1, <2>2 DEF AskFits
<1>8. OneForm(E)
  <2>1. w.t = "df" /\ w.id \notin DOMAIN D["df"] => NoForm(D, w.v.wo)
    BY <1>1, <1>6 DEF FormSent
  <2> QED
    BY <2>1, <1>3, OneFormKept DEF DecOK
<1>9. AsksOK(E, Append(Q, RecordOf(D, w, by)), TRUE)
  BY <1>3, <1>7, AsksKept DEF DecOK
<1>10. \A k \in DOMAIN Append(Q, RecordOf(D, w, by)) : SourceOK(Append(Q, RecordOf(D, w, by))[k])
  <2>1. SourceOK(RecordOf(D, w, by))
    BY <1>1, <1>2, SourceSent DEF DecOK
  <2>2. \A k \in DOMAIN Q : SourceOK(Q[k])
    BY DEF DecOK
  <2> QED
    BY <2>1, <2>2, <1>3, <1>5, AskAppend
<1>11. DecisionsSent(E, Append(Q, RecordOf(D, w, by)), Tail(T))
  BY <1>1, <1>3, <1>7, DecisionsTail DEF DecOK
<1>12. ASSUME c
       PROVE  NoStops(E, Append(Q, RecordOf(D, w, by)), Tail(T))
  <2>1. NoStops(D, Q, T)
    BY <1>12 DEF DecOK
  <2>2. NoStops(D, Q, Tail(T))
    BY <2>1, <1>3, NoStopsTail
  <2>3. (w.t = "proc" => ~w.v.stopped) /\ (w.t = "df" => ~w.v.deleted)
    BY <2>1, <1>1, <1>4 DEF NoStops
  <2> QED
    BY <2>2, <2>3, <1>3, NoStopsKept
<1> QED
  BY <1>1, <1>2, <1>8, <1>9, <1>10, <1>11, <1>12 DEF DecOK

\* The forms when an item is sent.
LEMMA FormsSent ==
  ASSUME NEW D, NEW E, NEW Q, NEW T, NEW c, NEW a, DbOK(D), QueueOK(D, Q), TodoOK(D, T), T # <<>>,
         Q # <<>>, Stored(D, E, T[1]), By(Q[1]) \in Author, DecOK(D, Q, T, TRUE, c),
         FormsOK(D, Q, T, TRUE, a)
  PROVE  FormsOK(E, Append(Q, RecordOf(D, T[1], By(Q[1]))), Tail(T), TRUE, a)
<1>1. PICK by : by = By(Q[1])
  OBVIOUS
<1>2. PICK P : P = Append(Q, RecordOf(D, T[1], by))
  OBVIOUS
<1>3. Q[1] \in Record
  BY TailFacts DEF QueueOK
<1>4. by \in Author /\ by # User
  BY <1>1, <1>3, ByOther
<1>5. Fits(D, T[1]) /\ OneForm(D) /\ DecisionsSent(D, Q, T)
  BY HeadFits DEF DecOK
<1>6. DOMAIN a \subseteq DOMAIN E["df"]
  BY <1>5, FormLinks DEF FormsOK
<1>7. ASSUME NEW f \in DOMAIN E["df"]
      PROVE  FormOK(E, P, Tail(T), TRUE, Times(a, f), f)
  <2>1. CASE f \in DOMAIN D["df"]
    <3>1. FormOK(D, Q, T, TRUE, Times(a, f), f)
      BY <2>1 DEF FormsOK
    <3> QED
      BY <3>1, <2>1, <1>2, <1>4, <1>5, FormSentOK
  <2>2. CASE f \notin DOMAIN D["df"]
    <3>1. Times(a, f) = 0
      BY <2>2 DEF Times, FormsOK
    <3>2. FormOK(E, P, Tail(T), TRUE, 0, f)
      BY <2>2, <1>2, <1>4, <1>5, FormNewOK
    <3> QED
      BY <3>1, <3>2
  <2> QED
    BY <2>1, <2>2
<1> QED
  BY <1>1, <1>2, <1>6, <1>7 DEF FormsOK
\* A user writes.
LEMMA DecUser ==
  ASSUME NEW D, NEW E, NEW Q, NEW T, NEW hand, NEW c, NEW w, DbOK(D), QueueOK(D, Q), TodoOK(D, T),
         T # <<>> => Q # <<>>, ByUser(D, w), Stored(D, E, w), c => w.t # "proc",
         DecOK(D, Q, T, hand, c)
  PROVE  DecOK(E, Append(Q, RecordOf(D, w, User)), T, hand, c)
<1>1. /\ Fits(D, w) /\ w.id \in DOMAIN D[w.t] /\ w.t # "wo" /\ (w.t = "df" => ~w.v.deleted)
      /\ Q \in Seq(Record)
  BY DEF ByUser, QueueOK
<1>2. User \in Author
  BY DEF User, Author
<1>3. PICK r : r = RecordOf(D, w, User)
  OBVIOUS
<1>4. r \in Record /\ r.by = User
  BY <1>1, <1>2, <1>3, QueueKept, RecordFields
<1>5. AskFits(D, Q, w, User, hand)
  BY <1>1 DEF AskFits
<1>6. OneForm(E)
  BY <1>1, OneFormKept DEF DecOK
<1>7. AsksOK(E, Append(Q, r), hand)
  BY <1>1, <1>2, <1>3, <1>5, AsksKept DEF DecOK
<1>8. \A k \in DOMAIN Append(Q, r) : SourceOK(Append(Q, r)[k])
  <2>1. SourceOK(r)
    BY <1>4 DEF SourceOK
  <2>2. \A k \in DOMAIN Q : SourceOK(Q[k])
    BY DEF DecOK
  <2> QED
    BY <2>1, <2>2, <1>1, <1>4, AskAppend
<1>9. DecisionsSent(E, Append(Q, r), T)
  BY <1>2, <1>3, DecisionsUser DEF DecOK
<1>10. ASSUME c
       PROVE  NoStops(E, Append(Q, r), T)
  <2>1. NoStops(D, Q, T)
    BY <1>10 DEF DecOK
  <2> QED
    BY <2>1, <1>1, <1>2, <1>3, <1>10, NoStopsKept
<1> QED
  BY <1>3, <1>6, <1>7, <1>8, <1>9, <1>10 DEF DecOK

\* The forms when a user writes something else.
LEMMA FormsUser ==
  ASSUME NEW D, NEW E, NEW Q, NEW T, NEW hand, NEW w, NEW a, DbOK(D), QueueOK(D, Q), ByUser(D, w),
         Stored(D, E, w), w.t # "df", FormsOK(D, Q, T, hand, a)
  PROVE  FormsOK(E, Append(Q, RecordOf(D, w, User)), T, hand, a)
<1>1. User \in Author /\ Fits(D, w)
  BY DEF User, Author, ByUser
<1>2. DOMAIN E["df"] = DOMAIN D["df"]
  <2>1. "df" \in Types
    BY DEF Types
  <2> QED
    BY <2>1 DEF Stored
<1>3. ASSUME NEW f \in DOMAIN D["df"]
      PROVE  FormOK(E, Append(Q, RecordOf(D, w, User)), T, hand, Times(a, f), f)
  BY <1>1, FormUserOK DEF FormsOK
<1> QED
  BY <1>2, <1>3 DEF FormsOK

\* The forms when a user writes one of them, once or twice.
LEMMA FormsAnswer ==
  ASSUME NEW D, NEW E, NEW Q, NEW T, NEW hand, NEW w, NEW a, NEW b, DbOK(D), QueueOK(D, Q),
         ByUser(D, w), Stored(D, E, w), NEW f \in DOMAIN D["df"], w.t = "df", w.id = f,
         ~D["df"][f].deleted, w.v.taken # D["df"][f].taken, w.v.taken \in Results \cup {0},
         Times(a, f) # 2, hand => Q # <<>>, FormsOK(D, Q, T, hand, a),
         DOMAIN b = DOMAIN D["df"],
         \A g \in DOMAIN D["df"] : b[g] = Times(a, g) + IF g = f THEN 1 ELSE 0
  PROVE  FormsOK(E, Append(Q, RecordOf(D, w, User)), T, hand, b)
<1>1. User \in Author /\ Fits(D, w)
  BY DEF User, Author, ByUser
<1>2. PICK P : P = Append(Q, RecordOf(D, w, User))
  OBVIOUS
<1>3. DOMAIN E["df"] = DOMAIN D["df"]
  <2>1. "df" \in Types
    BY DEF Types
  <2> QED
    BY <2>1 DEF Stored
<1>4. FormOK(E, P, T, hand, Times(b, f), f)
  <2>1. FormOK(D, Q, T, hand, Times(a, f), f) /\ Times(b, f) = Times(a, f) + 1
    BY DEF FormsOK, Times
  <2>2. CASE Times(a, f) = 0 /\ Untold(D, Q, T, f)
    <3>1. w.v.taken \in Results /\ Times(b, f) = 1
      BY <2>1, <2>2 DEF Untold
    <3>2. FormOK(E, P, T, hand, 1, f)
      BY <3>1, <2>2, <1>1, <1>2, ToldFirst
    <3> QED
      BY <3>1, <3>2
  <2>3. CASE /\ Times(a, f) = 1
             /\ \E x \in Results : Told(D, Q, T, hand, f, x) /\ Once(D, T, f, x)
    <3>1. PICK x \in Results : Told(D, Q, T, hand, f, x) /\ Once(D, T, f, x)
      BY <2>3
    <3>2. w.v.taken # x /\ Times(b, f) = 2
      BY <3>1, <2>1, <2>3 DEF Once
    <3>3. FormOK(E, P, T, hand, 2, f)
      BY <3>1, <3>2, <1>1, <1>2, ToldAgain
    <3> QED
      BY <3>2, <3>3
  <2> QED
    BY <2>1, <2>2, <2>3 DEF FormOK
<1>5. ASSUME NEW g \in DOMAIN D["df"], g # f
      PROVE  FormOK(E, P, T, hand, Times(b, g), g)
  <2>1. FormOK(D, Q, T, hand, Times(a, g), g) /\ Times(b, g) = Times(a, g) + 0
    BY <1>5 DEF FormsOK, Times
  <2>2. FormOK(E, P, T, hand, Times(a, g), g)
    BY <2>1, <1>1, <1>2, <1>5, FormUserOK
  <2>3. CASE D["df"][g].deleted
    <3>1. E["df"][g].deleted
      BY <2>3, <1>1, <1>5, FormLinks
    <3> QED
      BY <3>1 DEF FormOK
  <2>4. CASE ~D["df"][g].deleted
    <3>1. Times(a, g) \in {0, 1, 2}
      BY <2>1, <2>4 DEF FormOK
    <3>2. Times(b, g) = Times(a, g)
      BY <3>1, <2>1
    <3> QED
      BY <3>2, <2>2
  <2> QED
    BY <2>3, <2>4
<1> QED
  BY <1>2, <1>3, <1>4, <1>5 DEF FormsOK

\* The first record is done with.
LEMMA DecNext ==
  ASSUME NEW D, NEW Q \in Seq(Record), Q # <<>>, NEW hand, NEW c, DecOK(D, Q, <<>>, hand, c)
  PROVE  DecOK(D, Tail(Q), <<>>, FALSE, c)
<1>1. \A k \in DOMAIN Tail(Q) : k + 1 \in DOMAIN Q /\ Tail(Q)[k] = Q[k + 1]
  BY TailFacts
<1>2. AsksOK(D, Tail(Q), FALSE)
  BY AsksNext DEF DecOK
<1>3. \A k \in DOMAIN Tail(Q) : SourceOK(Tail(Q)[k])
  BY <1>1 DEF DecOK
<1>4. DecisionsSent(D, Tail(Q), <<>>)
  <2>1. DOMAIN (<< >>) = {}
    OBVIOUS
  <2> QED
    BY <2>1 DEF DecisionsSent
<1>5. c => NoStops(D, Tail(Q), <<>>)
  <2>1. <<>> \in Seq(Write)
    OBVIOUS
  <2> QED
    BY <2>1, NoStopsTail DEF DecOK
<1> QED
  BY <1>2, <1>3, <1>4, <1>5 DEF DecOK

\* Decisions when a script is run, or the record has none.
LEMMA DecRun ==
  ASSUME LInv, Run, NEW c, DecOK(db, queue, todo, running, c),
         FormsOK(db, queue, todo, running, answers)
  PROVE  /\ DecOK(db', queue', todo', running', c)
         /\ FormsOK(db', queue', todo', running', answers')
<1>1. TInv /\ DbOK(db) /\ queue \in Seq(Record) /\ answers' = answers
  BY DEF LInv, TInv, QueueOK, Run, counts
<1>2. /\ queue # <<>> /\ db' = db /\ List(db, queue[1], todo') /\ ~running
      /\ todo' = <<>> \/ (Triggered(queue[1]) /\ todo' = Writes(queue[1]))
      /\ todo' = <<>> /\ Triggered(queue[1]) => Writes(queue[1]) = <<>>
      /\ queue' = IF todo' = <<>> THEN Tail(queue) ELSE queue
      /\ running' = (todo' # <<>>)
  BY <1>1, RunFacts
<1>3. todo = <<>> /\ DOMAIN (<< >>) = {}
  BY <1>1, <1>2 DEF TInv
<1>4. DecOK(db, queue, <<>>, FALSE, c) /\ FormsOK(db, queue, <<>>, FALSE, answers)
  BY <1>2, <1>3, HandFree
<1>5. PICK r : r = queue[1]
  OBVIOUS
<1>6. IsRecord(db, r) /\ 1 \in DOMAIN queue
  BY <1>1, <1>2, <1>5, HeadRecord
<1>7. SourceOK(r)
  BY <1>4, <1>5, <1>6 DEF DecOK
<1>8. CASE todo' = <<>>
  <2>1. queue' = Tail(queue) /\ (running' <=> FALSE)
    BY <1>2, <1>8
  <2>2. DecOK(db, Tail(queue), <<>>, FALSE, c)
    BY <1>1, <1>2, <1>4, DecNext
  <2>3. ASSUME NEW f \in DOMAIN db["df"]
        PROVE  FormOK(db, Tail(queue), <<>>, FALSE, Times(answers, f), f)
    <3>1. ASSUME NEW x \in Results, Told(db, queue, <<>>, FALSE, f, x), Change(queue[1], f, x)
          PROVE  FALSE
      <4>1. ~r.v.deleted /\ Change(r, f, x)
        BY <3>1, <1>5, <1>6 DEF Told, Change
      <4>2. Triggered(r) /\ Writes(r) # <<>>
        BY <4>1, <1>1, <1>6, ChangeRuns
      <4> QED
        BY <4>2, <1>2, <1>5, <1>8
    <3>2. FormOK(db, queue, <<>>, FALSE, Times(answers, f), f)
      BY <1>4 DEF FormsOK
    <3>3. \A x \in Results : Told(db, queue, <<>>, FALSE, f, x) => FALSE \/ ~Change(queue[1], f, x)
      BY <3>1
    <3> QED
      BY <3>2, <3>3, <1>1, <1>2, <1>3, FormNextOK
  <2>4. FormsOK(db, Tail(queue), <<>>, FALSE, answers)
    BY <2>3, <1>4 DEF FormsOK
  <2>5. DecOK(db, Tail(queue), <<>>, running', c) /\ FormsOK(db, Tail(queue), <<>>, running', answers)
    BY <2>1, <2>2, <2>4, HandFree
  <2> QED
    BY <2>1, <2>5, <1>1, <1>2, <1>8
<1>9. CASE todo' # <<>>
  <2>1. PICK T : T = todo'
    OBVIOUS
  <2>2. /\ List(db, r, T) /\ Triggered(r) /\ T = Writes(r) /\ T # <<>> /\ queue' = queue
        /\ (running' <=> TRUE)
    BY <2>1, <1>2, <1>5, <1>9
  <2>3. DecisionsSent(db, queue, T)
    BY <2>2, <1>1, <1>2, <1>4, <1>5, <1>7, RunDecisions DEF DecOK
  <2>4. ASSUME c
        PROVE  NoStops(db, queue, T)
    <3>1. NoStops(db, queue, <<>>)
      BY <2>4, <1>4 DEF DecOK
    <3>2. r.t = "proc" => ~r.v.stopped
      BY <3>1, <1>5, <1>6 DEF NoStops
    <3> QED
      BY <3>1, <3>2, <2>2, <1>1, <1>6, RunNoStops
  <2>5. DecOK(db, queue, T, TRUE, c)
    <3>1. AsksOK(db, queue, TRUE)
      BY <1>4 DEF DecOK, AsksOK
    <3> QED
      BY <3>1, <2>3, <2>4, <1>4 DEF DecOK
  <2>6. FormsOK(db, queue, T, TRUE, answers)
    <3>1. ASSUME NEW f \in DOMAIN db["df"]
          PROVE  FormOK(db, queue, T, TRUE, Times(answers, f), f)
      <4>1. FormOK(db, queue, <<>>, FALSE, Times(answers, f), f)
        BY <1>4 DEF FormsOK
      <4> QED
        BY <4>1, <2>2, <2>3, <1>1, <1>2, <1>3, <1>5, <1>7, FormRunOK
    <3> QED
      BY <3>1, <1>4 DEF FormsOK
  <2>7. DecOK(db, queue, T, running', c) /\ FormsOK(db, queue, T, running', answers)
    BY <2>2, <2>5, <2>6, HandFree
  <2> QED
    BY <2>1, <2>2, <2>7, <1>1, <1>2
<1> QED
  BY <1>8, <1>9

\* Decisions when the last item of a record has been sent.
LEMMA DecFinish ==
  ASSUME LInv, Finish, NEW c, DecOK(db, queue, todo, running, c),
         FormsOK(db, queue, todo, running, answers)
  PROVE  /\ DecOK(db', queue', todo', running', c)
         /\ FormsOK(db', queue', todo', running', answers')
<1>1. TInv /\ queue \in Seq(Record) /\ answers' = answers
  BY DEF LInv, TInv, QueueOK, Finish, counts
<1>2. /\ running /\ todo = <<>> /\ queue' = Tail(queue) /\ db' = db /\ todo' = todo
      /\ (running' <=> FALSE)
  BY DEF Finish
<1>3. queue # <<>> /\ DOMAIN (<< >>) = {}
  BY <1>1, <1>2 DEF TInv
<1>4. DecOK(db, queue, <<>>, TRUE, c) /\ FormsOK(db, queue, <<>>, TRUE, answers)
  BY <1>2, HandFree
<1>5. DecOK(db, Tail(queue), <<>>, FALSE, c)
  BY <1>1, <1>3, <1>4, DecNext
<1>6. ASSUME NEW f \in DOMAIN db["df"]
      PROVE  FormOK(db, Tail(queue), <<>>, FALSE, Times(answers, f), f)
  <2>1. FormOK(db, queue, <<>>, TRUE, Times(answers, f), f)
    BY <1>4 DEF FormsOK
  <2>2. \A x \in Results : Told(db, queue, <<>>, TRUE, f, x) => TRUE \/ ~Change(queue[1], f, x)
    OBVIOUS
  <2> QED
    BY <2>1, <2>2, <1>1, <1>3, FormNextOK
<1>7. FormsOK(db, Tail(queue), <<>>, FALSE, answers)
  BY <1>4, <1>6 DEF FormsOK
<1>8. DecOK(db, Tail(queue), <<>>, running', c) /\ FormsOK(db, Tail(queue), <<>>, running', answers)
  BY <1>2, <1>5, <1>7, HandFree
<1> QED
  BY <1>1, <1>2, <1>8

\* Decisions when an item is sent.
LEMMA DecCommit ==
  ASSUME LInv, CommitItem, NEW c, DecOK(db, queue, todo, running, c),
         FormsOK(db, queue, todo, running, answers)
  PROVE  /\ DecOK(db', queue', todo', running', c)
         /\ FormsOK(db', queue', todo', running', answers')
<1>1. TInv /\ DbOK(db) /\ QueueOK(db, queue) /\ TodoOK(db, todo) /\ answers' = answers
      /\ SendsOK(db, queue, todo)
  BY DEF LInv, TInv, CommitItem, counts
<1>2. /\ todo # <<>> /\ queue # <<>> /\ By(queue[1]) \in Author /\ todo' = Tail(todo)
      /\ Stored(db, db', todo[1]) /\ running /\ running' = running
      /\ queue' = Append(queue, RecordOf(db, todo[1], By(queue[1])))
  BY <1>1, CommitFacts
<1>3. DecOK(db, queue, todo, TRUE, c) /\ FormsOK(db, queue, todo, TRUE, answers)
  BY <1>2, HandFree
<1>4. DecOK(db', queue', todo', TRUE, c)
  BY <1>1, <1>2, <1>3, DecSent
<1>5. FormsOK(db', queue', todo', TRUE, answers')
  BY <1>1, <1>2, <1>3, FormsSent
<1>6. running' <=> TRUE
  BY <1>2
<1> QED
  BY <1>4, <1>5, <1>6, HandFree

\* Decisions when a user writes a form.
LEMMA DecAnswer ==
  ASSUME LInv, NEW f \in DOMAIN db["df"], NEW x \in Results \cup {0}, Answer(f, x), Decided,
         DecOK(db, queue, todo, running, setting.stops = 0),
         FormsOK(db, queue, todo, running, answers)
  PROVE  /\ DecOK(db', queue', todo', running', setting.stops = 0)
         /\ FormsOK(db', queue', todo', running', answers')
<1>1. /\ TInv /\ DbOK(db) /\ QueueOK(db, queue) /\ TodoOK(db, todo)
      /\ (todo # <<>> => queue # <<>>) /\ (running => queue # <<>>) /\ setting \in Settings
  BY DEF LInv, TInv
<1>2. PICK w : UserStep(w) /\ w.t = "df" /\ w.id = f /\ w.v.taken = x
  BY <1>1, AnswerFacts
<1>3. /\ ByUser(db, w) /\ Stored(db, db', w) /\ running' = running
      /\ queue' = Append(queue, RecordOf(db, w, User)) /\ todo' = todo
  BY <1>2 DEF UserStep
<1>4. DecOK(db', queue', todo', running', setting.stops = 0)
  <2>1. DecOK(db', Append(queue, RecordOf(db, w, User)), todo, running, setting.stops = 0)
    BY <1>1, <1>2, <1>3, DecUser
  <2> QED
    BY <2>1, <1>3
<1>5. ~db["df"][f].deleted
  <2>1. setting.stale => NoStops(db, queue, todo)
    BY DEF Decided, DecOK
  <2>2. db["df"][f].deleted => setting.stale
    BY DEF Answer
  <2> QED
    BY <2>1, <2>2 DEF NoStops
<1>6. Times(answers, f) # 2
  <2>1. Times(answers, f) < setting.answers /\ setting.answers <= 2
    BY DEF Answer, Written, Times, Decided
  <2>2. setting.answers \in Nat
    BY <1>1, DocflowAssumption
  <2> QED
    BY <2>1, <2>2
<1>7. x # db["df"][f].taken
  BY DEF Answer
<1>8. PICK b : b = answers'
  OBVIOUS
<1>9. /\ DOMAIN b = DOMAIN db["df"]
      /\ \A g \in DOMAIN db["df"] : b[g] = Times(answers, g) + IF g = f THEN 1 ELSE 0
  <2>1. answers' = [g \in DOMAIN db["df"] |-> Times(answers, g) + IF g = f THEN 1 ELSE 0]
    BY DEF Answer, Written, Times
  <2> QED
    BY <2>1, <1>8
<1>10. FormsOK(db', Append(queue, RecordOf(db, w, User)), todo, running, b)
  BY <1>1, <1>2, <1>3, <1>5, <1>6, <1>7, <1>9, FormsAnswer
<1> QED
  BY <1>3, <1>4, <1>8, <1>10

\* Decisions when a user sends the start form or stops a process.
LEMMA DecOther ==
  ASSUME LInv, NEW w, UserStep(w), w.t # "df", NEW c, c => w.t # "proc", answers' = answers,
         DecOK(db, queue, todo, running, c), FormsOK(db, queue, todo, running, answers)
  PROVE  /\ DecOK(db', queue', todo', running', c)
         /\ FormsOK(db', queue', todo', running', answers')
<1>1. /\ DbOK(db) /\ QueueOK(db, queue) /\ TodoOK(db, todo) /\ (todo # <<>> => queue # <<>>)
  BY DEF LInv, TInv
<1>2. /\ ByUser(db, w) /\ Stored(db, db', w) /\ running' = running
      /\ queue' = Append(queue, RecordOf(db, w, User)) /\ todo' = todo
  BY DEF UserStep
<1>3. DecOK(db', Append(queue, RecordOf(db, w, User)), todo, running, c)
  BY <1>1, <1>2, DecUser
<1>4. FormsOK(db', Append(queue, RecordOf(db, w, User)), todo, running, answers)
  BY <1>1, <1>2, FormsUser
<1> QED
  BY <1>2, <1>3, <1>4

\* The invariant at the start.
LEMMA DInvInit ==
  ASSUME Init
  PROVE  DInv
<1>1. LInv
  BY LInvInit
<1>2. queue = <<>> /\ todo = <<>> /\ answers = <<>> /\ stops = 0 /\ DOMAIN (<< >>) = {}
  BY DEF Init
<1>3. db["df"] = <<>> /\ db["proc"] = <<>>
  BY DEF Init
<1>4. DecOK(db, queue, todo, running, setting.stops = 0)
  BY <1>2, <1>3 DEF DecOK, OneForm, AsksOK, DecisionsSent, NoStops
<1>5. FormsOK(db, queue, todo, running, answers)
  BY <1>2, <1>3 DEF FormsOK
<1> QED
  BY <1>1, <1>2, <1>4, <1>5 DEF DInv

\* Every step keeps it.
LEMMA DInvNext ==
  ASSUME DInv, [Next]_vars
  PROVE  DInv'
<1>1. LInv /\ LInv' /\ TInv
  BY LInvNext DEF DInv, LInv
<1>2. setting' = setting
  BY DEF Next, Run, CommitItem, Finish, Crash, Send, Answer, Stop, vars
<1>3. SUFFICES ASSUME Decided
               PROVE  /\ stops' \in Nat
                      /\ DecOK(db', queue', todo', running', setting.stops = 0)
                      /\ FormsOK(db', queue', todo', running', answers')
  BY <1>1, <1>2 DEF DInv, Decided
<1>4. /\ stops \in Nat /\ DecOK(db, queue, todo, running, setting.stops = 0)
      /\ FormsOK(db, queue, todo, running, answers)
  BY <1>3 DEF DInv
<1>5. stops' \in Nat
  <2>1. stops' = stops \/ stops' = stops + 1
    BY DEF Next, Run, CommitItem, Finish, Crash, Send, Answer, Stop, vars, counts
  <2> QED
    BY <2>1, <1>4
<1>6. CASE Run
  BY <1>1, <1>4, <1>5, <1>6, DecRun
<1>7. CASE CommitItem
  BY <1>1, <1>4, <1>5, <1>7, DecCommit
<1>8. CASE Finish
  BY <1>1, <1>4, <1>5, <1>8, DecFinish
<1>9. CASE Crash
  <2>1. crashes \in Nat /\ crashes < 0
    BY <1>1, <1>3, <1>9 DEF Crash, TInv, Decided
  <2> QED
    BY <2>1
<1>10. CASE Send
  <2>1. PICK w : UserStep(w) /\ w.t = "form"
    BY <1>1, <1>10, SendFacts
  <2>2. answers' = answers
    BY <1>10 DEF Send
  <2> QED
    BY <2>1, <2>2, <1>1, <1>4, <1>5, DecOther
<1>11. CASE \E f \in DOMAIN db.df, v \in Results \cup {0} : Answer(f, v)
  <2>1. PICK f \in DOMAIN db["df"], v \in Results \cup {0} : Answer(f, v)
    BY <1>11
  <2> QED
    BY <2>1, <1>1, <1>3, <1>4, <1>5, DecAnswer
<1>12. CASE \E p \in DOMAIN db.proc : Stop(p)
  <2>1. PICK p \in DOMAIN db["proc"] : Stop(p)
    BY <1>12
  <2>2. PICK w : UserStep(w) /\ w.t = "proc"
    BY <2>1, <1>1, StopFacts
  <2>3. answers' = answers /\ setting.stops # 0
    BY <2>1, <1>4 DEF Stop
  <2> QED
    BY <2>2, <2>3, <1>1, <1>4, <1>5, DecOther
<1>13. CASE UNCHANGED vars
  BY <1>4, <1>13 DEF vars, counts
<1> QED
  BY <1>6, <1>7, <1>8, <1>9, <1>10, <1>11, <1>12, <1>13 DEF Next

\* Nothing is due when the engine is idle.
LEMMA DInvDecision ==
  ASSUME DInv
  PROVE  DecisionIsResult
<1>1. SUFFICES ASSUME Decided, Idle, NEW f \in DOMAIN db["df"], db["df"][f].done,
                      ~db["df"][f].deleted
               PROVE  db["wo"][db["df"][f].wo].out = db["df"][f].taken
  BY DEF DecisionIsResult
<1>2. TInv /\ FormsOK(db, queue, todo, running, answers)
  BY <1>1 DEF DInv, LInv
<1>3. queue = <<>> /\ todo = <<>> /\ DOMAIN (<< >>) = {}
  BY <1>1, <1>2 DEF Idle, TInv
<1>4. FormOK(db, queue, todo, running, Times(answers, f), f)
  BY <1>1, <1>2 DEF FormsOK
<1>5. PICK x \in Results : Told(db, queue, todo, running, f, x)
  BY <1>1, <1>4 DEF FormOK, Untold
<1>6. ~Due(queue, todo, running, f, x, 0)
  BY <1>3 DEF Due
<1> QED
  BY <1>1, <1>5, <1>6 DEF Told

\* What a form shows as decided is what its work order was completed with
\* (DecisionIsResult), for every net, with any number of users that write the
\* forms before, while and after the scripts handle them, each form twice at
\* most, without a crash: the record of a change holds the decision of before,
\* which the script writes back, and the work order is given that decision only.
THEOREM DecisionTheorem == Spec => []DecisionIsResult
<1>1. Init => DInv
  BY DInvInit
<1>2. DInv /\ [Next]_vars => DInv'
  BY DInvNext
<1>3. DInv => DecisionIsResult
  BY DInvDecision
<1> QED
  BY <1>1, <1>2, <1>3, PTL DEF Spec
=============================================================================
