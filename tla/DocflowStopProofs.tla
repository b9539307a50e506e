-------------------------- MODULE DocflowStopProofs -------------------------
(***************************************************************************)
(* A process that is stopped has no form left, for every net.              *)
(*                                                                         *)
(* A stop finds the forms it deletes by the lists: from the process to its *)
(* first work item, from a work item to the next ones and to its work      *)
(* orders, from a work order to its forms.  So the invariant says that the *)
(* lists lead to whatever is stored (TreeOK), that a process begins once   *)
(* (BegunOK) and the work orders of a work item are made once (VisitsOK),  *)
(* that no record and no write to be sent has an older list (SteadyOK,     *)
(* CarriedOK, ProcsOK), that a form which a user has written shows a       *)
(* decision in the end (WrittenOK), and that a form of a stopped process   *)
(* does, or the record of the stop is still to be handled (EndsOK).        *)
(***************************************************************************)
EXTENDS DocflowProofs

\* A work item comes after an older one of its process, or is the first.
After(D, w, v) ==
  v.prev = 0 \/ (v.prev \in DOMAIN D["wi"] /\ v.prev < w /\ D["wi"][v.prev].proc = v.proc)

\* The lists that lead to what is stored: from a process to its first work item,
\* from a work item to its work orders, from a work order to its forms.
Rooted(D, T, p, w) ==
  \/ w \in ToSet(D["proc"][p].wil)
  \/ \E k \in DOMAIN T : T[k].t = "proc" /\ T[k].id = p /\ w \in ToSet(T[k].v.wil)
Asked(D, T, o, f) ==
  \/ f \in ToSet(D["wo"][o].dfl)
  \/ \E k \in DOMAIN T : T[k].t = "wo" /\ T[k].id = o /\ f \in ToSet(T[k].v.dfl)
\* The work order o is stored, or it is sent after the n-th write.
Comes(D, T, n, o) ==
  o \in DOMAIN D["wo"] \/ \E k \in DOMAIN T : n < k /\ T[k].t = "wo" /\ T[k].id = o
TreeOK(D, T) ==
  /\ \A w \in DOMAIN D["wi"] :
       /\ After(D, w, D["wi"][w])
       /\ \A o \in ToSet(D["wi"][w].wol) : Comes(D, T, 0, o)
       /\ D["wi"][w].prev = 0 => Rooted(D, T, D["wi"][w].proc, w)
  /\ \A o \in DOMAIN D["wo"] : o \in ToSet(D["wi"][D["wo"][o].wi].wol)
  /\ \A f \in DOMAIN D["df"] : Asked(D, T, D["df"][f].wo, f)

\* The record r is the first of a work item, which makes its work orders.
Visit(r) == r.t = "wi" /\ r.by # <<"wi", r.id, "df3">> /\ ~r.v.done
NoOrder(D, w) == \A o \in DOMAIN D["wo"] : D["wo"][o].wi # w
VisitsOK(D, Q, hand) ==
  \A k \in DOMAIN Q :
    Visit(Q[k]) => /\ (k = 1 /\ hand) \/ NoOrder(D, Q[k].id)
                   /\ Q[k].v.wol = <<>>
                   /\ \A j \in DOMAIN Q : Visit(Q[j]) /\ Q[j].id = Q[k].id => j = k

\* The record r begins a process, once; until it is handled the process has no work
\* item.
Begins(r) == Opens(r) /\ r.by # <<"proc", r.id, "df2">>
Beginning(Q, p) == Begins(Q[1]) /\ Q[1].id = p
BegunOK(D, Q, T, hand) ==
  /\ \A k \in DOMAIN Q :
       Begins(Q[k]) => /\ (k = 1 /\ hand) \/ D["proc"][Q[k].id].completed = "absent"
                       /\ \A j \in DOMAIN Q : Begins(Q[j]) /\ Q[j].id = Q[k].id => j = k
  /\ \A w \in DOMAIN D["wi"] :
       \/ D["proc"][D["wi"][w].proc].completed # "absent"
       \/ /\ hand
          /\ \E k \in DOMAIN T : /\ T[k].t = "proc" /\ T[k].id = D["wi"][w].proc
                                 /\ T[k].v.completed # "absent"

\* What no write changes, and what is empty until it is written once.
Sub(D, q) == q = 0 \/ (q \in DOMAIN D["proc"] /\ D["proc"][q].parent # 0)
Subs(D) == \A o \in DOMAIN D["wo"] : Sub(D, D["wo"][o].sub)
SteadyOK(D, Q) ==
  /\ Subs(D)
  /\ \A p \in DOMAIN D["proc"] : D["proc"][p].completed = "absent" => D["proc"][p].wil = <<>>
  /\ \A k \in DOMAIN Q :
       /\ Q[k].t = "wi" => /\ ~Q[k].v.done => Q[k].v.wil = <<>>
                           /\ Q[k].v.prev = D["wi"][Q[k].id].prev
       /\ Q[k].t = "wo" => Sub(D, Q[k].v.sub)
       /\ Q[k].t = "proc" =>
            /\ Q[k].v.completed = "absent" => Q[k].v.wil = <<>>
            /\ D["proc"][Q[k].id].completed = "absent" => Q[k].v.completed = "absent"
            /\ Q[k].v.stopped =>
                 \/ D["proc"][Q[k].id].stopped \/ D["proc"][Q[k].id].completed = "true"
                 \/ D["proc"][Q[k].id].parent = 0 \/ Q[k].v.wil = <<>>

\* What is sent.
StopRecord(r) == r.t = "proc" /\ r.v.stopped
\* The state v of a process is stored after the state u.
Onward(u, v) ==
  /\ v.wil = u.wil \/ (u.completed = "absent" /\ ~v.stopped /\ v.completed = "false")
  /\ v.completed = "absent" => u.completed = "absent"
  /\ u.completed = "true" => v.completed = "true"
  /\ u.stopped /\ ~v.stopped => v.completed = "true" \/ u.completed = "absent" \/ v.parent = 0
ProcCarried(D, Q, T, k) ==
  LET p == T[k].id
  IN  /\ T[k].v.completed = "absent" => T[k].v.wil = <<>>
      /\ StopRecord(Q[1]) => T[k].v.stopped
      /\ \A j \in DOMAIN T : j < k /\ T[j].t = "proc" /\ T[j].id = p => Onward(T[j].v, T[k].v)
      /\ p \in DOMAIN D["proc"] =>
           /\ Onward(D["proc"][p], T[k].v)
           /\ StopRecord(Q[1]) /\ Q[1].id = p => D["proc"][p].stopped
           /\ T[k].v.completed = "absent" /\ ~T[k].v.stopped => Beginning(Q, p)
           /\ D["proc"][p].completed = "absent" /\ T[k].v.completed # "absent" => Beginning(Q, p)
ProcsOK(D, Q, T) == \A k \in DOMAIN T : T[k].t = "proc" => ProcCarried(D, Q, T, k)
ItemCarried(D, Q, T, k) ==
  LET w == T[k].id
  IN  /\ ~T[k].v.done => T[k].v.wil = <<>>
      /\ After(D, w, T[k].v)
      /\ \A o \in ToSet(T[k].v.wol) : Comes(D, T, k, o)
      /\ w \notin DOMAIN D["wi"] => T[k].v.wol = <<>>
      /\ w \notin DOMAIN D["wi"] /\ T[k].v.prev = 0 =>
           \E j \in DOMAIN T : /\ k < j /\ T[j].t = "proc" /\ T[j].id = T[k].v.proc
                               /\ w \in ToSet(T[j].v.wil)
      /\ w \in DOMAIN D["wi"] =>
           /\ T[k].v.prev = D["wi"][w].prev
           /\ T[k].v.done \/ (Q[1].t = "wi" /\ Q[1].id = w)
           /\ \/ /\ T[k].v.wol = D["wi"][w].wol
                 /\ \A j \in DOMAIN T : T[j].t = "wi" /\ T[j].id = w => T[j].v.wol = T[k].v.wol
              \/ /\ NoOrder(D, w)
                 /\ \A j \in DOMAIN T : j < k /\ T[j].t = "wo" => T[j].v.wi # w
OrderCarried(D, Q, T, k) ==
  LET o == T[k].id
  IN  /\ \A j \in DOMAIN T : T[j].t = "wo" /\ T[j].id = o => T[j].v = T[k].v
      /\ \/ Sub(D, T[k].v.sub)
         \/ \E j \in DOMAIN T : /\ j < k /\ T[j].t = "proc" /\ T[j].id = T[k].v.sub
                                /\ T[j].v.parent # 0
      /\ o \in DOMAIN D["wo"] /\ D["wo"][o].executor \in Users =>
           ToSet(D["wo"][o].dfl) \subseteq ToSet(T[k].v.dfl)
      /\ o \notin DOMAIN D["wo"] =>
           /\ Visit(Q[1]) /\ Q[1].id = T[k].v.wi
           /\ \/ /\ o \in ToSet(D["wi"][T[k].v.wi].wol)
                 /\ \A j \in DOMAIN T : T[j].t = "wi" => T[j].id # T[k].v.wi
              \/ \E j \in DOMAIN T :
                   /\ j < k /\ T[j].t = "wi" /\ T[j].id = T[k].v.wi /\ o \in ToSet(T[j].v.wol)
                   /\ \A i \in DOMAIN T : T[i].t = "wi" => i <= j
FormCarried(D, Q, T, k) ==
  /\ \/ T[k].id \notin DOMAIN D["df"] /\ T[k].v.taken = 0
     \/ Q[1].t = "df" /\ Q[1].id = T[k].id
     \/ T[k].v.deleted
  /\ T[k].id \notin DOMAIN D["df"] =>
       /\ ~T[k].v.done
       /\ \E j \in DOMAIN T : /\ k < j /\ T[j].t = "wo" /\ T[j].id = T[k].v.wo
                              /\ T[k].id \in ToSet(T[j].v.dfl)
CarriedOK(D, Q, T) ==
  \A k \in DOMAIN T : /\ T[k].t = "wi" => ItemCarried(D, Q, T, k)
                      /\ T[k].t = "wo" => OrderCarried(D, Q, T, k)
                      /\ T[k].t = "df" => FormCarried(D, Q, T, k)

\* A form shows a decision or is deleted, or it will.
Safe(v) == v.deleted \/ v.taken # 0
PutOf(T, k, f) == T[k].t = "df" /\ T[k].id = f
Undoing(Q, hand, f) ==
  \E k \in DOMAIN Q : /\ UserForm(Q[k], f) /\ Q[k].was.taken # 0 /\ Q[k].v.taken = 0
                      /\ ~Q[k].v.deleted /\ ~(k = 1 /\ hand)
Settled(D, Q, T, hand, f) ==
  \/ Undoing(Q, hand, f)
  \/ \E k \in DOMAIN T : /\ PutOf(T, k, f) /\ Safe(T[k].v)
                         /\ \A j \in DOMAIN T : k < j /\ PutOf(T, j, f) => Safe(T[j].v)
  \/ Safe(D["df"][f]) /\ \A k \in DOMAIN T : PutOf(T, k, f) => Safe(T[k].v)
WrittenOK(D, Q, T, hand) ==
  \A f \in DOMAIN D["df"] : Untold(D, Q, T, f) \/ Settled(D, Q, T, hand, f)

\* The record of a stop is still to be handled.
StopDue(D, Q, hand, p) ==
  \E k \in DOMAIN Q : /\ StopRecord(Q[k]) /\ Q[k].id = p /\ ~Q[k].was.stopped
                      /\ Q[k].by # <<"proc", p, "stop">> /\ Q[k].v.wil = D["proc"][p].wil
                      /\ ~(k = 1 /\ hand)
Follows(D, T, x, w) ==
  \/ w \in ToSet(D["wi"][x].wil)
  \/ \E k \in DOMAIN T : T[k].t = "wi" /\ T[k].id = x /\ w \in ToSet(T[k].v.wil)
Kept(D, T) ==
  \A w \in DOMAIN D["wi"] :
    D["wi"][w].prev # 0 => Follows(D, T, D["wi"][w].prev, w)
HomeOf(D, o) == D["wi"][D["wo"][o].wi].proc
EndsOK(D, Q, T, hand) ==
  /\ \A f \in DOMAIN D["df"] :
       D["proc"][HomeOf(D, D["df"][f].wo)].stopped =>
         \/ StopDue(D, Q, hand, HomeOf(D, D["df"][f].wo))
         \/ Kept(D, T) => Settled(D, Q, T, hand, f)
  /\ \A k \in DOMAIN T :
       T[k].t = "df" /\ T[k].id \notin DOMAIN D["df"]
       /\ D["proc"][HomeOf(D, T[k].v.wo)].stopped =>
         StopDue(D, Q, hand, HomeOf(D, T[k].v.wo))

-----------------------------------------------------------------------------
(***************************************************************************)
(* What the scripts send.                                                  *)
(***************************************************************************)

\* Where an element of two sequences comes from.
LEMMA ConcatElement ==
  ASSUME NEW S, NEW s \in Seq(S), NEW u \in Seq(S), NEW k \in DOMAIN (s \o u)
  PROVE  \/ k \in DOMAIN s /\ (s \o u)[k] = s[k]
         \/ k - Len(s) \in DOMAIN u /\ (s \o u)[k] = u[k - Len(s)]
<1>1. /\ Len(s) \in Nat /\ Len(u) \in Nat /\ DOMAIN s = 1 .. Len(s) /\ DOMAIN u = 1 .. Len(u)
      /\ DOMAIN (s \o u) = 1 .. (Len(s) + Len(u))
      /\ \A j \in 1 .. Len(s) : (s \o u)[j] = s[j]
      /\ \A j \in (Len(s) + 1) .. (Len(s) + Len(u)) : (s \o u)[j] = u[j - Len(s)]
  BY ConcatFacts
<1>2. CASE k <= Len(s)
  BY <1>1, <1>2
<1>3. CASE ~(k <= Len(s))
  <2>1. k \in (Len(s) + 1) .. (Len(s) + Len(u)) /\ k - Len(s) \in 1 .. Len(u)
    BY <1>1, <1>3
  <2> QED
    BY <2>1, <1>1
<1> QED
  BY <1>2, <1>3

\* prepare_start_form() makes a process.
LEMMA CarriedForm ==
  ASSUME DbOK(db), NEW Q, NEW r, Q[1] = r, r.t = "form", NEW T, T = prepare_start_form(r.v)
  PROVE  CarriedOK(db, Q, T)
<1>1. CASE T = <<>>
  <2>1. DOMAIN T = {}
    BY <1>1
  <2> QED
    BY <2>1 DEF CarriedOK
<1>2. CASE T # <<>>
  <2>1. PICK v : v = NewProcess(setting.net, 0)
    OBVIOUS
  <2>2. PICK x : x = Put("proc", New("proc"), v)
    OBVIOUS
  <2>3. PICK y : y = Put("form", 1, [status |-> "IsSent", procs |-> <<New("proc")>>])
    OBVIOUS
  <2>4. T = <<x, y>>
    BY <1>2, <2>1, <2>2, <2>3 DEF prepare_start_form
  <2>5. DOMAIN T = {1, 2} /\ T[1] = x /\ T[2] = y
    BY <2>4
  <2>6. x.t = "proc" /\ y.t = "form"
    BY <2>2, <2>3, PutFacts
  <2> QED
    BY <2>5, <2>6 DEF CarriedOK
<1> QED
  BY <1>1, <1>2

\* Of the writes of a process all but the last have nothing but a new variable.
Grows(D, T) ==
  \A j, k \in DOMAIN T : j < k /\ T[j].t = "proc" /\ T[k].t = "proc" =>
                          Grown(D["proc"][T[j].id], T[j].v)
Even(D, T) == \A k \in DOMAIN T : T[k].t = "proc" => Grown(D["proc"][T[k].id], T[k].v)

\* Such lists, one after the other.
LEMMA EvenConcat ==
  ASSUME NEW D, NEW X, NEW S \in Seq(X), NEW U \in Seq(X), Even(D, S)
  PROVE  /\ Even(D, U) => Even(D, S \o U)
         /\ Grows(D, U) => Grows(D, S \o U)
<1>1. PICK T : T = S \o U
  OBVIOUS
<1>2. \A k \in DOMAIN T : \/ k \in DOMAIN S /\ T[k] = S[k]
                          \/ k - Len(S) \in DOMAIN U /\ T[k] = U[k - Len(S)]
  BY <1>1, ConcatElement
<1>3. Even(D, U) => Even(D, T)
  BY <1>2 DEF Even
<1>4. ASSUME Grows(D, U), NEW j \in DOMAIN T, NEW k \in DOMAIN T, j < k,
             T[j].t = "proc", T[k].t = "proc"
      PROVE  Grown(D["proc"][T[j].id], T[j].v)
  <2>1. CASE j \in DOMAIN S /\ T[j] = S[j]
    BY <2>1, <1>4 DEF Even
  <2>2. CASE ~(j \in DOMAIN S)
    <3>1. /\ DOMAIN S = 1 .. Len(S) /\ Len(S) \in Nat /\ Len(U) \in Nat /\ DOMAIN U = 1 .. Len(U)
          /\ DOMAIN T = 1 .. (Len(S) + Len(U))
      BY <1>1, ConcatFacts
    <3>2. k \notin DOMAIN S
      BY <3>1, <2>2, <1>4
    <3>3. /\ j - Len(S) \in DOMAIN U /\ T[j] = U[j - Len(S)]
          /\ k - Len(S) \in DOMAIN U /\ T[k] = U[k - Len(S)]
      BY <3>2, <2>2, <1>2, <1>4
    <3>4. j - Len(S) < k - Len(S)
      BY <3>1, <1>4
    <3> QED
      BY <3>3, <3>4, <1>4 DEF Grows
  <2> QED
    BY <2>1, <2>2, <1>2, <1>4
<1>5. Grows(D, U) => Grows(D, T)
  BY <1>4 DEF Grows
<1> QED
  BY <1>1, <1>3, <1>5

\* Nothing is said of lists without processes, or with one write of a process.
LEMMA GrowsShort ==
  ASSUME NEW D, NEW T
  PROVE  /\ (\A k \in DOMAIN T : T[k].t # "proc") => Even(D, T) /\ Grows(D, T)
         /\ (\A j, k \in DOMAIN T : T[j].t = "proc" /\ T[k].t = "proc" => ~(j < k)) => Grows(D, T)
BY DEF Even, Grows

\* prepare_process() makes the first work item and a list with it.
LEMMA CarriedProcess ==
  ASSUME DbOK(db), NEW Q, NEW r, Q[1] = r, IsRecord(db, r), r.t = "proc", ~r.v.stopped,
         NEW T, T = prepare_process(r.id, r.v)
  PROVE  CarriedOK(db, Q, T) /\ Grows(db, T)
<1>1. CASE T = <<>>
  <2>1. DOMAIN T = {}
    BY <1>1
  <2> QED
    BY <2>1 DEF CarriedOK, Grows
<1>2. CASE T # <<>>
  <2>1. r.v \in Process /\ r.v.completed = "absent" /\ r.id \in DOMAIN db["proc"]
    BY <1>2, RecordFacts DEF prepare_process
  <2>2. PICK v : v = NewWorkItem(r.id, Inputs[r.v.net], 0)
    OBVIOUS
  <2>3. PICK vs : vs = Net[Inputs[r.v.net]].starts
    OBVIOUS
  <2>4. PICK u : u = [r.v EXCEPT !.wil = <<New("wi")>>, !.completed = "false", !.local = @ \cup vs]
    OBVIOUS
  <2>5. PICK x, y : x = Put("wi", New("wi"), v) /\ y = Put("proc", r.id, u)
    OBVIOUS
  <2>6. PICK A : A = AddLocals(r.id, r.v.local, vs)
    OBVIOUS
  <2>7. T = A \o <<x, y>>
    BY <2>1, <2>2, <2>3, <2>4, <2>5, <2>6 DEF prepare_process
  <2>8. x.t = "wi" /\ x.v = v /\ x.id = New("wi") /\ y.t = "proc" /\ y.id = r.id /\ y.v = u
    BY <2>5, PutFacts
  <2>9. v.wil = <<>> /\ v.prev = 0 /\ v.proc = r.id /\ v.wol = <<>>
    BY <2>2 DEF NewWorkItem
  <2>10. u.wil = <<New("wi")>>
    BY <2>1, <2>4 DEF Process
  <2>11. New("wi") \notin DOMAIN db["wi"]
    BY NewNumber DEF Types
  <2>12. New("wi") \in ToSet(u.wil)
    BY <2>10 DEF ToSet
  <2>13. /\ A \in Seq(Write)
         /\ \A k \in DOMAIN A : A[k].t = "proc" /\ A[k].id = r.id /\ Grown(db["proc"][r.id], A[k].v)
    <3>1. vs \in SUBSET Vars /\ IsFiniteSet(vs)
      BY <2>1, <2>3, DocflowAssumption DEF Process
    <3> QED
      BY <3>1, <2>1, <2>6, AddFacts
  <2>14. PICK X : A \in Seq(X) /\ <<x, y>> \in Seq(X)
    <3>1. PICK X : X = Write \cup {x, y}
      OBVIOUS
    <3>2. A \in Seq(X) /\ <<x, y>> \in Seq(X)
      BY <3>1, <2>13
    <3> QED
      BY <3>2
  <2>15. PICK m \in Nat : /\ DOMAIN T = 1 .. (m + 2) /\ DOMAIN A = 1 .. m
                          /\ \A k \in DOMAIN A : T[k] = A[k]
                          /\ T[m + 1] = x /\ T[m + 2] = y
    <3>1. PICK Y : Y = <<x, y>>
      OBVIOUS
    <3>2. Y \in Seq(X) /\ Len(Y) = 2 /\ Y[1] = x /\ Y[2] = y
      BY <3>1, <2>14
    <3>3. /\ DOMAIN T = 1 .. (Len(A) + Len(Y)) /\ Len(A) \in Nat /\ DOMAIN A = 1 .. Len(A)
          /\ \A k \in 1 .. Len(A) : T[k] = A[k]
          /\ \A k \in (Len(A) + 1) .. (Len(A) + Len(Y)) : T[k] = Y[k - Len(A)]
      BY <3>1, <3>2, <2>7, <2>14, ConcatFacts
    <3>4. /\ Len(A) + 1 \in (Len(A) + 1) .. (Len(A) + Len(Y)) /\ (Len(A) + 1) - Len(A) = 1
          /\ Len(A) + 2 \in (Len(A) + 1) .. (Len(A) + Len(Y)) /\ (Len(A) + 2) - Len(A) = 2
      BY <3>2, <3>3
    <3>5. T[Len(A) + 1] = x /\ T[Len(A) + 2] = y
      BY <3>2, <3>3, <3>4
    <3> QED
      BY <3>2, <3>3, <3>5
  <2>16. /\ \A k \in DOMAIN T : k \in DOMAIN A \/ k = m + 1 \/ k = m + 2
         /\ m + 1 \in DOMAIN T /\ m + 2 \in DOMAIN T /\ m + 1 < m + 2
    BY <2>15
  <2>17. \A k \in DOMAIN T : T[k].t = "wi" => k = m + 1
    BY <2>8, <2>13, <2>15, <2>16
  <2>18. \A k \in DOMAIN T : T[k].t \in {"wi", "proc"}
    BY <2>8, <2>13, <2>15, <2>16
  <2>19. T[m + 1].t = "wi" /\ T[m + 1].id \notin DOMAIN db["wi"] /\ T[m + 1].v = v
    BY <2>8, <2>11, <2>15
  <2>20. /\ T[m + 2].t = "proc" /\ T[m + 2].id = T[m + 1].v.proc
         /\ T[m + 1].id \in ToSet(T[m + 2].v.wil)
    BY <2>8, <2>9, <2>12, <2>15
  <2>21. ItemCarried(db, Q, T, m + 1)
    <3>1. ToSet(<<>>) = {}
      BY DEF ToSet
    <3> QED
      BY <3>1, <2>9, <2>16, <2>19, <2>20 DEF ItemCarried, After
  <2>22. CarriedOK(db, Q, T)
    BY <2>17, <2>18, <2>21 DEF CarriedOK
  <2>23. Grows(db, T)
    <3>1. \A j, k \in DOMAIN T : j < k => j \in DOMAIN A \/ j = m + 1
      BY <2>15
    <3> QED
      BY <3>1, <2>13, <2>15, <2>19 DEF Grows
  <2> QED
    BY <2>22, <2>23
<1> QED
  BY <1>1, <1>2

\* Below() is what it says: the work items of the list, and those of the lists of
\* older ones below it.
LEMMA BelowFacts ==
  ASSUME DbOK(db), NEW list, NEW subs
  PROVE  /\ Below(list, subs) \subseteq DOMAIN db["wi"]
         /\ \A w \in DOMAIN db["wi"] :
              w \in Below(list, subs) <=>
                \/ w \in ToSet(list)
                \/ \E v \in 1 .. (w - 1) : v \in Below(list, subs) /\ w \in Children(v, subs)
<1> DEFINE S == DOMAIN db["wi"]
           Step(w, X) == \/ w \in ToSet(list)
                         \/ \E v \in 1 .. (w - 1) : v \in X /\ w \in Children(v, subs)
           G == {X \in SUBSET S : \A w \in S : Step(w, X) => w \in X}
           C == {w \in S : \A X \in G : w \in X}
           f == [w \in S |-> w \in C]
           Is(g) == g = [w \in S |-> \/ w \in ToSet(list)
                                     \/ \E v \in 1 .. (w - 1) : g[v] /\ w \in Children(v, subs)]
<1>1. S = 1 .. Len(db["wi"]) /\ Len(db["wi"]) \in Nat
  BY DbFacts DEF Types
<1>2. \A w \in S : \A v \in 1 .. (w - 1) : v \in S
  BY <1>1
<1>3. \A X, Y : X \subseteq Y => \A w : Step(w, X) => Step(w, Y)
  OBVIOUS
<1>4. C \in G
  <2>1. ASSUME NEW w \in S, Step(w, C), NEW X \in G
        PROVE  w \in X
    <3>1. C \subseteq X
      BY <2>1
    <3>2. Step(w, X)
      BY <3>1, <2>1, <1>3
    <3> QED
      BY <3>2, <2>1
  <2> QED
    BY <2>1
<1>5. ASSUME NEW w \in S, w \in C
      PROVE  Step(w, C)
  <2>1. SUFFICES ASSUME ~Step(w, C) PROVE FALSE
    OBVIOUS
  <2>2. PICK X : X = C \ {w}
    OBVIOUS
  <2>3. X \subseteq C /\ X \subseteq S
    BY <2>2
  <2>4. \A u \in S : Step(u, X) => u \in X
    <3> SUFFICES ASSUME NEW u \in S, Step(u, X) PROVE u \in X
      OBVIOUS
    <3>1. Step(u, C)
      BY <2>3, <1>3
    <3>2. u \in C
      BY <3>1, <1>4
    <3>3. u # w
      BY <3>1, <2>1
    <3> QED
      BY <3>2, <3>3, <2>2
  <2>5. X \in G
    BY <2>3, <2>4
  <2>6. w \in X
    BY <2>5, <1>5
  <2> QED
    BY <2>6, <2>2
<1>6. \A w \in S : w \in C <=> Step(w, C)
  BY <1>4, <1>5
<1>7. Is(f)
  <2>1. \A w \in S : \A v \in 1 .. (w - 1) : f[v] <=> v \in C
    BY <1>2
  <2>2. \A w \in S : (w \in C) <=>
          (w \in ToSet(list) \/ \E v \in 1 .. (w - 1) : f[v] /\ w \in Children(v, subs))
    BY <2>1, <1>6
  <2> DEFINE R(w) == w \in ToSet(list) \/ \E v \in 1 .. (w - 1) : f[v] /\ w \in Children(v, subs)
             P(w) == w \in C
  <2>3. \A w \in S : P(w) = R(w)
    <3> SUFFICES ASSUME NEW w \in S PROVE P(w) = R(w)
      OBVIOUS
    <3>1. P(w) <=> R(w)
      BY <2>2
    <3>2. P(w) \in BOOLEAN /\ R(w) \in BOOLEAN
      OBVIOUS
    <3> HIDE DEF P, R
    <3> QED
      BY <3>1, <3>2
  <2>4. [w \in S |-> P(w)] = [w \in S |-> R(w)]
    <3> HIDE DEF P, R
    <3> QED
      BY <2>3
  <2>5. f = [w \in S |-> P(w)]
    OBVIOUS
  <2>6. f = [w \in S |-> R(w)]
    BY <2>4, <2>5
  <2> QED
    BY <2>6
<1>8. PICK g : g = CHOOSE h : Is(h)
  OBVIOUS
<1>9. Is(g)
  <2> HIDE DEF Is, f
  <2> QED
    BY <1>7, <1>8
<1>10. Below(list, subs) = {w \in S : g[w]}
  BY <1>8 DEF Below
<1>11. \A w \in S : g[w] <=> \/ w \in ToSet(list)
                             \/ \E v \in 1 .. (w - 1) : g[v] /\ w \in Children(v, subs)
  BY <1>9
<1>12. \A v : v \in Below(list, subs) <=> v \in S /\ g[v]
  BY <1>10
<1> HIDE DEF S
<1> QED
  BY <1>2, <1>11, <1>12 DEF S

\* Nothing is below an empty list.
LEMMA NothingBelow ==
  ASSUME DbOK(db), NEW subs
  PROVE  Below(<<>>, subs) = {}
<1>1. PICK X : X = Below(<<>>, subs)
  OBVIOUS
<1>2. /\ X \subseteq DOMAIN db["wi"]
      /\ \A w \in DOMAIN db["wi"] :
           w \in X => w \in ToSet(<<>>) \/ \E v \in 1 .. (w - 1) : v \in X
  BY <1>1, BelowFacts
<1>3. ToSet(<<>>) = {}
  BY DEF ToSet
<1>4. X \subseteq Nat
  BY <1>2, DbFacts DEF Types
<1>5. SUFFICES ASSUME X # {} PROVE FALSE
  BY <1>1
<1>6. PICK w \in X : \A v \in X : w <= v
  BY <1>4, <1>5, LeastExists
<1>7. PICK v \in 1 .. (w - 1) : v \in X
  BY <1>2, <1>3, <1>6
<1> QED
  BY <1>4, <1>6, <1>7

\* All work items of a process are below its list, if each is in the list of the
\* one before.
LEMMA AllBelow ==
  ASSUME DbOK(db), TreeOK(db, <<>>), Kept(db, <<>>), NEW p, NEW subs,
         NEW w \in DOMAIN db["wi"], db["wi"][w].proc = p
  PROVE  w \in Below(db["proc"][p].wil, subs)
<1>1. PICK X : X = Below(db["proc"][p].wil, subs)
  OBVIOUS
<1>2. \A u \in DOMAIN db["wi"] :
        (u \in ToSet(db["proc"][p].wil) \/ \E v \in 1 .. (u - 1) : v \in X /\ u \in Children(v, subs))
          => u \in X
  BY <1>1, BelowFacts
<1>3. PICK Y : Y = {u \in DOMAIN db["wi"] : db["wi"][u].proc = p /\ u \notin X}
  OBVIOUS
<1>4. Y \subseteq Nat
  BY <1>3, DbFacts DEF Types
<1>5. SUFFICES ASSUME Y # {} PROVE FALSE
  BY <1>1, <1>3
<1>6. PICK u \in Y : \A v \in Y : u <= v
  BY <1>4, <1>5, LeastExists
<1>7. u \in DOMAIN db["wi"] /\ db["wi"][u].proc = p /\ u \notin X /\ u \in Nat
  BY <1>3, <1>4, <1>6
<1>8. PICK v : v = db["wi"][u].prev
  OBVIOUS
<1>9. DOMAIN (<<>>) = {}
  OBVIOUS
<1>10. v # 0
  <2>1. v = 0 => u \in ToSet(db["proc"][p].wil)
    BY <1>7, <1>8, <1>9 DEF TreeOK, Rooted
  <2> QED
    BY <2>1, <1>2, <1>7
<1>11. v \in DOMAIN db["wi"] /\ v < u /\ db["wi"][v].proc = p
  BY <1>7, <1>8, <1>10 DEF TreeOK, After
<1>12. v \in 1 .. (u - 1)
  <2>1. DOMAIN db["wi"] = 1 .. Len(db["wi"]) /\ Len(db["wi"]) \in Nat
    BY DbFacts DEF Types
  <2> QED
    BY <2>1, <1>7, <1>11
<1>13. v \in X
  <2>1. v \in Nat /\ ~(u <= v)
    BY <1>7, <1>12
  <2> QED
    BY <2>1, <1>3, <1>6, <1>11
<1>14. u \in ToSet(db["wi"][v].wil)
  BY <1>7, <1>8, <1>9, <1>10 DEF Kept, Follows
<1>15. u \in Children(v, subs)
  BY <1>14 DEF Children
<1> QED
  BY <1>2, <1>7, <1>12, <1>13, <1>15

\* InOrder() leaves nothing out.
LEMMA InOrderAll ==
  ASSUME NEW S, S \subseteq Nat, IsFiniteSet(S), NEW x \in S
  PROVE  \E k \in DOMAIN InOrder(S) : InOrder(S)[k] = x
<1> DEFINE Less(y) == {z \in S : z < y}
<1>1. \A y \in S : IsFiniteSet(Less(y)) /\ Cardinality(Less(y)) \in Nat /\ Less(y) \subseteq S
  <2>1. \A y \in S : Less(y) \in SUBSET S
    OBVIOUS
  <2>2. \A y \in S : IsFiniteSet(Less(y))
    BY <2>1, FS_Subset
  <2> QED
    BY <2>1, <2>2, FS_CardinalityType
<1>2. \A y \in S : y \notin Less(y)
  OBVIOUS
<1>3. Cardinality(Less(x)) < Cardinality(S)
  <2>1. Less(x) # S
    BY <1>2
  <2>2. Cardinality(Less(x)) <= Cardinality(S) /\ Cardinality(S) # Cardinality(Less(x))
    BY <1>1, <2>1, FS_Subset
  <2>3. Cardinality(S) \in Nat
    BY FS_CardinalityType
  <2> QED
    BY <2>2, <2>3, <1>1
<1>4. ASSUME NEW y \in S, NEW z \in S, y < z
      PROVE  Cardinality(Less(y)) # Cardinality(Less(z))
  <2>1. Less(y) \subseteq Less(z) /\ y \in Less(z) /\ y \notin Less(y)
    <3>1. y \in Nat /\ z \in Nat /\ \A u \in S : u \in Nat
      OBVIOUS
    <3>2. (\A u \in S : u < y => u < z) /\ ~(y < y)
      BY <3>1, <1>4
    <3>3. \A u : u \in Less(y) => u \in Less(z)
      BY <3>2
    <3>4. y \in Less(z) /\ y \notin Less(y)
      BY <3>2, <1>4
    <3> QED
      BY <3>3, <3>4
  <2>2. Less(y) \in SUBSET Less(z) /\ Less(y) # Less(z)
    BY <2>1
  <2>3. PICK A, B : A = Less(y) /\ B = Less(z)
    OBVIOUS
  <2>4. IsFiniteSet(B) /\ A \in SUBSET B /\ A # B
    BY <1>1, <2>2, <2>3
  <2>5. Cardinality(B) # Cardinality(A)
    BY <2>4, FS_Subset
  <2> QED
    BY <2>3, <2>5
<1>5. PICK k : k = Cardinality(Less(x)) + 1
  OBVIOUS
<1>6. k \in 1 .. Cardinality(S) /\ k - 1 = Cardinality(Less(x))
  <2>1. Cardinality(S) \in Nat
    BY FS_CardinalityType
  <2> QED
    BY <2>1, <1>1, <1>3, <1>5
<1>7. PICK y : y = CHOOSE u \in S : Cardinality({z \in S : z < u}) = k - 1
  OBVIOUS
<1>8. y \in S /\ Cardinality(Less(y)) = Cardinality(Less(x))
  <2>1. \E u \in S : Cardinality({z \in S : z < u}) = k - 1
    BY <1>6
  <2>2. y \in S /\ Cardinality({z \in S : z < y}) = k - 1
    BY <2>1, <1>7
  <2> QED
    BY <2>2, <1>6
<1>9. y = x
  <2>1. ~(y < x) /\ ~(x < y)
    BY <1>4, <1>8
  <2> QED
    BY <2>1, <1>8
<1>10. DOMAIN InOrder(S) = 1 .. Cardinality(S) /\ InOrder(S)[k] = y
  BY <1>6, <1>7 DEF InOrder
<1> QED
  BY <1>6, <1>9, <1>10

\* The stop of a process deletes the forms below it that are not done, stops the
\* processes below it that are not completed, and touches nothing else.
StopItem(D, r, x) ==
  \/ x.t = "form"
  \/ x.t = "df" /\ x.id \in DOMAIN D["df"] /\ x.v.deleted
  \/ /\ x.t = "proc" /\ x.id \in DOMAIN D["proc"]
     /\ x.v = [D["proc"][x.id] EXCEPT !.stopped = TRUE]
     /\ D["proc"][x.id].completed # "true" /\ D["proc"][x.id].parent # 0 /\ r.v.wil # <<>>

\* What the stop of a process sends, and that it sends to every form below that is not
\* done.
LEMMA StopShape ==
  ASSUME DbOK(db), TreeOK(db, <<>>), Subs(db), NEW r, r.t = "proc", NEW T, T = StopAll(r.id, r.v)
  PROVE  /\ \A k \in DOMAIN T : StopItem(db, r, T[k])
         /\ \A f \in DOMAIN db["df"], w \in Below(r.v.wil, TRUE) :
              \A o \in ToSet(db["wi"][w].wol) :
                f \in ToSet(db["wo"][o].dfl) /\ ~db["df"][f].done => \E k \in DOMAIN T : PutOf(T, k, f)
<1>1. PICK os : os = UNION {ToSet(db["wi"][w].wol) : w \in Below(r.v.wil, TRUE)}
  OBVIOUS
<1>2. PICK fs : fs = {f \in DOMAIN db["df"] : /\ \E o \in os : f \in ToSet(db["wo"][o].dfl)
                                               /\ ~db["df"][f].done}
  OBVIOUS
<1>3. PICK ps : ps = {q \in DOMAIN db["proc"] : /\ \E o \in os : db["wo"][o].sub = q
                                                 /\ db["proc"][q].completed # "true"}
  OBVIOUS
<1>4. PICK s : s = InOrder(fs)
  OBVIOUS
<1>5. PICK t : t = InOrder(ps)
  OBVIOUS
<1>6. "df" \in Types /\ "proc" \in Types
  BY DEF Types
<1>7. /\ DOMAIN s = 1 .. Len(s) /\ Len(s) \in Nat /\ \A k \in DOMAIN s : s[k] \in fs
      /\ \A f \in fs : \E k \in DOMAIN s : s[k] = f
  <2>1. DOMAIN db["df"] = 1 .. Len(db["df"]) /\ Len(db["df"]) \in Nat
    BY <1>6, DbFacts
  <2>2. IsFiniteSet(fs) /\ fs \subseteq Nat
    <3>1. IsFiniteSet(1 .. Len(db["df"]))
      BY <2>1, FS_Interval
    <3>2. fs \in SUBSET (1 .. Len(db["df"]))
      BY <2>1, <1>2
    <3>3. IsFiniteSet(fs)
      BY <3>1, <3>2, FS_Subset
    <3>4. fs \subseteq Nat
      BY <3>2, <2>1
    <3> QED
      BY <3>3, <3>4
  <2>3. \A f \in fs : \E k \in DOMAIN s : s[k] = f
    BY <2>2, <1>4, InOrderAll
  <2>4. fs \subseteq DOMAIN db["df"]
    BY <1>2
  <2>5. DOMAIN s = 1 .. Len(s) /\ Len(s) \in Nat /\ \A k \in DOMAIN s : s[k] \in fs
    BY <2>4, <1>4, <1>6, SomeInOrder
  <2> QED
    BY <2>3, <2>5
<1>8. DOMAIN t = 1 .. Len(t) /\ Len(t) \in Nat /\ \A k \in DOMAIN t : t[k] \in ps
  BY <1>3, <1>5, <1>6, SomeInOrder
<1>9. PICK A : A = [k \in DOMAIN s |-> Put("df", s[k], [db["df"][s[k]] EXCEPT !.deleted = TRUE])]
  OBVIOUS
<1>10. PICK B : B = [k \in DOMAIN t |-> Put("proc", t[k], [db["proc"][t[k]] EXCEPT !.stopped = TRUE])]
  OBVIOUS
<1>11. PICK C : C = change_process_status(r.id, "Interrupted")
  OBVIOUS
<1>12. T = (A \o B) \o C
  BY <1>1, <1>2, <1>3, <1>4, <1>5, <1>9, <1>10, <1>11 DEF StopAll
<1>13. ASSUME NEW k \in DOMAIN A
       PROVE  A[k].t = "df" /\ A[k].id = s[k] /\ A[k].id \in DOMAIN db["df"] /\ A[k].v.deleted
  <2>1. s[k] \in DOMAIN db["df"] /\ k \in DOMAIN s
    BY <1>2, <1>7, <1>9, <1>13
  <2>2. PICK v : v = [db["df"][s[k]] EXCEPT !.deleted = TRUE]
    OBVIOUS
  <2>3. v.deleted
    BY <2>1, <2>2, DbFacts DEF DecisionForm
  <2>4. A[k] = Put("df", s[k], v)
    BY <2>1, <2>2, <1>9
  <2> QED
    BY <2>1, <2>3, <2>4, PutFacts
<1>14. ASSUME NEW k \in DOMAIN B
       PROVE  /\ B[k].t = "proc" /\ B[k].id \in DOMAIN db["proc"]
              /\ B[k].v = [db["proc"][B[k].id] EXCEPT !.stopped = TRUE]
              /\ db["proc"][B[k].id].completed # "true" /\ db["proc"][B[k].id].parent # 0
              /\ r.v.wil # <<>>
  <2>1. t[k] \in ps /\ k \in DOMAIN t
    BY <1>8, <1>10, <1>14
  <2>2. PICK v : v = [db["proc"][t[k]] EXCEPT !.stopped = TRUE]
    OBVIOUS
  <2>3. B[k] = Put("proc", t[k], v)
    BY <2>1, <2>2, <1>10
  <2>4. B[k].t = "proc" /\ B[k].id = t[k] /\ B[k].v = v
    BY <2>3, PutFacts
  <2>5. t[k] \in DOMAIN db["proc"] /\ db["proc"][t[k]].completed # "true" /\ os # {}
    BY <2>1, <1>3
  <2>6. r.v.wil # <<>>
    BY <2>5, <1>1, NothingBelow
  <2>7. PICK o \in os : db["wo"][o].sub = t[k]
    BY <2>1, <1>3
  <2>8. o \in DOMAIN db["wo"]
    <3>1. PICK w \in Below(r.v.wil, TRUE) : o \in ToSet(db["wi"][w].wol)
      BY <1>1
    <3>2. w \in DOMAIN db["wi"]
      BY BelowFacts
    <3>3. DOMAIN (<<>>) = {}
      OBVIOUS
    <3> QED
      BY <3>1, <3>2, <3>3 DEF TreeOK, Comes
  <2>9. t[k] # 0
    <3>1. DOMAIN db["proc"] = 1 .. Len(db["proc"]) /\ Len(db["proc"]) \in Nat
      BY <1>6, DbFacts
    <3> QED
      BY <3>1, <2>5
  <2>10. db["proc"][t[k]].parent # 0
    BY <2>7, <2>8, <2>9 DEF Sub, Subs
  <2> QED
    BY <2>2, <2>4, <2>5, <2>6, <2>10
<1>15. \A k \in DOMAIN C : C[k].t = "form"
  <2>1. CASE C = <<>>
    BY <2>1
  <2>2. CASE C # <<>>
    <3>1. PICK v : C = <<Put("form", 1, v)>>
      BY <2>2, <1>11 DEF change_process_status
    <3>2. DOMAIN C = {1} /\ C[1].t = "form"
      BY <3>1, PutFacts
    <3> QED
      BY <3>2
  <2> QED
    BY <2>1, <2>2
<1>16. PICK X : A \in Seq(X) /\ B \in Seq(X) /\ C \in Seq(X)
  <2>1. PICK X : X = {A[k] : k \in DOMAIN A} \cup {B[k] : k \in DOMAIN B} \cup {C[k] : k \in DOMAIN C}
    OBVIOUS
  <2>2. A \in [1 .. Len(s) -> X]
    BY <2>1, <1>7, <1>9
  <2>3. B \in [1 .. Len(t) -> X]
    BY <2>1, <1>8, <1>10
  <2>4. C \in Seq(X)
    <3>1. CASE C = <<>>
      BY <3>1
    <3>2. CASE C # <<>>
      <4>1. PICK v : C = <<v>>
        BY <3>2, <1>11 DEF change_process_status
      <4>2. v \in X
        BY <4>1, <2>1
      <4> QED
        BY <4>1, <4>2
    <3> QED
      BY <3>1, <3>2
  <2> QED
    BY <2>2, <2>3, <2>4, <1>7, <1>8, MapFacts
<1>17. PICK U : U = A \o B
  OBVIOUS
<1>18. /\ U \in Seq(X) /\ T = U \o C /\ Len(A) \in Nat /\ Len(U) \in Nat
       /\ DOMAIN A = 1 .. Len(A) /\ DOMAIN U = 1 .. Len(U)
       /\ \A k \in DOMAIN A : k \in DOMAIN U /\ U[k] = A[k]
       /\ \A k \in DOMAIN U : k \in DOMAIN T /\ T[k] = U[k]
  <2>1. /\ U \in Seq(X) /\ Len(A) \in Nat /\ Len(B) \in Nat /\ DOMAIN A = 1 .. Len(A)
        /\ DOMAIN U = 1 .. (Len(A) + Len(B)) /\ Len(U) = Len(A) + Len(B)
        /\ \A k \in 1 .. Len(A) : U[k] = A[k]
    BY <1>16, <1>17, ConcatFacts
  <2>2. T = U \o C
    BY <1>12, <1>17
  <2>3. /\ DOMAIN T = 1 .. (Len(U) + Len(C)) /\ Len(C) \in Nat /\ Len(U) \in Nat
        /\ DOMAIN U = 1 .. Len(U)
        /\ \A k \in 1 .. Len(U) : T[k] = U[k]
    <3>1. U \in Seq(X) /\ C \in Seq(X)
      BY <1>16, <2>1
    <3> QED
      BY <3>1, <2>2, ConcatFacts
  <2>4. \A k \in DOMAIN A : k \in DOMAIN U /\ U[k] = A[k]
    BY <2>1
  <2>5. \A k \in DOMAIN U : k \in DOMAIN T /\ T[k] = U[k]
    BY <2>3
  <2> QED
    BY <2>1, <2>2, <2>3, <2>4, <2>5
<1>19. ASSUME NEW k \in DOMAIN T
       PROVE  \/ \E j \in DOMAIN A : T[k] = A[j]
              \/ \E j \in DOMAIN B : T[k] = B[j]
              \/ \E j \in DOMAIN C : T[k] = C[j]
  <2>1. (k \in DOMAIN U /\ T[k] = U[k]) \/ (k - Len(U) \in DOMAIN C /\ T[k] = C[k - Len(U)])
    BY <1>16, <1>18, <1>19, ConcatElement
  <2>2. k \in DOMAIN U =>
          (k \in DOMAIN A /\ U[k] = A[k]) \/ (k - Len(A) \in DOMAIN B /\ U[k] = B[k - Len(A)])
    BY <1>16, <1>17, ConcatElement
  <2> QED
    BY <2>1, <2>2
<1>20. ASSUME NEW f \in DOMAIN db["df"], NEW w \in Below(r.v.wil, TRUE),
              NEW o \in ToSet(db["wi"][w].wol), f \in ToSet(db["wo"][o].dfl), ~db["df"][f].done
       PROVE  \E k \in DOMAIN T : PutOf(T, k, f)
  <2>1. o \in os
    BY <1>1, <1>20
  <2>2. f \in fs
    BY <2>1, <1>2, <1>20
  <2>3. PICK k \in DOMAIN s : s[k] = f
    BY <2>2, <1>7
  <2>4. k \in DOMAIN A
    BY <1>9
  <2>5. k \in DOMAIN T /\ T[k] = A[k]
    BY <2>4, <1>18
  <2> QED
    BY <2>3, <2>4, <2>5, <1>13 DEF PutOf
<1>21. \A k \in DOMAIN T : StopItem(db, r, T[k])
  BY <1>13, <1>14, <1>15, <1>19 DEF StopItem
<1> QED
  BY <1>20, <1>21

\* What a stop sends changes no list.
LEMMA CarriedStop ==
  ASSUME DbOK(db), TreeOK(db, <<>>), NEW Q, NEW r, Q[1] = r, r.t = "proc", r.v.stopped,
         Subs(db),
         \A p \in DOMAIN db["proc"] : db["proc"][p].completed = "absent" => db["proc"][p].wil = <<>>,
         \/ db["proc"][r.id].stopped \/ db["proc"][r.id].completed = "true"
         \/ db["proc"][r.id].parent = 0 \/ r.v.wil = <<>>,
         NEW T, T = StopAll(r.id, r.v)
  PROVE  CarriedOK(db, Q, T) /\ ProcsOK(db, Q, T)
<1>1. \A k \in DOMAIN T : StopItem(db, r, T[k])
  BY StopShape
<1>2. ASSUME NEW k \in DOMAIN T, T[k].t = "proc"
      PROVE  ProcCarried(db, Q, T, k)
  <2>1. PICK p : p = T[k].id
    OBVIOUS
  <2>2. /\ p \in DOMAIN db["proc"] /\ T[k].v = [db["proc"][p] EXCEPT !.stopped = TRUE]
        /\ db["proc"][p].completed # "true" /\ db["proc"][p].parent # 0 /\ r.v.wil # <<>>
    BY <2>1, <1>1, <1>2 DEF StopItem
  <2>3. /\ T[k].v.stopped /\ T[k].v.wil = db["proc"][p].wil
        /\ T[k].v.completed = db["proc"][p].completed
    BY <2>2, DbFacts DEF Process
  <2>4. \A j \in DOMAIN T : T[j].t = "proc" /\ T[j].id = p => T[j].v = T[k].v
    BY <2>2, <1>1 DEF StopItem
  <2>5. /\ Onward(db["proc"][p], T[k].v) /\ Onward(T[k].v, T[k].v)
    BY <2>2, <2>3 DEF Onward
  <2>6. StopRecord(Q[1]) /\ Q[1].id = p => db["proc"][p].stopped
    BY <2>2
  <2>7. T[k].v.completed = "absent" => T[k].v.wil = <<>>
    BY <2>2, <2>3
  <2>8. \A j \in DOMAIN T : j < k /\ T[j].t = "proc" /\ T[j].id = p => Onward(T[j].v, T[k].v)
    BY <2>4, <2>5
  <2> QED
    BY <2>1, <2>3, <2>5, <2>6, <2>7, <2>8 DEF ProcCarried
<1>3. ASSUME NEW k \in DOMAIN T, T[k].t = "df"
      PROVE  FormCarried(db, Q, T, k)
  BY <1>1, <1>3 DEF FormCarried, StopItem
<1>4. \A k \in DOMAIN T : T[k].t \in {"form", "df", "proc"}
  BY <1>1 DEF StopItem
<1> QED
  BY <1>2, <1>3, <1>4 DEF CarriedOK, ProcsOK

\* prepare_decision_form() writes the form itself, or its work order.
LEMMA CarriedDecision ==
  ASSUME DbOK(db), Subs(db), NEW Q, NEW r, Q[1] = r, IsRecord(db, r), r.t = "df",
         NEW T, T = prepare_decision_form(r.id, r.v, r.was)
  PROVE  CarriedOK(db, Q, T)
<1>1. PICK f : f = r.id
  OBVIOUS
<1>2. PICK o : o = r.v.wo
  OBVIOUS
<1>3. f \in DOMAIN db["df"] /\ o \in DOMAIN db["wo"] /\ db["wo"][o] \in WorkOrder
  BY <1>1, <1>2, RecordFacts, DbFacts
<1>4. PICK u : u = [db["wo"][o] EXCEPT !.out = r.v.taken]
  OBVIOUS
<1>5. u.dfl = db["wo"][o].dfl /\ u.sub = db["wo"][o].sub
  BY <1>3, <1>4 DEF WorkOrder
<1>6. \A k \in DOMAIN T :
        \/ T[k].t = "df" /\ T[k].id = f
        \/ T[k].t = "wo" /\ T[k].id = o /\ T[k].v = u
  <2>1. CASE T = <<>>
    BY <2>1
  <2>2. CASE \E v : T = <<Put("df", f, v)>>
    <3>1. PICK v : T = <<Put("df", f, v)>>
      BY <2>2
    <3>2. DOMAIN T = {1} /\ T[1].t = "df" /\ T[1].id = f
      BY <3>1, PutFacts
    <3> QED
      BY <3>2
  <2>3. CASE \E v, w : T = <<Put("df", f, v), Put("df", f, w)>>
    <3>1. PICK v, w : T = <<Put("df", f, v), Put("df", f, w)>>
      BY <2>3
    <3>2. DOMAIN T = {1, 2} /\ T[1].t = "df" /\ T[1].id = f /\ T[2].t = "df" /\ T[2].id = f
      BY <3>1, PutFacts
    <3> QED
      BY <3>2
  <2>4. CASE \E v : T = <<Put("wo", o, u), Put("df", f, v)>>
    <3>1. PICK v : T = <<Put("wo", o, u), Put("df", f, v)>>
      BY <2>4
    <3>2. /\ DOMAIN T = {1, 2} /\ T[2].t = "df" /\ T[2].id = f
          /\ T[1].t = "wo" /\ T[1].id = o /\ T[1].v = u
      BY <3>1, PutFacts
    <3> QED
      BY <3>2
  <2>5. \/ T = <<>> \/ \E v : T = <<Put("df", f, v)>>
        \/ \E v, w : T = <<Put("df", f, v), Put("df", f, w)>>
        \/ \E v : T = <<Put("wo", o, u), Put("df", f, v)>>
    BY <1>1, <1>2, <1>4 DEF prepare_decision_form, TakeDecision, Report
  <2> QED
    BY <2>1, <2>2, <2>3, <2>4, <2>5
<1>7. \A k \in DOMAIN T : T[k].t = "df" => FormCarried(db, Q, T, k)
  BY <1>1, <1>3, <1>6 DEF FormCarried
<1>8. \A k \in DOMAIN T : T[k].t = "wo" => OrderCarried(db, Q, T, k)
  BY <1>3, <1>5, <1>6 DEF OrderCarried, Subs
<1>9. \A k \in DOMAIN T : T[k].t \in {"df", "wo"}
  BY <1>6
<1> QED
  BY <1>7, <1>8, <1>9 DEF CarriedOK

\* The work items made by create_work_item(), and the list of their numbers.
MadeItem(D, x, p, w) ==
  /\ x.t = "wi" /\ x.id \notin DOMAIN D["wi"] /\ x.id > w /\ ~x.v.done
  /\ x.v.wil = <<>> /\ x.v.wol = <<>> /\ x.v.prev = w /\ x.v.proc = p

\* The new work items, each of them after w.
LEMMA MadeItems ==
  ASSUME DbOK(db), NEW X, NEW es \in Seq(X), NEW p, NEW w \in DOMAIN db["wi"],
         NEW T, T = create_work_items(p, es, w)
  PROVE  /\ \A k \in DOMAIN T : MadeItem(db, T[k], p, w)
         /\ \A x \in ToSet(News("wi", es)) : x \notin DOMAIN db["wi"]
         /\ DOMAIN T = 1 .. Len(es) /\ Len(es) \in Nat /\ T = [k \in 1 .. Len(es) |-> T[k]]
<1>1. "wi" \in Types
  BY DEF Types
<1>2. PICK n : n = News("wi", es)
  OBVIOUS
<1>3. /\ DOMAIN es = 1 .. Len(es) /\ Len(es) \in Nat /\ DOMAIN n = DOMAIN es
      /\ \A k \in DOMAIN es : n[k] = Len(db["wi"]) + k
  BY <1>1, <1>2, NewsFacts
<1>4. DOMAIN db["wi"] = 1 .. Len(db["wi"]) /\ Len(db["wi"]) \in Nat
  BY <1>1, DbFacts
<1>5. \A k \in DOMAIN es : n[k] \notin DOMAIN db["wi"] /\ n[k] > w
  BY <1>3, <1>4
<1>6. /\ DOMAIN T = DOMAIN es /\ T = [k \in DOMAIN es |-> T[k]]
      /\ \A k \in DOMAIN es : T[k] = Put("wi", n[k], NewWorkItem(p, es[k], w))
  BY <1>2 DEF create_work_items
<1>7. ASSUME NEW k \in DOMAIN es
      PROVE  MadeItem(db, T[k], p, w)
  <2>1. PICK v : v = NewWorkItem(p, es[k], w)
    OBVIOUS
  <2>2. v.wil = <<>> /\ v.wol = <<>> /\ v.prev = w /\ v.proc = p /\ v.done = FALSE
    BY <2>1 DEF NewWorkItem
  <2>3. T[k].t = "wi" /\ T[k].id = n[k] /\ T[k].v = v
    BY <2>1, <1>6, PutFacts
  <2> QED
    BY <2>2, <2>3, <1>5 DEF MadeItem
<1>8. \A x \in ToSet(n) : x \notin DOMAIN db["wi"]
  BY <1>3, <1>5 DEF ToSet
<1> QED
  BY <1>2, <1>3, <1>6, <1>7, <1>8

\* The mapping of a task writes its process.
LEMMA MappingShape ==
  ASSUME DbOK(db), NEW w \in DOMAIN db["wi"], NEW M, M = <<>> \/ M = CompletedMapping(w)
  PROVE  M \in Seq(Write) /\ \A k \in DOMAIN M : M[k].t = "proc"
<1>1. CASE M = <<>>
  BY <1>1
<1>2. CASE M = CompletedMapping(w)
  <2>1. PICK c : c = db["wi"][w]
    OBVIOUS
  <2>2. c \in WorkItem /\ c.proc \in DOMAIN db["proc"]
    BY <2>1, DbFacts
  <2>3. Net[c.elem].ends \in SUBSET Vars /\ IsFiniteSet(Net[c.elem].ends)
    BY <2>2, DocflowAssumption DEF WorkItem
  <2>4. M = AddLocals(c.proc, db["proc"][c.proc].local, Net[c.elem].ends)
    BY <2>1, <1>2 DEF CompletedMapping
  <2> QED
    BY <2>2, <2>3, <2>4, AddFacts
<1> QED
  BY <1>1, <1>2

\* GotoNext() makes work items and writes the one that is left.
LeftItem(D, x, w) ==
  /\ x.t = "wi" /\ x.id = w /\ x.v.done /\ x.v.wol = D["wi"][w].wol
  /\ x.v.prev = D["wi"][w].prev /\ x.v.proc = D["wi"][w].proc
  /\ \A y \in ToSet(x.v.wil) : y \in ToSet(D["wi"][w].wil) \/ y \notin DOMAIN D["wi"]

\* What is sent when a task is left: new work items, and the one that lists them.
LEMMA GotoShape ==
  ASSUME DbOK(db), NEW o, NEW d, NEW w \in DOMAIN db["wi"], NEW T, T = GotoNext(o, d, w)
  PROVE  \A k \in DOMAIN T : \/ T[k].t = "proc"
                            \/ MadeItem(db, T[k], db["wi"][w].proc, w) \/ LeftItem(db, T[k], w)
<1>1. PICK c : c = db["wi"][w]
  OBVIOUS
<1>2. c \in WorkItem /\ c.elem \in DOMAIN Net
  BY <1>1, DbFacts DEF WorkItem
<1>3. PICK es : es = NextElements(c.elem, {Result(o, d, x) : x \in ToSet(c.wol)})
  OBVIOUS
<1>4. es \in Seq(DOMAIN Net)
  BY <1>2, <1>3, NextElementsSeq
<1>5. PICK U : U = create_work_items(c.proc, es, w)
  OBVIOUS
<1>6. PICK v : v = [c EXCEPT !.done = TRUE, !.wil = IF es = <<>> THEN @ ELSE News("wi", es)]
  OBVIOUS
<1>7. PICK x : x = Put("wi", w, v)
  OBVIOUS
<1>0. PICK S : S = Append(U, x)
  OBVIOUS
<1>8. PICK M : /\ M = <<>> \/ M = CompletedMapping(w)
               /\ T = M \o S
  <2>1. T = (IF d.executor = "nobody" /\ d.out = 0 THEN <<>> ELSE CompletedMapping(w)) \o S
    BY <1>0, <1>1, <1>3, <1>5, <1>6, <1>7 DEF GotoNext
  <2> QED
    BY <2>1
<1>9. /\ \A k \in DOMAIN U : MadeItem(db, U[k], c.proc, w)
      /\ \A y \in ToSet(News("wi", es)) : y \notin DOMAIN db["wi"]
      /\ DOMAIN U = 1 .. Len(es) /\ Len(es) \in Nat /\ U = [k \in 1 .. Len(es) |-> U[k]]
  BY <1>4, <1>5, MadeItems
<1>10. PICK l : l = IF es = <<>> THEN c.wil ELSE News("wi", es)
  OBVIOUS
<1>11. v = [c EXCEPT !.done = TRUE, !.wil = l]
  BY <1>6, <1>10
<1>12. v.done /\ v.wol = c.wol /\ v.prev = c.prev /\ v.proc = c.proc /\ v.wil = l
  BY <1>2, <1>11 DEF WorkItem
<1>13. \A y \in ToSet(l) : y \in ToSet(c.wil) \/ y \notin DOMAIN db["wi"]
  BY <1>9, <1>10
<1>14. LeftItem(db, x, w)
  BY <1>1, <1>7, <1>12, <1>13, PutFacts DEF LeftItem
<1>15. PICK Y : Y = {U[k] : k \in DOMAIN U} \cup {x}
  OBVIOUS
<1>16. U \in Seq(Y) /\ x \in Y
  <2>1. U \in [1 .. Len(es) -> Y]
    BY <1>9, <1>15
  <2> QED
    BY <2>1, <1>9, <1>15, MapFacts
<1>17. /\ S \in Seq(Y) /\ DOMAIN U = 1 .. Len(U) /\ DOMAIN S = 1 .. (Len(U) + 1) /\ Len(U) \in Nat
       /\ \A k \in DOMAIN U : S[k] = U[k]
       /\ S[Len(U) + 1] = x
  BY <1>0, <1>16, AppendFacts
<1>18. \A k \in DOMAIN S : k \in DOMAIN U \/ k = Len(U) + 1
  BY <1>17
<1>19. \A k \in DOMAIN S : MadeItem(db, S[k], c.proc, w) \/ LeftItem(db, S[k], w)
  BY <1>9, <1>14, <1>17, <1>18
<1>20. M \in Seq(Write) /\ \A k \in DOMAIN M : M[k].t = "proc"
  BY <1>8, MappingShape
<1>21. M \in Seq(Write \cup Y) /\ S \in Seq(Write \cup Y)
  BY <1>17, <1>20
<1> QED
  BY <1>1, <1>8, <1>19, <1>20, <1>21, ConcatElement

\* Execute() writes the work order in hand, and makes a form or a process.
OrderItem(D, r, x) ==
  /\ x.t = "wo" /\ x.id = r.id
  /\ D["wo"][r.id].executor \in Users => ToSet(D["wo"][r.id].dfl) \subseteq ToSet(x.v.dfl)
MadeForm(D, r, x) ==
  /\ x.t = "df" /\ x.id \notin DOMAIN D["df"]
  /\ x.v.taken = 0 /\ ~x.v.done /\ x.v.wo = r.id
KeptSub(D, T, k) ==
  \/ Sub(D, T[k].v.sub)
  \/ \E j \in DOMAIN T : j < k /\ T[j].t = "proc" /\ T[j].id = T[k].v.sub /\ T[j].v.parent # 0

Executed(D, r, T) ==
  /\ \A j, k \in DOMAIN T : T[j].t = "wo" /\ T[k].t = "wo" => j = k
  /\ \A k \in DOMAIN T : \/ OrderItem(D, r, T[k]) /\ KeptSub(D, T, k)
                        \/ T[k].t = "proc"
                        \/ /\ MadeForm(D, r, T[k])
                           /\ \E j \in DOMAIN T : /\ k < j /\ OrderItem(D, r, T[j])
                                                  /\ T[k].id \in ToSet(T[j].v.dfl)

\* A work order sends its form, or its process, and then itself with the list.
LEMMA ExecuteShape ==
  ASSUME DbOK(db), Subs(db), NEW r, IsRecord(db, r), r.t = "wo", Sub(db, r.v.sub),
         NEW T, T = Execute(r.id, r.v)
  PROVE  Executed(db, r, T)
<1>1. /\ r.v \in WorkOrder /\ r.id \in DOMAIN db["wo"] /\ Same("wo", r.v, db["wo"][r.id])
      /\ "df" \in Types /\ "proc" \in Types
  BY RecordFacts DEF Types
<1>2. db["wo"][r.id] \in WorkOrder /\ db["wo"][r.id].executor = r.v.executor
  BY <1>1, DbFacts DEF Same
<1>3. CASE r.v.out # 0
  <2>1. T = <<>>
    BY <1>3 DEF Execute
  <2>2. DOMAIN T = {}
    BY <2>1
  <2> QED
    BY <2>2 DEF Executed
<1>4. CASE r.v.out = 0 /\ r.v.executor \in Users
  <2>1. PICK v : v = NewDecisionForm(r.id)
    OBVIOUS
  <2>2. PICK l : l = db["wo"][r.id].dfl
    OBVIOUS
  <2>3. PICK n : n = New("df")
    OBVIOUS
  <2>4. PICK m : m = Append(l, n)
    OBVIOUS
  <2>5. PICK u : u = [db["wo"][r.id] EXCEPT !.dfl = m]
    OBVIOUS
  <2>6. PICK x, y : x = Put("df", n, v) /\ y = Put("wo", r.id, u)
    OBVIOUS
  <2>7. T = <<x, y>>
    BY <1>4, <2>1, <2>2, <2>3, <2>4, <2>5, <2>6 DEF Execute
  <2>8. DOMAIN T = {1, 2} /\ T[1] = x /\ T[2] = y
    BY <2>7
  <2>9. n \in Ids /\ n \notin DOMAIN db["df"]
    BY <1>1, <2>3, NewNumber
  <2>10. l \in Seq(Ids)
    BY <1>2, <2>2 DEF WorkOrder
  <2>11. ToSet(l) \subseteq ToSet(m) /\ n \in ToSet(m) /\ m \in Seq(Ids)
    <3>1. /\ m \in Seq(Ids) /\ DOMAIN m = 1 .. (Len(l) + 1) /\ Len(l) \in Nat
          /\ DOMAIN l = 1 .. Len(l) /\ m[Len(l) + 1] = n /\ \A k \in DOMAIN l : m[k] = l[k]
      BY <2>4, <2>9, <2>10, AppendFacts
    <3>2. \A k \in DOMAIN l : k \in DOMAIN m /\ m[k] = l[k]
      BY <3>1
    <3>3. Len(l) + 1 \in DOMAIN m
      BY <3>1
    <3> QED
      BY <3>1, <3>2, <3>3 DEF ToSet
  <2>12. u.dfl = m /\ u.sub = db["wo"][r.id].sub
    BY <1>2, <2>5, <2>11 DEF WorkOrder
  <2>13. v.wo = r.id /\ v.taken = 0 /\ v.done = FALSE
    BY <2>1 DEF NewDecisionForm
  <2>14. x.t = "df" /\ x.id = n /\ x.v = v /\ y.t = "wo" /\ y.id = r.id /\ y.v = u
    BY <2>6, PutFacts
  <2>15. MadeForm(db, r, T[1]) /\ OrderItem(db, r, T[2]) /\ T[1].id \in ToSet(T[2].v.dfl)
    BY <2>2, <2>8, <2>9, <2>11, <2>12, <2>13, <2>14 DEF MadeForm, OrderItem
  <2>16. KeptSub(db, T, 2)
    BY <2>8, <2>12, <2>14, <1>1 DEF KeptSub, Subs
  <2>17. T[1].t = "df" /\ T[2].t = "wo" /\ 1 < 2
    BY <2>8, <2>14
  <2> QED
    BY <2>8, <2>15, <2>16, <2>17 DEF Executed
<1>5. CASE r.v.out = 0 /\ r.v.executor \notin Users /\ r.v.executor \in DOMAIN Inputs
  <2>1. PICK v : v = NewProcess(r.v.executor, r.id)
    OBVIOUS
  <2>2. PICK u : u = [r.v EXCEPT !.sub = New("proc")]
    OBVIOUS
  <2>3. PICK x, y : x = Put("proc", New("proc"), v) /\ y = Put("wo", r.id, u)
    OBVIOUS
  <2>4. T = <<x, y>>
    BY <1>5, <2>1, <2>2, <2>3 DEF Execute
  <2>5. DOMAIN T = {1, 2} /\ T[1] = x /\ T[2] = y
    BY <2>4
  <2>6. New("proc") \notin DOMAIN db["proc"]
    BY <1>1, NewNumber
  <2>7. v.parent = r.id /\ r.id # 0 /\ u.sub = New("proc")
    <3>1. New("proc") \in Ref /\ r.id \in Ids
      BY <1>1, NewNumber, RecordFacts DEF Ref
    <3> QED
      BY <3>1, <1>1, <2>1, <2>2 DEF NewProcess, WorkOrder, Ids
  <2>8. /\ x.t = "proc" /\ x.id = New("proc") /\ x.v = v
        /\ y.t = "wo" /\ y.id = r.id /\ y.v = u /\ 1 < 2
    BY <2>3, PutFacts
  <2>9. KeptSub(db, T, 2) /\ OrderItem(db, r, T[2])
    BY <1>2, <1>5, <2>5, <2>7, <2>8 DEF KeptSub, OrderItem
  <2> QED
    BY <2>5, <2>8, <2>9 DEF Executed
<1>6. CASE r.v.out = 0 /\ r.v.executor \notin Users /\ r.v.executor \notin DOMAIN Inputs
  <2>1. PICK v : v = [r.v EXCEPT !.out = 1]
    OBVIOUS
  <2>2. PICK y : y = Put("wo", r.id, v)
    OBVIOUS
  <2>3. PICK M : /\ M = <<>> \/ M = CompletedMapping(r.v.wi)
                 /\ T = M \o <<y>>
    <3>1. T = (IF r.v.executor # "nobody" THEN <<>> ELSE CompletedMapping(r.v.wi)) \o <<y>>
      BY <1>6, <2>1, <2>2 DEF Execute
    <3> QED
      BY <3>1
  <2>4. y.t = "wo" /\ y.id = r.id /\ y.v = v
    BY <2>2, PutFacts
  <2>5. v.sub = r.v.sub
    BY <2>1, <1>1 DEF WorkOrder
  <2>6. M \in Seq(Write) /\ \A k \in DOMAIN M : M[k].t = "proc"
    BY <2>3, MappingShape, RecordFacts
  <2>7. PICK X : M \in Seq(X) /\ <<y>> \in Seq(X)
    <3>1. PICK X : X = Write \cup {y}
      OBVIOUS
    <3>2. M \in Seq(X) /\ <<y>> \in Seq(X)
      BY <3>1, <2>6
    <3> QED
      BY <3>2
  <2>8. PICK m \in Nat : /\ DOMAIN T = 1 .. (m + 1) /\ DOMAIN M = 1 .. m
                         /\ \A k \in DOMAIN M : T[k] = M[k]
                         /\ T[m + 1] = y
    <3>1. PICK Y : Y = <<y>>
      OBVIOUS
    <3>2. Y \in Seq(X) /\ Len(Y) = 1 /\ Y[1] = y
      BY <3>1, <2>7
    <3>3. /\ DOMAIN T = 1 .. (Len(M) + Len(Y)) /\ Len(M) \in Nat /\ DOMAIN M = 1 .. Len(M)
          /\ \A k \in 1 .. Len(M) : T[k] = M[k]
          /\ \A k \in (Len(M) + 1) .. (Len(M) + Len(Y)) : T[k] = Y[k - Len(M)]
      BY <3>1, <3>2, <2>3, <2>7, ConcatFacts
    <3>4. Len(M) + 1 \in (Len(M) + 1) .. (Len(M) + Len(Y)) /\ (Len(M) + 1) - Len(M) = 1
      BY <3>2, <3>3
    <3> QED
      BY <3>2, <3>3, <3>4
  <2>9. \A k \in DOMAIN T : k \in DOMAIN M \/ k = m + 1
    BY <2>8
  <2>10. OrderItem(db, r, T[m + 1]) /\ KeptSub(db, T, m + 1)
    BY <1>2, <1>6, <2>4, <2>5, <2>8 DEF OrderItem, KeptSub
  <2>11. \A k \in DOMAIN T : T[k].t = "proc" \/ k = m + 1
    BY <2>6, <2>8, <2>9
  <2> QED
    BY <2>10, <2>11 DEF Executed
<1> QED
  BY <1>3, <1>4, <1>5, <1>6

\* The lists that are sent have what was in them before, or what is new.
NewLists(D, T) ==
  \A k \in DOMAIN T : T[k].t = "wi" /\ T[k].id \in DOMAIN D["wi"] =>
    \A x \in ToSet(T[k].v.wil) : x \in ToSet(D["wi"][T[k].id].wil) \/ x \notin DOMAIN D["wi"]
\* Forms are made in processes that are not stopped.
Running(D, T) ==
  \A k \in DOMAIN T : T[k].t = "df" /\ T[k].id \notin DOMAIN D["df"] =>
    ~D["proc"][HomeOf(D, T[k].v.wo)].stopped

\* prepare_work_order() writes the work order in hand, makes a form or a process,
\* makes the next work items and writes the one that is left.
LEMMA CarriedOrder ==
  ASSUME DbOK(db), TreeOK(db, <<>>), Subs(db), NEW Q, NEW r, Q[1] = r, IsRecord(db, r), r.t = "wo",
         Sub(db, r.v.sub), NEW T, T = prepare_work_order(r.id, r.v)
  PROVE  CarriedOK(db, Q, T) /\ NewLists(db, T) /\ Running(db, T)
<1>1. CASE T = <<>>
  <2>1. DOMAIN T = {}
    BY <1>1
  <2> QED
    BY <2>1 DEF CarriedOK, NewLists, Running
<1>2. CASE T # <<>>
  <2>1. PICK A : A = Execute(r.id, r.v)
    OBVIOUS
  <2>2. PICK B : B = IF AllResults(r.id, r.v, r.v.wi) THEN GotoNext(r.id, r.v, r.v.wi) ELSE <<>>
    OBVIOUS
  <2>3. T = A \o B /\ ~db["proc"][db["wi"][r.v.wi].proc].stopped
    BY <1>2, <2>1, <2>2 DEF prepare_work_order
  <2>4. PICK w, p : w = r.v.wi /\ p = db["wi"][w].proc
    OBVIOUS
  <2>5. /\ r.id \in DOMAIN db["wo"] /\ w \in DOMAIN db["wi"] /\ db["wo"][r.id].wi = w
        /\ w \in Ids /\ db["wi"][w] \in WorkItem
    BY <2>4, RecordFacts, DbFacts DEF Same, Types
  <2>6. A \in Seq(Write) /\ B \in Seq(Write)
    <3>1. A \in Seq(Write)
      BY <2>1, ExecuteList, ListWrites
    <3>2. CASE AllResults(r.id, r.v, r.v.wi)
      <4>1. B \in Seq(Write)
        BY <3>2, <2>2, GotoNextList, ListWrites
      <4> QED
        BY <4>1, <3>1
    <3>3. CASE ~AllResults(r.id, r.v, r.v.wi)
      BY <3>1, <3>3, <2>2
    <3> QED
      BY <3>2, <3>3
  <2>7. \A k \in DOMAIN B : B[k].t = "proc" \/ MadeItem(db, B[k], p, w) \/ LeftItem(db, B[k], w)
    <3>1. CASE AllResults(r.id, r.v, r.v.wi)
      BY <3>1, <2>2, <2>4, <2>5, GotoShape
    <3>2. CASE ~AllResults(r.id, r.v, r.v.wi)
      <4>1. DOMAIN B = {}
        BY <3>2, <2>2
      <4> QED
        BY <4>1
    <3> QED
      BY <3>1, <3>2
  <2>9. /\ \A j, k \in DOMAIN A : A[j].t = "wo" /\ A[k].t = "wo" => j = k
        /\ \A k \in DOMAIN A : \/ OrderItem(db, r, A[k]) /\ KeptSub(db, A, k)
                               \/ A[k].t = "proc"
                               \/ /\ MadeForm(db, r, A[k])
                                  /\ \E j \in DOMAIN A : /\ k < j /\ OrderItem(db, r, A[j])
                                                         /\ A[k].id \in ToSet(A[j].v.dfl)
    <3>1. Executed(db, r, A)
      BY <2>1, ExecuteShape
    <3> QED
      BY <3>1 DEF Executed
  <2>10. /\ \A k \in DOMAIN T : \/ k \in DOMAIN A /\ T[k] = A[k]
                                \/ \E j \in DOMAIN B : T[k] = B[j]
         /\ \A k \in DOMAIN A : k \in DOMAIN T /\ T[k] = A[k]
    <3>1. \A k \in DOMAIN T : \/ k \in DOMAIN A /\ T[k] = A[k]
                              \/ k - Len(A) \in DOMAIN B /\ T[k] = B[k - Len(A)]
      BY <2>3, <2>6, ConcatElement
    <3>2. /\ DOMAIN A = 1 .. Len(A) /\ Len(A) \in Nat /\ Len(B) \in Nat
          /\ DOMAIN T = 1 .. (Len(A) + Len(B)) /\ \A k \in 1 .. Len(A) : T[k] = A[k]
      BY <2>3, <2>6, ConcatFacts
    <3>3. \A k \in DOMAIN A : k \in DOMAIN T /\ T[k] = A[k]
      BY <3>2
    <3> QED
      BY <3>1, <3>3
  <2>11. \A k \in DOMAIN T : T[k].t \notin {"wi", "proc"} => k \in DOMAIN A /\ T[k] = A[k]
    BY <2>7, <2>10 DEF MadeItem, LeftItem
  <2>12. \A k \in DOMAIN T : T[k].t = "wi" => MadeItem(db, T[k], p, w) \/ LeftItem(db, T[k], w)
    BY <2>7, <2>9, <2>10 DEF OrderItem, MadeForm
  <2>13. ToSet(<<>>) = {}
    BY DEF ToSet
  <2>14. ASSUME NEW k \in DOMAIN T, T[k].t = "wi"
         PROVE  ItemCarried(db, Q, T, k)
    <3>1. CASE MadeItem(db, T[k], p, w)
      <4>1. /\ T[k].id \notin DOMAIN db["wi"] /\ T[k].v.wil = <<>> /\ T[k].v.prev = w
            /\ T[k].v.proc = p /\ w # 0 /\ T[k].id > w /\ T[k].v.wol = <<>>
        BY <3>1, <2>5 DEF MadeItem, Ids
      <4>2. w < T[k].id
        BY <4>1
      <4>3. After(db, T[k].id, T[k].v)
        BY <4>1, <4>2, <2>4, <2>5 DEF After
      <4> QED
        BY <4>1, <4>3, <2>13 DEF ItemCarried
    <3>2. CASE LeftItem(db, T[k], w)
      <4>1. /\ T[k].id = w /\ T[k].v.done /\ T[k].v.wol = db["wi"][w].wol
            /\ T[k].v.prev = db["wi"][w].prev /\ T[k].v.proc = db["wi"][w].proc
        BY <3>2 DEF LeftItem
      <4>2. \A j \in DOMAIN T : T[j].t = "wi" /\ T[j].id = w => T[j].v.wol = T[k].v.wol
        BY <4>1, <2>5, <2>12 DEF LeftItem, MadeItem
      <4>3. After(db, w, T[k].v)
        BY <4>1, <2>5 DEF TreeOK, After
      <4>4. \A o \in ToSet(T[k].v.wol) : Comes(db, T, k, o)
        BY <4>1, <2>5 DEF TreeOK, Comes
      <4> QED
        BY <4>1, <4>2, <4>3, <4>4, <2>5 DEF ItemCarried
    <3> QED
      BY <3>1, <3>2, <2>12, <2>14
  <2>15. ASSUME NEW k \in DOMAIN T, T[k].t = "wo"
         PROVE  OrderCarried(db, Q, T, k)
    <3>1. k \in DOMAIN A /\ T[k] = A[k]
      BY <2>11, <2>15
    <3>2. OrderItem(db, r, T[k]) /\ KeptSub(db, A, k)
      BY <3>1, <2>9, <2>15 DEF MadeForm
    <3>3. \A j \in DOMAIN T : T[j].t = "wo" => T[j] = T[k]
      BY <3>1, <2>9, <2>11, <2>15
    <3>4. KeptSub(db, T, k)
      BY <3>1, <3>2, <2>10 DEF KeptSub
    <3> QED
      BY <3>2, <3>3, <3>4, <2>5 DEF OrderCarried, OrderItem, KeptSub
  <2>16. ASSUME NEW k \in DOMAIN T, T[k].t = "df"
         PROVE  /\ FormCarried(db, Q, T, k)
                /\ ~db["proc"][HomeOf(db, T[k].v.wo)].stopped
    <3>1. k \in DOMAIN A /\ T[k] = A[k]
      BY <2>11, <2>16
    <3>2. PICK j \in DOMAIN A : /\ MadeForm(db, r, T[k]) /\ k < j /\ OrderItem(db, r, A[j])
                                /\ T[k].id \in ToSet(A[j].v.dfl)
      BY <3>1, <2>9, <2>16 DEF OrderItem
    <3>3. j \in DOMAIN T /\ T[j] = A[j]
      BY <2>10
    <3>4. FormCarried(db, Q, T, k)
      BY <3>2, <3>3 DEF FormCarried, MadeForm, OrderItem
    <3>5. HomeOf(db, T[k].v.wo) = p
      BY <3>2, <2>4, <2>5 DEF MadeForm, HomeOf
    <3> QED
      BY <3>4, <3>5, <2>3, <2>4
  <2>17. \A k \in DOMAIN T : T[k].t = "wi" /\ T[k].id \in DOMAIN db["wi"] =>
           \A x \in ToSet(T[k].v.wil) : \/ x \in ToSet(db["wi"][T[k].id].wil)
                                        \/ x \notin DOMAIN db["wi"]
    BY <2>12 DEF MadeItem, LeftItem
  <2> QED
    BY <2>14, <2>15, <2>16, <2>17 DEF CarriedOK, NewLists, Running
<1> QED
  BY <1>1, <1>2

\* prepare_work_item() writes the work item in hand, which has no work order yet.
OwnWrite(D, r, x) ==
  /\ x.t = "wi" /\ x.id = r.id /\ x.v.prev = D["wi"][r.id].prev
  /\ x.v.proc = D["wi"][r.id].proc /\ (~x.v.done => x.v.wil = <<>>)
  /\ \A y \in ToSet(x.v.wil) : y \notin DOMAIN D["wi"]

\* Such a write, sent before any work order of the work item.
LEMMA OwnCarried ==
  ASSUME NEW D, TreeOK(D, <<>>), NEW Q, NEW r, Q[1] = r, r.t = "wi", r.id \in DOMAIN D["wi"],
         NoOrder(D, r.id), NEW T, NEW k \in DOMAIN T, OwnWrite(D, r, T[k]),
         \A o \in ToSet(T[k].v.wol) : Comes(D, T, k, o),
         \A j \in DOMAIN T : j < k /\ T[j].t = "wo" => T[j].v.wi # r.id
  PROVE  ItemCarried(D, Q, T, k)
<1>1. /\ T[k].id = r.id /\ T[k].v.prev = D["wi"][r.id].prev
      /\ T[k].v.proc = D["wi"][r.id].proc /\ (~T[k].v.done => T[k].v.wil = <<>>)
  BY DEF OwnWrite
<1>2. After(D, r.id, T[k].v)
  BY <1>1 DEF TreeOK, After
<1> QED
  BY <1>1, <1>2 DEF ItemCarried

\* What is known of the work item in hand.
InHand(D, Q, r) ==
  /\ Q[1] = r /\ IsRecord(D, r) /\ Visit(r) /\ NoOrder(D, r.id)
  /\ r.v.prev = D["wi"][r.id].prev /\ r.v.wil = <<>> /\ r.v.wol = <<>>

\* What follows for the work item, and for what its script writes to it.
LEMMA OwnFacts ==
  ASSUME DbOK(db), NEW Q, NEW r, InHand(db, Q, r)
  PROVE  /\ r.t = "wi" /\ r.id \in DOMAIN db["wi"] /\ r.v \in WorkItem /\ r.id \in Ids
         /\ ~r.v.done /\ r.v.proc \in DOMAIN db["proc"]
         /\ \A v \in WorkItem : v.prev = r.v.prev /\ v.proc = r.v.proc /\ (~v.done => v.wil = <<>>)
              /\ (\A y \in ToSet(v.wil) : y \notin DOMAIN db["wi"])
              => OwnWrite(db, r, Put("wi", r.id, v))
<1>1. /\ r.t = "wi" /\ r.id \in DOMAIN db["wi"] /\ r.v \in WorkItem /\ r.id \in Ids
      /\ ~r.v.done /\ r.v.prev = db["wi"][r.id].prev /\ r.v.proc = db["wi"][r.id].proc
      /\ r.v.proc \in DOMAIN db["proc"]
  BY RecordFacts DEF InHand, Visit, Same
<1>2. ASSUME NEW v \in WorkItem, v.prev = r.v.prev, v.proc = r.v.proc, ~v.done => v.wil = <<>>,
             \A y \in ToSet(v.wil) : y \notin DOMAIN db["wi"]
      PROVE  OwnWrite(db, r, Put("wi", r.id, v))
  <2>1. PICK x : x = Put("wi", r.id, v)
    OBVIOUS
  <2>2. x.t = "wi" /\ x.id = r.id /\ x.v = v
    BY <2>1, PutFacts
  <2>3. OwnWrite(db, r, x)
    BY <2>2, <1>1, <1>2 DEF OwnWrite
  <2> QED
    BY <2>1, <2>3
<1> QED
  BY <1>1, <1>2

\* A task: the work item has the list of the work orders before these are made.
Marked(r, d) ==
  /\ d.prev = r.v.prev /\ d.proc = r.v.proc /\ d.elem = r.v.elem
  /\ d.wil = <<>> /\ d.wol = <<>> /\ ~d.done

\* What a task sends.
LEMMA CarriedTask ==
  ASSUME DbOK(db), TreeOK(db, <<>>), NEW Q, NEW r, InHand(db, Q, r),
         NEW d \in WorkItem, Marked(r, d), NEW U, U = StartTask(r.id, d),
         NEW a, a = Put("wi", r.id, d), NEW T, T = <<a>> \o U
  PROVE  CarriedOK(db, Q, T) /\ NewLists(db, T) /\ Running(db, T) /\ Grows(db, T)
<1>1. /\ r.t = "wi" /\ r.id \in DOMAIN db["wi"] /\ r.v \in WorkItem /\ r.id \in Ids
      /\ ~r.v.done /\ Q[1] = r /\ Visit(r) /\ NoOrder(db, r.id) /\ r.v.wil = <<>>
  BY OwnFacts DEF InHand
<1>0. ToSet(<<>>) = {}
  BY DEF ToSet
<1>2. /\ d.prev = r.v.prev /\ d.proc = r.v.proc /\ d.wil = <<>> /\ d.elem = r.v.elem
      /\ d.wol = <<>> /\ d.elem \in DOMAIN Net /\ d.proc \in DOMAIN db["proc"]
  BY OwnFacts DEF Marked, WorkItem
<1>3. PICK xs : xs = IF Net[d.elem].executors = <<>> THEN <<"nobody">> ELSE Net[d.elem].executors
  OBVIOUS
<1>4. PICK X : xs \in Seq(X)
  <2>1. Net[d.elem].executors \in Seq(STRING)
    BY <1>2, DocflowAssumption DEF WorkItem
  <2>2. <<"nobody">> \in Seq({"nobody"})
    OBVIOUS
  <2> QED
    BY <1>3, <2>1, <2>2
<1>5. PICK n : n = News("wo", xs)
  OBVIOUS
<1>6. /\ n \in Seq(Ids) /\ DOMAIN n = DOMAIN xs /\ DOMAIN xs = 1 .. Len(xs) /\ Len(xs) \in Nat
      /\ \A k \in DOMAIN xs : n[k] = Len(db["wo"]) + k
  BY <1>4, <1>5, NewsFacts DEF Types
<1>7. PICK v : v = [d EXCEPT !.wol = n]
  OBVIOUS
<1>8. v \in WorkItem /\ v.prev = r.v.prev /\ v.proc = r.v.proc /\ v.wil = <<>> /\ v.wol = n
  BY <1>2, <1>6, <1>7 DEF WorkItem
<1>9. PICK b : b = Put("wi", r.id, v)
  OBVIOUS
<1>10. OwnWrite(db, r, a) /\ OwnWrite(db, r, b)
  BY <1>0, <1>2, <1>8, <1>9, OwnFacts
<1>11. PICK C : C = [k \in DOMAIN xs |-> Put("wo", n[k], NewWorkOrder(r.id, xs[k]))]
  OBVIOUS
<1>12. PICK A : A = AddLocals(d.proc, db["proc"][d.proc].local, Net[d.elem].starts)
  OBVIOUS
<1>13. ASSUME NEW k \in DOMAIN xs
       PROVE  C[k].t = "wo" /\ C[k].id = n[k] /\ C[k].v.wi = r.id /\ C[k].v.sub = 0
  <2>1. PICK u : u = NewWorkOrder(r.id, xs[k])
    OBVIOUS
  <2>2. u.wi = r.id /\ u.sub = 0 /\ C[k] = Put("wo", n[k], u)
    BY <2>1, <1>11 DEF NewWorkOrder
  <2> QED
    BY <2>2, PutFacts
<1>14. PICK m \in Nat :
         /\ DOMAIN T = 1 .. (m + 2 + Len(xs)) /\ T[1] = a /\ T[m + 2] = b
         /\ \A k \in 2 .. (m + 1) : T[k].t = "proc" /\ Grown(db["proc"][T[k].id], T[k].v)
         /\ \A k \in (m + 3) .. (m + 2 + Len(xs)) :
              k - (m + 2) \in DOMAIN xs /\ T[k] = C[k - (m + 2)]
  <2>1. A \in Seq(Write) /\ \A k \in DOMAIN A : A[k].t = "proc" /\ Grown(db["proc"][A[k].id], A[k].v)
    <3>1. Net[d.elem].starts \in SUBSET Vars /\ IsFiniteSet(Net[d.elem].starts)
      BY <1>2, DocflowAssumption
    <3>2. \A k \in DOMAIN A : A[k].t = "proc" /\ A[k].id = d.proc /\ Grown(db["proc"][d.proc], A[k].v)
      BY <3>1, <1>2, <1>12, AddFacts
    <3>3. A \in Seq(Write)
      BY <3>1, <1>2, <1>12, AddFacts
    <3> QED
      BY <3>2, <3>3
  <2>2. PICK Y : /\ A \in Seq(Y) /\ <<a>> \in Seq(Y) /\ <<b>> \in Seq(Y)
                 /\ C \in Seq(Y) /\ Len(C) = Len(xs)
    <3>1. PICK Y : Y = (Write \cup {a, b}) \cup {C[k] : k \in DOMAIN C}
      OBVIOUS
    <3>2. C \in Seq(Y) /\ Len(C) = Len(xs)
      <4>1. C \in [1 .. Len(xs) -> Y]
        BY <3>1, <1>6, <1>11
      <4> QED
        BY <4>1, <1>6, MapFacts
    <3>3. A \in Seq(Y) /\ <<a>> \in Seq(Y) /\ <<b>> \in Seq(Y)
      BY <3>1, <2>1
    <3> QED
      BY <3>2, <3>3
  <2>3. PICK a1, b1 : a1 = <<a>> /\ b1 = <<b>>
    OBVIOUS
  <2>4. /\ a1 \in Seq(Y) /\ b1 \in Seq(Y) /\ Len(a1) = 1 /\ Len(b1) = 1
        /\ a1[1] = a /\ b1[1] = b
    BY <2>2, <2>3
  <2>5. PICK V : V = A \o b1
    OBVIOUS
  <2>6. U = V \o C /\ T = a1 \o U
    BY <2>3, <2>5, <1>3, <1>5, <1>7, <1>9, <1>11, <1>12 DEF StartTask
  <2>7. PICK m : m = Len(A)
    OBVIOUS
  <2>8. /\ V \in Seq(Y) /\ Len(V) = m + 1 /\ m \in Nat /\ DOMAIN A = 1 .. m
        /\ \A k \in 1 .. m : V[k] = A[k]
        /\ V[m + 1] = b
    <3>0. A \in Seq(Y) /\ b1 \in Seq(Y)
      BY <2>2, <2>4
    <3>1. /\ V \in Seq(Y) /\ Len(V) = Len(A) + Len(b1) /\ Len(A) \in Nat /\ DOMAIN A = 1 .. Len(A)
          /\ \A k \in 1 .. Len(A) : V[k] = A[k]
          /\ \A k \in (Len(A) + 1) .. (Len(A) + Len(b1)) : V[k] = b1[k - Len(A)]
      BY <3>0, <2>5, ConcatFacts
    <3>2. m + 1 \in (Len(A) + 1) .. (Len(A) + Len(b1)) /\ (m + 1) - Len(A) = 1
      BY <3>1, <2>4, <2>7
    <3>3. V[m + 1] = b1[(m + 1) - Len(A)]
      BY <3>1, <3>2
    <3> QED
      BY <3>1, <3>2, <3>3, <2>4, <2>7
  <2>9. /\ U \in Seq(Y) /\ Len(U) = m + 1 + Len(xs)
        /\ \A k \in 1 .. (m + 1) : U[k] = V[k]
        /\ \A k \in (m + 2) .. (m + 1 + Len(xs)) : U[k] = C[k - (m + 1)]
    <3>0. V \in Seq(Y) /\ C \in Seq(Y) /\ U = V \o C
      BY <2>2, <2>6, <2>8
    <3>1. /\ U \in Seq(Y) /\ Len(U) = Len(V) + Len(C)
          /\ \A k \in 1 .. Len(V) : U[k] = V[k]
          /\ \A k \in (Len(V) + 1) .. (Len(V) + Len(C)) : U[k] = C[k - Len(V)]
      BY <3>0, ConcatFacts
    <3>2. (m + 1) + 1 = m + 2
      BY <2>8
    <3> QED
      BY <3>1, <3>2, <2>2, <2>8
  <2>10. /\ DOMAIN T = 1 .. (m + 2 + Len(xs)) /\ T[1] = a
         /\ \A k \in 2 .. (m + 2 + Len(xs)) : T[k] = U[k - 1]
    <3>1. /\ DOMAIN T = 1 .. (Len(a1) + Len(U))
          /\ \A k \in 1 .. Len(a1) : T[k] = a1[k]
          /\ \A k \in (Len(a1) + 1) .. (Len(a1) + Len(U)) : T[k] = U[k - Len(a1)]
      BY <2>4, <2>6, <2>9, ConcatFacts
    <3>2. Len(a1) + Len(U) = m + 2 + Len(xs) /\ Len(a1) + 1 = 2 /\ Len(a1) = 1
      BY <2>4, <2>8, <2>9, <1>6
    <3> QED
      BY <3>1, <3>2, <2>4
  <2>11. T[m + 2] = b
    <3>1. m + 2 \in 2 .. (m + 2 + Len(xs)) /\ (m + 2) - 1 = m + 1 /\ m + 1 \in 1 .. (m + 1)
      BY <2>8, <1>6
    <3> QED
      BY <3>1, <2>8, <2>9, <2>10
  <2>12. ASSUME NEW k \in 2 .. (m + 1)
         PROVE  T[k].t = "proc" /\ Grown(db["proc"][T[k].id], T[k].v)
    <3>1. k - 1 \in 1 .. m /\ k - 1 \in 1 .. (m + 1) /\ k \in 2 .. (m + 2 + Len(xs))
      BY <2>8, <1>6
    <3>2. T[k] = A[k - 1]
      BY <3>1, <2>8, <2>9, <2>10
    <3> QED
      BY <3>1, <3>2, <2>1, <2>8
  <2>13. ASSUME NEW k \in (m + 3) .. (m + 2 + Len(xs))
         PROVE  k - (m + 2) \in DOMAIN xs /\ T[k] = C[k - (m + 2)]
    <3>1. /\ k - 1 \in (m + 2) .. (m + 1 + Len(xs)) /\ k \in 2 .. (m + 2 + Len(xs))
          /\ k - (m + 2) \in 1 .. Len(xs) /\ (k - 1) - (m + 1) = k - (m + 2)
      BY <2>8, <1>6
    <3>2. T[k] = U[k - 1] /\ U[k - 1] = C[(k - 1) - (m + 1)]
      BY <3>1, <2>9, <2>10
    <3> QED
      BY <3>1, <3>2, <1>6
  <2> QED
    BY <2>8, <2>10, <2>11, <2>12, <2>13
<1>15. PICK e : e = m + 2
  OBVIOUS
<1>16. /\ DOMAIN T = 1 .. (e + Len(xs)) /\ 1 \in DOMAIN T /\ e \in DOMAIN T /\ e \in Nat /\ 1 < e
       /\ T[1] = a /\ T[e] = b
  BY <1>14, <1>15, <1>6
<1>27. ASSUME NEW k \in DOMAIN T
      PROVE  \/ k = 1 \/ k = e
             \/ k < e /\ T[k].t = "proc" /\ Grown(db["proc"][T[k].id], T[k].v)
             \/ \E i \in DOMAIN xs : k = e + i /\ e < k /\ T[k] = C[i]
  <2>1. CASE k < e /\ k # 1
    <3>1. k \in 2 .. (m + 1)
      BY <2>1, <1>16, <1>27, <1>14, <1>15
    <3> QED
      BY <3>1, <2>1, <1>14
  <2>2. CASE e < k
    <3>1. k \in (m + 3) .. (m + 2 + Len(xs))
      BY <2>2, <1>16, <1>27, <1>14, <1>15, <1>6
    <3>2. k - (m + 2) \in DOMAIN xs /\ T[k] = C[k - (m + 2)]
      BY <3>1, <1>14
    <3>3. k = e + (k - (m + 2))
      BY <1>16, <1>14, <1>15
    <3> QED
      BY <3>2, <3>3, <2>2
  <2> QED
    BY <2>1, <2>2, <1>16, <1>27
<1>28. ASSUME NEW i \in DOMAIN xs
      PROVE  e + i \in DOMAIN T /\ T[e + i] = C[i] /\ e < e + i
  <2>1. e + i \in (m + 3) .. (m + 2 + Len(xs)) /\ (e + i) - (m + 2) = i /\ e < e + i
    BY <1>6, <1>14, <1>15
  <2>2. T[e + i] = C[(e + i) - (m + 2)]
    BY <2>1, <1>14
  <2>3. e + i \in DOMAIN T
    BY <1>16, <1>6
  <2> QED
    BY <2>1, <2>2, <2>3
<1>17. a.t = "wi" /\ b.t = "wi" /\ a.id = r.id /\ b.id = r.id /\ a.v = d /\ b.v = v
  BY <1>9, PutFacts
<1>18. \A k \in DOMAIN T : T[k].t = "wi" => k = 1 \/ k = e
  BY <1>13, <1>16, <1>27, <1>28
<1>25. ASSUME NEW k \in DOMAIN T
       PROVE  T[k].t \in {"wi", "wo", "proc"}
  <2>1. \/ k = 1 \/ k = e \/ T[k].t = "proc" \/ \E i \in DOMAIN xs : T[k] = C[i]
    BY <1>27
  <2> QED
    BY <2>1, <1>13, <1>16, <1>17
<1>26. ASSUME NEW k \in DOMAIN T, T[k].t = "proc"
       PROVE  Grown(db["proc"][T[k].id], T[k].v)
  <2>1. \/ k = 1 \/ k = e \/ Grown(db["proc"][T[k].id], T[k].v) \/ \E i \in DOMAIN xs : T[k] = C[i]
    BY <1>27
  <2> QED
    BY <2>1, <1>13, <1>16, <1>17, <1>26
<1>24. ASSUME NEW k \in DOMAIN T, T[k].t = "wo"
       PROVE  \E i \in DOMAIN xs : k = e + i /\ T[k] = C[i] /\ k \in Nat /\ e < k
  <2>1. \E i \in DOMAIN xs : k = e + i /\ T[k] = C[i] /\ e < k
    BY <1>16, <1>27, <1>28, <1>17, <1>24
  <2>2. k \in Nat
    BY <1>16, <1>27, <1>28, <1>6
  <2> QED
    BY <2>1, <2>2
<1>19. ASSUME NEW k \in DOMAIN T, T[k].t = "wi"
       PROVE  ItemCarried(db, Q, T, k) /\ OwnWrite(db, r, T[k])
  <2>1. OwnWrite(db, r, T[k])
    BY <1>10, <1>16, <1>27, <1>28, <1>18, <1>19
  <2>2. \A j \in DOMAIN T : j < k => T[j].t # "wo"
    <3>1. k = 1 \/ k = e
      BY <1>18, <1>19
    <3> QED
      BY <3>1, <1>16, <1>27, <1>28, <1>24
  <2>3. ASSUME NEW o \in ToSet(T[k].v.wol)
        PROVE  Comes(db, T, k, o)
    <3>1. CASE k = 1
      BY <3>1, <2>3, <1>0, <1>2, <1>16, <1>27, <1>28, <1>17
    <3>2. CASE k = e
      <4>1. PICK i \in DOMAIN xs : o = n[i]
        <5>1. o \in ToSet(n)
          BY <3>2, <2>3, <1>8, <1>16, <1>17
        <5> QED
          BY <5>1, <1>6 DEF ToSet
      <4>2. e + i \in DOMAIN T /\ k < e + i /\ T[e + i].t = "wo" /\ T[e + i].id = o
        BY <4>1, <3>2, <1>13, <1>16, <1>27, <1>28
      <4> QED
        BY <4>2 DEF Comes
    <3> QED
      BY <3>1, <3>2, <1>18, <1>19
  <2> QED
    BY <2>1, <2>2, <2>3, <1>1, OwnCarried
<1>20. ASSUME NEW k \in DOMAIN T, T[k].t = "wo"
       PROVE  OrderCarried(db, Q, T, k)
  <2>1. PICK i \in DOMAIN xs : k = e + i /\ T[k] = C[i] /\ k \in Nat /\ e < k
    BY <1>20, <1>24
  <2>2. T[k].id = n[i] /\ T[k].v.wi = r.id /\ T[k].v.sub = 0
    BY <2>1, <1>13
  <2>3. DOMAIN db["wo"] = 1 .. Len(db["wo"]) /\ Len(db["wo"]) \in Nat
    BY DbFacts DEF Types
  <2>4. n[i] \notin DOMAIN db["wo"]
    BY <2>3, <1>6
  <2>5. ASSUME NEW j \in DOMAIN T, T[j].t = "wo", T[j].id = T[k].id
        PROVE  T[j].v = T[k].v
    <3>1. PICK h \in DOMAIN xs : T[j] = C[h]
      BY <2>5, <1>24
    <3>2. n[h] = n[i]
      BY <3>1, <2>2, <2>5, <1>13
    <3>3. h = i
      BY <3>2, <2>3, <1>6
    <3> QED
      BY <3>1, <3>3, <2>1
  <2>6. T[k].id \in ToSet(T[e].v.wol)
    <3>1. n[i] \in ToSet(n)
      BY <1>6 DEF ToSet
    <3> QED
      BY <3>1, <2>2, <1>8, <1>16, <1>27, <1>28, <1>17
  <2>7. e < k /\ e \in DOMAIN T /\ T[e].t = "wi" /\ T[e].id = T[k].v.wi
    BY <2>1, <2>2, <1>16, <1>27, <1>28, <1>17
  <2>8. \A j \in DOMAIN T : T[j].t = "wi" => j <= e
    <3>1. 1 <= e /\ e <= e
      BY <1>16, <1>27, <1>28
    <3> QED
      BY <3>1, <1>18
  <2>9. Sub(db, T[k].v.sub)
    BY <2>2 DEF Sub
  <2> QED
    BY <2>2, <2>4, <2>5, <2>6, <2>7, <2>8, <2>9, <1>1 DEF OrderCarried
<1>21. CarriedOK(db, Q, T) /\ Running(db, T)
  BY <1>25, <1>19, <1>20 DEF CarriedOK, Running
<1>22. NewLists(db, T)
  BY <1>19 DEF NewLists, OwnWrite
<1>23. Grows(db, T)
  BY <1>26 DEF Grows
<1> QED
  BY <1>21, <1>22, <1>23

\* What a condition and the output condition write.
EndedOrder(D, x) ==
  x.t = "wo" /\ x.id \in DOMAIN D["wo"] /\ x.v = [D["wo"][x.id] EXCEPT !.out = 1]
HandItem(D, r, x) ==
  \/ OwnWrite(D, r, x) /\ x.v.wol = <<>>
  \/ MadeItem(D, x, r.v.proc, r.id) \/ EndedOrder(D, x) \/ x.t \in {"form", "proc"}

\* Where a script of a work item sends nothing but such writes, no list is lost.
LEMMA HandCarried ==
  ASSUME DbOK(db), TreeOK(db, <<>>), Subs(db), NEW Q, NEW r, InHand(db, Q, r),
         NEW T, \A k \in DOMAIN T : HandItem(db, r, T[k])
  PROVE  CarriedOK(db, Q, T) /\ NewLists(db, T) /\ Running(db, T)
<1>1. /\ r.t = "wi" /\ r.id \in DOMAIN db["wi"] /\ r.v \in WorkItem /\ r.id \in Ids
      /\ ~r.v.done /\ Q[1] = r /\ Visit(r) /\ NoOrder(db, r.id) /\ r.v.wil = <<>>
      /\ r.v.proc = db["wi"][r.id].proc
  BY OwnFacts, RecordFacts DEF InHand, Same
<1>2. ToSet(<<>>) = {}
  BY DEF ToSet
<1>3. ASSUME NEW k \in DOMAIN T, EndedOrder(db, T[k])
      PROVE  /\ T[k].t = "wo" /\ T[k].id \in DOMAIN db["wo"] /\ T[k].v.wi # r.id
             /\ T[k].v.dfl = db["wo"][T[k].id].dfl /\ Sub(db, T[k].v.sub)
  <2>1. PICK u : u = db["wo"][T[k].id]
    OBVIOUS
  <2>2. u \in WorkOrder /\ u.wi # r.id /\ Sub(db, u.sub)
    BY <2>1, <1>1, <1>3, DbFacts DEF EndedOrder, NoOrder, Subs
  <2>3. T[k].v = [u EXCEPT !.out = 1]
    BY <2>1, <1>3 DEF EndedOrder
  <2>4. T[k].v.wi = u.wi /\ T[k].v.dfl = u.dfl /\ T[k].v.sub = u.sub
    BY <2>2, <2>3 DEF WorkOrder
  <2> QED
    BY <2>1, <2>2, <2>4, <1>3 DEF EndedOrder
<1>4. \A k \in DOMAIN T : /\ T[k].t = "wo" => EndedOrder(db, T[k])
                          /\ T[k].t = "wi" => \/ OwnWrite(db, r, T[k]) /\ T[k].v.wol = <<>>
                                              \/ MadeItem(db, T[k], r.v.proc, r.id)
                          /\ T[k].t # "df"
  BY DEF HandItem, OwnWrite, MadeItem, EndedOrder
<1>6. ASSUME NEW k \in DOMAIN T, T[k].t = "wo"
      PROVE  OrderCarried(db, Q, T, k)
  <2>1. \A j \in DOMAIN T : T[j].t = "wo" /\ T[j].id = T[k].id => T[j].v = T[k].v
    BY <1>4, <1>6 DEF EndedOrder
  <2> QED
    BY <2>1, <1>3, <1>4, <1>6 DEF OrderCarried
<1>7. ASSUME NEW k \in DOMAIN T, T[k].t = "wi"
      PROVE  ItemCarried(db, Q, T, k)
  <2>1. CASE OwnWrite(db, r, T[k]) /\ T[k].v.wol = <<>>
    <3>1. \A j \in DOMAIN T : j < k /\ T[j].t = "wo" => T[j].v.wi # r.id
      BY <1>3, <1>4
    <3> QED
      BY <3>1, <2>1, <1>1, <1>2, OwnCarried
  <2>2. CASE MadeItem(db, T[k], r.v.proc, r.id)
    <3>1. r.id # 0 /\ r.id < T[k].id /\ T[k].v.prev = r.id /\ T[k].v.proc = db["wi"][r.id].proc
          /\ T[k].id \notin DOMAIN db["wi"] /\ T[k].v.wil = <<>> /\ T[k].v.wol = <<>>
      <4>1. T[k].id > r.id /\ r.id # 0
        BY <2>2, <1>1 DEF MadeItem, Ids
      <4> QED
        BY <4>1, <2>2, <1>1 DEF MadeItem
    <3> QED
      BY <3>1, <1>1, <1>2 DEF ItemCarried, After
  <2> QED
    BY <2>1, <2>2, <1>4, <1>7
<1>8. CarriedOK(db, Q, T) /\ Running(db, T)
  BY <1>4, <1>6, <1>7 DEF CarriedOK, Running
<1>9. NewLists(db, T)
  BY <1>4 DEF NewLists, OwnWrite, MadeItem
<1> QED
  BY <1>8, <1>9

HandItems(D, r, U) ==
  \E n \in Nat : U = [k \in 1 .. n |-> U[k]] /\ \A k \in 1 .. n : HandItem(D, r, U[k]) /\ U[k].t = "wi"

\* A condition writes the work items that follow it, and its list.
LEMMA ConditionShape ==
  ASSUME DbOK(db), NEW Q, NEW r, InHand(db, Q, r), NEW d \in WorkItem, Marked(r, d),
         NEW U, U = PassCondition(r.id, d)
  PROVE  U = <<>> \/ HandItems(db, r, U)
<1>1. /\ r.id \in DOMAIN db["wi"] /\ d.elem \in DOMAIN Net /\ d.prev = r.v.prev
      /\ d.proc = r.v.proc /\ d.wol = <<>>
  BY OwnFacts DEF Marked, WorkItem
<1>2. PICK es : es = [k \in DOMAIN Net[d.elem].flows |-> Net[d.elem].flows[k].into]
  OBVIOUS
<1>3. PICK X : es \in Seq(X)
  <2>1. PICK fl : fl = Net[d.elem].flows
    OBVIOUS
  <2>2. fl \in Seq(Flow)
    BY <1>1, <2>1, DocflowAssumption
  <2>3. DOMAIN fl = 1 .. Len(fl) /\ Len(fl) \in Nat
    BY <2>2
  <2>4. es \in [1 .. Len(fl) -> {fl[k].into : k \in DOMAIN fl}]
    BY <1>2, <2>1, <2>3
  <2> QED
    BY <2>3, <2>4, MapFacts
<1>4. CASE es = <<>>
  BY <1>2, <1>4 DEF PassCondition
<1>5. CASE es # <<>>
  <2>1. PICK C : C = create_work_items(d.proc, es, r.id)
    OBVIOUS
  <2>2. /\ \A k \in DOMAIN C : MadeItem(db, C[k], d.proc, r.id)
        /\ \A x \in ToSet(News("wi", es)) : x \notin DOMAIN db["wi"]
        /\ DOMAIN C = 1 .. Len(es) /\ Len(es) \in Nat /\ C = [k \in 1 .. Len(es) |-> C[k]]
    BY <2>1, <1>1, <1>3, MadeItems
  <2>3. PICK n : n = News("wi", es)
    OBVIOUS
  <2>4. n \in Seq(Ids)
    BY <2>3, <1>3, NewsFacts DEF Types
  <2>5. PICK v : v = [d EXCEPT !.wil = n, !.done = TRUE, !.exec = FALSE]
    OBVIOUS
  <2>6. /\ v \in WorkItem /\ v.prev = r.v.prev /\ v.proc = r.v.proc /\ v.done = TRUE /\ v.wil = n
        /\ v.wol = <<>>
    BY <2>4, <2>5, <1>1 DEF WorkItem
  <2>7. PICK b : b = Put("wi", r.id, v)
    OBVIOUS
  <2>8. OwnWrite(db, r, b) /\ b.v.wol = <<>>
    BY <2>2, <2>3, <2>6, <2>7, OwnFacts, PutFacts
  <2>9. U = Append(C, b)
    BY <1>2, <1>5, <2>1, <2>3, <2>5, <2>7 DEF PassCondition
  <2>10. PICK Y : Y = {C[k] : k \in DOMAIN C} \cup {b}
    OBVIOUS
  <2>11. C \in Seq(Y) /\ b \in Y
    <3>1. C \in [1 .. Len(es) -> Y]
      BY <2>2, <2>10
    <3> QED
      BY <3>1, <2>2, <2>10, MapFacts
  <2>12. /\ U \in Seq(Y) /\ DOMAIN C = 1 .. Len(C) /\ DOMAIN U = 1 .. (Len(C) + 1) /\ Len(C) \in Nat
         /\ \A k \in DOMAIN C : U[k] = C[k]
         /\ U[Len(C) + 1] = b
    BY <2>9, <2>11, AppendFacts
  <2>13. \A k \in DOMAIN U : k \in DOMAIN C \/ k = Len(C) + 1
    BY <2>12
  <2>14. \A k \in DOMAIN U : HandItem(db, r, U[k]) /\ U[k].t = "wi"
    BY <2>2, <2>8, <2>12, <2>13, <1>1 DEF HandItem, MadeItem, OwnWrite
  <2>15. Len(C) + 1 \in Nat /\ U = [k \in 1 .. (Len(C) + 1) |-> U[k]]
    BY <2>12
  <2> QED
    BY <2>12, <2>14, <2>15 DEF HandItems
<1> QED
  BY <1>4, <1>5

\* Lists of such writes.
HandList(D, r, U) == \E Y : U \in Seq(Y) /\ \A y \in Y : HandItem(D, r, y)

\* None, or one of them.
LEMMA HandShort ==
  ASSUME NEW D, NEW r
  PROVE  HandList(D, r, <<>>) /\ \A x : HandItem(D, r, x) => HandList(D, r, <<x>>)
<1>1. HandList(D, r, <<>>)
  <2>1. PICK Y : Y = {}
    OBVIOUS
  <2>2. <<>> \in Seq(Y)
    OBVIOUS
  <2> QED
    BY <2>1, <2>2 DEF HandList
<1>2. ASSUME NEW x, HandItem(D, r, x)
      PROVE  HandList(D, r, <<x>>)
  <2>1. PICK Y : Y = {x}
    OBVIOUS
  <2>2. <<x>> \in Seq(Y) /\ \A y \in Y : y = x
    BY <2>1
  <2>3. \A y \in Y : HandItem(D, r, y)
    BY <2>2, <1>2
  <2> QED
    BY <2>2, <2>3 DEF HandList
<1> QED
  BY <1>1, <1>2

\* Two such lists.
LEMMA HandConcat ==
  ASSUME NEW D, NEW r, NEW S, NEW U, HandList(D, r, S), HandList(D, r, U)
  PROVE  /\ HandList(D, r, S \o U)
         /\ Even(D, S) /\ Even(D, U) => Even(D, S \o U)
         /\ Even(D, S) /\ Grows(D, U) => Grows(D, S \o U)
<1>1. PICK X : S \in Seq(X) /\ \A y \in X : HandItem(D, r, y)
  BY DEF HandList
<1>2. PICK Y : U \in Seq(Y) /\ \A y \in Y : HandItem(D, r, y)
  BY DEF HandList
<1>3. PICK Z : Z = X \cup Y
  OBVIOUS
<1>4. S \in [1 .. Len(S) -> Z] /\ U \in [1 .. Len(U) -> Z] /\ Len(S) \in Nat /\ Len(U) \in Nat
  BY <1>1, <1>2, <1>3
<1>5. S \in Seq(Z) /\ U \in Seq(Z)
  BY <1>4, MapFacts
<1>6. S \o U \in Seq(Z)
  BY <1>5
<1>7. \A z \in Z : HandItem(D, r, z)
  BY <1>1, <1>2, <1>3
<1>8. HandList(D, r, S \o U)
  BY <1>6, <1>7 DEF HandList
<1> QED
  BY <1>5, <1>8, EvenConcat

\* The elements of such a list.
LEMMA HandElements ==
  ASSUME NEW D, NEW r, NEW U, HandList(D, r, U)
  PROVE  \A k \in DOMAIN U : HandItem(D, r, U[k])
<1>1. PICK Y : U \in Seq(Y) /\ \A y \in Y : HandItem(D, r, y)
  BY DEF HandList
<1>2. \A k \in DOMAIN U : U[k] \in Y
  BY <1>1
<1> QED
  BY <1>1, <1>2

\* The output condition ends the process.
LEMMA OutputShape ==
  ASSUME DbOK(db), NEW Q, NEW r, InHand(db, Q, r), NEW d \in WorkItem, Marked(r, d),
         NEW U, U = ReachOutput(r.id, d)
  PROVE  HandList(db, r, U) /\ Grows(db, U)
<1>1. /\ d.prev = r.v.prev /\ d.proc = r.v.proc /\ d.wil = <<>> /\ d.wol = <<>>
      /\ d.elem \in DOMAIN Net /\ d.proc \in DOMAIN db["proc"]
  BY OwnFacts DEF Marked, WorkItem
<1>2. PICK p : p = db["proc"][d.proc]
  OBVIOUS
<1>3. Above(db, p.parent)
  BY <1>1, <1>2, DbFacts
<1>4. ASSUME NEW vs, NEW C, C = CompleteProcess(r.id, d, vs)
      PROVE  HandList(db, r, C) /\ Grows(db, C)
  <2>1. PICK B : B = change_process_status(d.proc, "Completed")
    OBVIOUS
  <2>2. CASE B # <<>>
    <3>1. PICK z : z = Put("form", 1, [status |-> "Completed", procs |-> <<>>])
      OBVIOUS
    <3>2. B = <<z>>
      BY <2>1, <2>2, <3>1 DEF change_process_status
    <3>3. HandItem(db, r, z) /\ z.t = "form"
      BY <3>1, PutFacts DEF HandItem
    <3>4. C = <<z>>
      BY <3>2, <2>1, <2>2, <1>4 DEF CompleteProcess
    <3>5. DOMAIN C = {1} /\ C[1] = z
      BY <3>4
    <3>6. \A k \in DOMAIN C : C[k].t # "proc"
      BY <3>3, <3>5
    <3> QED
      BY <3>3, <3>4, <3>6, HandShort, GrowsShort
  <2>3. CASE B = <<>>
    <3>1. PICK v : v = [p EXCEPT !.completed = "true", !.local = @ \cup vs]
      OBVIOUS
    <3>2. PICK u : u = [d EXCEPT !.done = TRUE]
      OBVIOUS
    <3>3. PICK x, y : x = Put("proc", d.proc, v) /\ y = Put("wi", r.id, u)
      OBVIOUS
    <3>4. C = <<x, y>>
      BY <2>1, <2>3, <3>1, <3>2, <3>3, <1>2, <1>4 DEF CompleteProcess
    <3>5. x.t = "proc" /\ y.t = "wi" /\ y.v = u
      BY <3>3, PutFacts
    <3>6. /\ u \in WorkItem /\ u.prev = r.v.prev /\ u.proc = r.v.proc /\ u.done = TRUE
          /\ u.wil = <<>> /\ u.wol = <<>>
      BY <3>2, <1>1 DEF WorkItem
    <3>7. OwnWrite(db, r, y)
      <4>1. ToSet(<<>>) = {}
        BY DEF ToSet
      <4> QED
        BY <4>1, <3>3, <3>6, OwnFacts
    <3>8. HandItem(db, r, x) /\ HandItem(db, r, y)
      BY <3>5, <3>6, <3>7 DEF HandItem
    <3>9. HandList(db, r, C)
      <4>1. PICK Y : Y = {x, y}
        OBVIOUS
      <4>2. C \in Seq(Y)
        BY <4>1, <3>4
      <4>3. \A z \in Y : HandItem(db, r, z)
        BY <4>1, <3>8
      <4> QED
        BY <4>2, <4>3 DEF HandList
    <3>10. DOMAIN C = {1, 2} /\ C[2] = y
      BY <3>4
    <3>11. \A k \in DOMAIN C : C[k].t = "proc" => k = 1
      BY <3>5, <3>10
    <3>12. \A j, k \in DOMAIN C : C[j].t = "proc" /\ C[k].t = "proc" => ~(j < k)
      BY <3>11
    <3> QED
      BY <3>9, <3>12, GrowsShort
  <2> QED
    BY <2>2, <2>3
<1>5. CASE p.parent = 0
  <2>1. U = CompleteProcess(r.id, d, {})
    BY <1>2, <1>5 DEF ReachOutput
  <2> QED
    BY <2>1, <1>4
<1>6. CASE p.parent # 0
  <2>1. PICK A : A = AddLocals(d.proc, p.local, Net[d.elem].ends)
    OBVIOUS
  <2>2. PICK z : z = Put("wo", p.parent, [db["wo"][p.parent] EXCEPT !.out = 1])
    OBVIOUS
  <2>3. PICK C : C = CompleteProcess(r.id, d, Net[d.elem].ends)
    OBVIOUS
  <2>4. PICK S : S = A \o <<z>>
    OBVIOUS
  <2>5. U = S \o C
    BY <2>1, <2>2, <2>3, <2>4, <1>2, <1>6 DEF ReachOutput
  <2>6. HandList(db, r, A) /\ Even(db, A)
    <3>1. Net[d.elem].ends \in SUBSET Vars /\ IsFiniteSet(Net[d.elem].ends)
      BY <1>1, DocflowAssumption
    <3>2. \A k \in DOMAIN A : A[k].t = "proc" /\ A[k].id = d.proc /\ Grown(db["proc"][d.proc], A[k].v)
      BY <3>1, <2>1, <1>1, AddFacts
    <3>3. A \in Seq(Write)
      BY <3>1, <2>1, <1>1, AddFacts
    <3>4. PICK Y : Y = {A[k] : k \in DOMAIN A}
      OBVIOUS
    <3>5. A \in [1 .. Len(A) -> Y] /\ Len(A) \in Nat
      BY <3>3, <3>4
    <3>6. A \in Seq(Y)
      BY <3>5, MapFacts
    <3>7. \A y \in Y : HandItem(db, r, y)
      BY <3>2, <3>4 DEF HandItem
    <3>8. HandList(db, r, A)
      BY <3>6, <3>7 DEF HandList
    <3>9. Even(db, A)
      BY <3>2 DEF Even
    <3> QED
      BY <3>8, <3>9
  <2>7. HandList(db, r, <<z>>) /\ Even(db, <<z>>)
    <3>1. EndedOrder(db, z) /\ z.t = "wo"
      BY <2>2, <1>3, <1>6, PutFacts DEF EndedOrder, Above
    <3>2. HandItem(db, r, z)
      BY <3>1 DEF HandItem
    <3>3. PICK Z : Z = <<z>>
      OBVIOUS
    <3>4. \A k \in DOMAIN Z : Z[k].t # "proc"
      BY <3>1, <3>3
    <3>5. Even(db, Z)
      BY <3>4, GrowsShort
    <3> QED
      BY <3>2, <3>3, <3>5, HandShort
  <2>8. HandList(db, r, S) /\ Even(db, S)
    BY <2>4, <2>6, <2>7, HandConcat
  <2> QED
    BY <2>3, <2>5, <2>8, <1>4, HandConcat
<1> QED
  BY <1>5, <1>6

\* prepare_work_item().
LEMMA CarriedItem ==
  ASSUME DbOK(db), TreeOK(db, <<>>), Subs(db), NEW Q, NEW r, InHand(db, Q, r),
         NEW T, T = prepare_work_item(r.id, r.v)
  PROVE  CarriedOK(db, Q, T) /\ NewLists(db, T) /\ Running(db, T) /\ Grows(db, T)
<1>1. /\ r.v \in WorkItem /\ r.v.wil = <<>> /\ r.v.wol = <<>> /\ ~r.v.done /\ r.v.prev = db["wi"][r.id].prev
  BY OwnFacts DEF InHand
<1>2. PICK c : c = r.v
  OBVIOUS
<1>3. PICK x : x = [c EXCEPT !.exec = TRUE]
  OBVIOUS
<1>4. /\ x \in WorkItem /\ Marked(r, x) /\ x.elem \in DOMAIN Net /\ x.elem = c.elem
  BY <1>1, <1>2, <1>3 DEF WorkItem, Marked
<1>5. PICK a : a = Put("wi", r.id, x)
  OBVIOUS
<1>6. CASE c.done \/ (Net[c.elem].join /\ ~Joined(c.proc, c.elem))
  <2>1. T = <<>>
    BY <1>2, <1>6 DEF prepare_work_item
  <2>2. DOMAIN T = {}
    BY <2>1
  <2> QED
    BY <2>2 DEF CarriedOK, NewLists, Running, Grows
<1>7. CASE ~(c.done \/ (Net[c.elem].join /\ ~Joined(c.proc, c.elem)))
  <2>1. Net[c.elem].kind \in {"input", "condition", "task", "output"}
    BY <1>4, DocflowAssumption DEF Kinds
  <2>2. PICK U : U = CASE Net[c.elem].kind = "task" -> StartTask(r.id, x)
                       [] Net[c.elem].kind \in {"input", "condition"} -> PassCondition(r.id, x)
                       [] Net[c.elem].kind = "output" -> ReachOutput(r.id, x)
    OBVIOUS
  <2>3. T = <<a>> \o U
    BY <1>2, <1>3, <1>5, <1>7, <2>2 DEF prepare_work_item
  <2>4. CASE Net[c.elem].kind = "task"
    <3>1. U = StartTask(r.id, x)
      BY <2>2, <2>4
    <3> QED
      BY <3>1, <2>3, <1>4, <1>5, CarriedTask
  <2>5. CASE Net[c.elem].kind # "task"
    <3>1. HandList(db, r, U) /\ Grows(db, U)
      <4>1. CASE Net[c.elem].kind \in {"input", "condition"}
        <5>1. U = PassCondition(r.id, x)
          BY <2>2, <4>1
        <5>2. CASE U = <<>>
          <6>1. \A k \in DOMAIN U : U[k].t # "proc"
            BY <5>2
          <6> QED
            BY <6>1, <5>2, HandShort, GrowsShort
        <5>3. CASE U # <<>>
          <6>0. HandItems(db, r, U)
            BY <5>1, <5>3, <1>4, ConditionShape
          <6>1. PICK n \in Nat : /\ U = [k \in 1 .. n |-> U[k]]
                                 /\ \A k \in 1 .. n : HandItem(db, r, U[k]) /\ U[k].t = "wi"
            BY <6>0 DEF HandItems
          <6>2. PICK Y : Y = {U[k] : k \in 1 .. n}
            OBVIOUS
          <6>3. U \in [1 .. n -> Y] /\ \A y \in Y : HandItem(db, r, y)
            BY <6>1, <6>2
          <6>4. U \in Seq(Y)
            BY <6>3, MapFacts
          <6>5. HandList(db, r, U)
            BY <6>3, <6>4 DEF HandList
          <6>6. \A k \in DOMAIN U : U[k].t # "proc"
            BY <6>1
          <6> QED
            BY <6>5, <6>6, GrowsShort
        <5> QED
          BY <5>2, <5>3
      <4>2. CASE Net[c.elem].kind = "output"
        <5>1. U = ReachOutput(r.id, x)
          BY <2>2, <4>2
        <5> QED
          BY <5>1, <1>4, OutputShape
      <4> QED
        BY <4>1, <4>2, <2>1, <2>5
    <3>2. HandItem(db, r, a) /\ a.t = "wi"
      <4>1. ToSet(<<>>) = {}
        BY DEF ToSet
      <4>2. x.prev = r.v.prev /\ x.proc = r.v.proc /\ x.wil = <<>> /\ x.wol = <<>>
        BY <1>4 DEF Marked
      <4>3. OwnWrite(db, r, a)
        BY <4>1, <4>2, <1>4, <1>5, OwnFacts
      <4>4. a.t = "wi" /\ a.v = x
        BY <1>5, PutFacts
      <4> QED
        BY <4>2, <4>3, <4>4 DEF HandItem
    <3>3. HandList(db, r, T) /\ Grows(db, T)
      <4>1. PICK Z : Z = <<a>>
        OBVIOUS
      <4>2. \A k \in DOMAIN Z : Z[k].t # "proc"
        BY <4>1, <3>2
      <4>3. HandList(db, r, Z) /\ Even(db, Z)
        BY <4>1, <4>2, <3>2, HandShort, GrowsShort
      <4> QED
        BY <4>1, <4>3, <3>1, <2>3, HandConcat
    <3>4. \A k \in DOMAIN T : HandItem(db, r, T[k])
      BY <3>3, HandElements
    <3> QED
      BY <3>3, <3>4, HandCarried
  <2> QED
    BY <2>4, <2>5
<1> QED
  BY <1>6, <1>7

\* What a script other than the one of a stop sends for processes.
LEMMA ProcsRun ==
  ASSUME DbOK(db), NEW Q, NEW r, 1 \in DOMAIN Q, Q[1] = r, IsRecord(db, r), Triggered(r),
         ~StopRecord(r), SteadyOK(db, Q), BegunOK(db, Q, <<>>, FALSE), NEW T, List(db, r, T),
         r.t \in {"proc", "wi"} => Grows(db, T)
  PROVE  ProcsOK(db, Q, T)
<1>1. \A w \in DOMAIN db["wi"] : db["proc"][db["wi"][w].proc].completed # "absent"
  BY DEF BegunOK
<1>2. /\ r.t = "wi" => r.v.proc \in DOMAIN db["proc"] /\ db["proc"][r.v.proc].completed # "absent"
      /\ r.t = "wo" => db["proc"][db["wi"][r.v.wi].proc].completed # "absent"
  BY <1>1, RecordFacts, DbFacts DEF Same
<1>3. ASSUME Opens(r)
      PROVE  /\ r.id \in DOMAIN db["proc"] /\ Beginning(Q, r.id)
             /\ db["proc"][r.id].completed = "absent"
  <2>1. r.t = "proc" /\ ~r.v.stopped /\ Script(r) = "df2"
    BY <1>3 DEF Opens, Script
  <2>2. Begins(r)
    BY <2>1, <1>3 DEF Begins, Triggered
  <2> QED
    BY <2>1, <2>2, RecordFacts DEF Beginning, BegunOK
<1>4. \A k \in DOMAIN T : T[k] \in Write /\ (T[k].t = "proc" => ProcItem(db, r, T[k]))
  BY ListWrites DEF Item
<1>5. \A k \in DOMAIN T : T[k].id \in DOMAIN db[T[k].t] => ~Fresh(db, T[k])
  BY <1>4, MakesFacts
<1>6. ASSUME NEW k \in DOMAIN T, T[k].t = "proc", T[k].id \in DOMAIN db["proc"], NEW u,
             Grown(db["proc"][T[k].id], u)
      PROVE  /\ T[k].v.completed = "absent" => T[k].v.wil = <<>>
             /\ Onward(u, T[k].v)
             /\ T[k].v.completed = "absent" /\ ~T[k].v.stopped => Beginning(Q, T[k].id)
             /\ u.completed = "absent" /\ T[k].v.completed # "absent" => Beginning(Q, T[k].id)
  <2>1. PICK p, v, d : p = T[k].id /\ v = T[k].v /\ d = db["proc"][p]
    OBVIOUS
  <2>2. u.wil = d.wil /\ u.stopped = d.stopped /\ u.completed = d.completed
    BY <2>1, <1>6 DEF Grown
  <2>3. CASE Opens(r) /\ p = r.id /\ ~v.stopped /\ v.completed = "false"
    <3>1. Beginning(Q, p) /\ d.completed = "absent"
      BY <2>1, <2>3, <1>3
    <3> QED
      BY <3>1, <2>1, <2>2, <2>3 DEF Onward
  <2>4. CASE /\ r.t = "wi" /\ p = r.v.proc /\ v.completed = "true"
             /\ v.stopped = d.stopped /\ v.wil = d.wil
    <3>1. d.completed # "absent"
      BY <2>1, <2>4, <1>2
    <3> QED
      BY <3>1, <2>1, <2>2, <2>4 DEF Onward
  <2>5. CASE Grown(d, v) /\ Place(db, r, p)
    <3>1. v.wil = d.wil /\ v.stopped = d.stopped /\ v.completed = d.completed
      BY <2>5 DEF Grown
    <3>2. d.completed = "absent" => d.wil = <<>>
      BY <2>1, <1>6 DEF SteadyOK
    <3>3. d.completed = "absent" => Beginning(Q, p)
      BY <2>1, <2>5, <1>2, <1>3 DEF Place, Opens
    <3> QED
      BY <3>1, <3>2, <3>3, <2>1, <2>2 DEF Onward
  <2>6. ProcItem(db, r, T[k]) /\ ~Fresh(db, T[k])
    BY <1>4, <1>5, <1>6
  <2> QED
    BY <2>1, <2>3, <2>4, <2>5, <2>6 DEF ProcItem, StopRecord, Opens
<1>7. ASSUME NEW j \in DOMAIN T, NEW k \in DOMAIN T, j < k, T[j].t = "proc", T[k].t = "proc",
             T[j].id = T[k].id
      PROVE  T[k].id \in DOMAIN db["proc"] /\ Grown(db["proc"][T[k].id], T[j].v)
  <2>1. ~Fresh(db, T[k])
    BY <1>7 DEF List, InLine, Turn
  <2>2. T[k].id \in DOMAIN db["proc"]
    <3>1. T[k].id \in Ids /\ "proc" \in Types
      BY <1>4 DEF Write, Types
    <3>2. DOMAIN db["proc"] = 1 .. Len(db["proc"]) /\ Len(db["proc"]) \in Nat
      BY <3>1, DbFacts
    <3> QED
      BY <3>1, <3>2, <2>1, <1>7 DEF Fresh, Ids
  <2>3. CASE r.t \in {"proc", "wi"}
    BY <2>2, <2>3, <1>7 DEF Grows
  <2>4. CASE r.t \notin {"proc", "wi"}
    <3>1. ProcItem(db, r, T[j]) /\ ~Fresh(db, T[j])
      BY <2>2, <1>4, <1>5, <1>7
    <3> QED
      BY <3>1, <2>2, <2>4, <1>7 DEF ProcItem
  <2> QED
    BY <2>3, <2>4
<1>8. ASSUME NEW k \in DOMAIN T, T[k].t = "proc"
      PROVE  ProcCarried(db, Q, T, k)
  <2>1. ~StopRecord(Q[1])
    OBVIOUS
  <2>2. \A j \in DOMAIN T : j < k /\ T[j].t = "proc" /\ T[j].id = T[k].id => Onward(T[j].v, T[k].v)
    BY <1>6, <1>7, <1>8
  <2>3. CASE T[k].id \in DOMAIN db["proc"]
    <3>1. Grown(db["proc"][T[k].id], db["proc"][T[k].id])
      BY DEF Grown
    <3> QED
      BY <3>1, <2>1, <2>2, <2>3, <1>6, <1>8 DEF ProcCarried
  <2>4. CASE T[k].id \notin DOMAIN db["proc"]
    <3>1. T[k].v.wil = <<>>
      BY <2>4, <1>2, <1>3, <1>4, <1>8 DEF ProcItem, StopRecord, Opens
    <3> QED
      BY <3>1, <2>1, <2>2, <2>4 DEF ProcCarried
  <2> QED
    BY <2>3, <2>4
<1> QED
  BY <1>8 DEF ProcsOK

\* What a script sends, for the first record of the queue.
LEMMA RunCarried ==
  ASSUME TInv, queue # <<>>, NEW r, r = queue[1], Triggered(r), TreeOK(db, <<>>),
         VisitsOK(db, queue, FALSE), SteadyOK(db, queue), BegunOK(db, queue, <<>>, FALSE),
         NEW T, List(db, r, T), T = Writes(r)
  PROVE  CarriedOK(db, queue, T) /\ ProcsOK(db, queue, T) /\ NewLists(db, T) /\ Running(db, T)
<1>1. IsRecord(db, r) /\ DbOK(db) /\ 1 \in DOMAIN queue
  BY HeadRecord
<1>2. r.t \in {"form", "proc", "wi", "wo", "df"} /\ r.id \in DOMAIN db[r.t]
  BY <1>1, RecordFacts DEF Types
<1>3. \A k \in DOMAIN T : T[k] \in Write /\ Item(db, r, T[k])
  BY ListWrites
<1>4. \A k \in DOMAIN T : T[k].id \in DOMAIN db[T[k].t] => ~Fresh(db, T[k])
  BY <1>1, <1>3, MakesFacts
<1>5. ASSUME r.t \notin {"wi", "wo"}
      PROVE  NewLists(db, T) /\ Running(db, T)
  <2>1. \A k \in DOMAIN T : T[k].t = "wi" => Fresh(db, T[k])
    BY <1>3, <1>5 DEF Item, WiItem
  <2>2. \A k \in DOMAIN T : T[k].t = "df" => T[k].id \in DOMAIN db["df"]
    BY <1>2, <1>3, <1>5 DEF Item, DfItem
  <2> QED
    BY <2>1, <2>2, <1>4 DEF NewLists, Running
<1>11. Subs(db)
  BY DEF SteadyOK
<1>12. ~StopRecord(r) /\ (r.t \in {"proc", "wi"} => Grows(db, T)) => ProcsOK(db, queue, T)
  BY <1>1, ProcsRun
<1>6. CASE r.t = "form"
  <2>1. T = prepare_start_form(r.v)
    BY <1>6 DEF Writes
  <2> QED
    BY <2>1, <1>1, <1>5, <1>6, <1>12, CarriedForm DEF StopRecord
<1>7. CASE r.t = "proc"
  <2>1. CASE r.v.stopped
    <3>1. T = StopAll(r.id, r.v)
      BY <1>7, <2>1 DEF Writes
    <3>2. /\ \A p \in DOMAIN db["proc"] : db["proc"][p].completed = "absent" => db["proc"][p].wil = <<>>
          /\ \/ db["proc"][r.id].stopped \/ db["proc"][r.id].completed = "true"
             \/ db["proc"][r.id].parent = 0 \/ r.v.wil = <<>>
      BY <1>1, <1>7, <2>1 DEF SteadyOK
    <3>3. CarriedOK(db, queue, T) /\ ProcsOK(db, queue, T)
      BY <3>1, <3>2, <2>1, <1>1, <1>7, <1>11, CarriedStop
    <3> QED
      BY <3>3, <1>5, <1>7
  <2>2. CASE ~r.v.stopped
    <3>1. T = prepare_process(r.id, r.v)
      BY <1>7, <2>2 DEF Writes
    <3>2. CarriedOK(db, queue, T) /\ Grows(db, T)
      BY <3>1, <2>2, <1>1, <1>7, CarriedProcess
    <3> QED
      BY <3>2, <2>2, <1>5, <1>7, <1>12 DEF StopRecord
  <2> QED
    BY <2>1, <2>2
<1>8. CASE r.t = "wi"
  <2>1. T = prepare_work_item(r.id, r.v)
    BY <1>8 DEF Writes
  <2>2. CASE r.v.done
    <3>1. T = <<>>
      BY <2>1, <2>2 DEF prepare_work_item
    <3>2. DOMAIN T = {}
      BY <3>1
    <3> QED
      BY <3>2 DEF CarriedOK, ProcsOK, NewLists, Running
  <2>3. CASE ~r.v.done
    <3>1. Script(r) = "df3"
      BY <1>8 DEF Script
    <3>2. Visit(r)
      BY <3>1, <2>3, <1>8 DEF Visit, Triggered
    <3>3. NoOrder(db, r.id)
      BY <3>2, <1>1 DEF VisitsOK
    <3>4. r.v.prev = db["wi"][r.id].prev /\ r.v.wil = <<>> /\ r.v.wol = <<>>
      BY <3>2, <2>3, <1>1, <1>8 DEF SteadyOK, VisitsOK
    <3>5. InHand(db, queue, r)
      BY <3>2, <3>3, <3>4, <1>1 DEF InHand
    <3> QED
      BY <3>5, <2>1, <1>1, <1>8, <1>11, <1>12, CarriedItem DEF StopRecord
  <2> QED
    BY <2>2, <2>3
<1>9. CASE r.t = "wo"
  <2>1. T = prepare_work_order(r.id, r.v)
    BY <1>9 DEF Writes
  <2>2. Sub(db, r.v.sub)
    BY <1>1, <1>9 DEF SteadyOK
  <2> QED
    BY <2>1, <2>2, <1>1, <1>9, <1>11, <1>12, CarriedOrder DEF StopRecord
<1>10. CASE r.t = "df"
  <2>1. T = prepare_decision_form(r.id, r.v, r.was)
    BY <1>10 DEF Writes
  <2> QED
    BY <2>1, <1>1, <1>5, <1>10, <1>11, <1>12, CarriedDecision DEF StopRecord
<1> QED
  BY <1>2, <1>6, <1>7, <1>8, <1>9, <1>10

-----------------------------------------------------------------------------
(***************************************************************************)
(* A write, and what it leaves.                                            *)
(***************************************************************************)

\* The places in a sequence after its first element is taken.
LEMMA Shifts ==
  ASSUME NEW T \in Seq(Write), T # <<>>, NEW U, U = Tail(T)
  PROVE  /\ 1 \in DOMAIN T
         /\ \A k \in DOMAIN U : k + 1 \in DOMAIN T /\ U[k] = T[k + 1] /\ k + 1 # 1 /\ 1 < k + 1
         /\ \A j \in DOMAIN T : j = 1 \/ \E i \in DOMAIN U : j = i + 1 /\ U[i] = T[j]
         /\ \A i, k \in DOMAIN U : /\ i < k <=> i + 1 < k + 1
                                   /\ i <= k <=> i + 1 <= k + 1
                                   /\ ~(i + 1 <= 1)
<1>1. /\ DOMAIN T = 1 .. Len(T) /\ Len(T) \in Nat /\ DOMAIN U = 1 .. (Len(T) - 1) /\ 1 \in DOMAIN T
      /\ \A k \in DOMAIN U : k + 1 \in DOMAIN T /\ U[k] = T[k + 1]
  BY TailFacts
<1>2. \A k \in DOMAIN U : k \in Nat /\ k + 1 # 1 /\ 1 < k + 1
  BY <1>1
<1>3. ASSUME NEW j \in DOMAIN T, j # 1
      PROVE  \E i \in DOMAIN U : j = i + 1 /\ U[i] = T[j]
  <2>1. j - 1 \in DOMAIN U /\ j = (j - 1) + 1
    BY <1>1, <1>3
  <2>2. U[j - 1] = T[(j - 1) + 1]
    BY <2>1, <1>1
  <2> QED
    BY <2>1, <2>2
<1>4. \A i, k \in DOMAIN U : /\ i < k <=> i + 1 < k + 1
                             /\ i <= k <=> i + 1 <= k + 1
                             /\ ~(i + 1 <= 1)
  BY <1>2
<1> QED
  BY <1>1, <1>2, <1>3, <1>4

\* The record of a write, and the queue with it.
LEMMA Recorded ==
  ASSUME NEW D, NEW E, NEW Q, NEW w, NEW by \in Author, DbOK(D), QueueOK(D, Q), Fits(D, w),
         Stored(D, E, w), NEW R, R = RecordOf(D, w, by), NEW P, P = Append(Q, R)
  PROVE  /\ R.t = w.t /\ R.id = w.id /\ R.v = w.v /\ R.by = by
         /\ w.id \in DOMAIN D[w.t] => R.was = D[w.t][w.id]
         /\ w.id \notin DOMAIN D[w.t] => R.was = w.v
         /\ \A k \in DOMAIN Q : k \in DOMAIN P /\ P[k] = Q[k]
         /\ \A k \in DOMAIN P : k \in DOMAIN Q \/ (k \notin DOMAIN Q /\ P[k] = R)
         /\ \A j, k \in DOMAIN P : j \in DOMAIN Q \/ k \in DOMAIN Q \/ j = k
         /\ \E n \in DOMAIN P : P[n] = R /\ n \notin DOMAIN Q /\ (Q # <<>> => n # 1)
         /\ Q # <<>> => P[1] = Q[1] /\ 1 \in DOMAIN Q
<1>1. R.t = w.t /\ R.id = w.id /\ R.v = w.v /\ R.by = by /\ R \in Record /\ Q \in Seq(Record)
  BY RecordFields, QueueKept DEF QueueOK
<1>2. /\ DOMAIN Q = 1 .. Len(Q) /\ Len(Q) \in Nat /\ DOMAIN P = 1 .. (Len(Q) + 1)
      /\ \A k \in DOMAIN Q : P[k] = Q[k]
      /\ P[Len(Q) + 1] = R
  BY <1>1, AppendFacts
<1>3. Q # <<>> => 1 \in DOMAIN Q
  BY <1>1, TailFacts
<1>4. /\ w.id \in DOMAIN D[w.t] => R.was = D[w.t][w.id]
      /\ w.id \notin DOMAIN D[w.t] => R.was = w.v
  <2>1. w.t \in Types /\ w.id \in Ids
    BY DEF Fits, Write
  <2>2. DOMAIN D[w.t] = 1 .. Len(D[w.t]) /\ Len(D[w.t]) \in Nat
    BY <2>1, DbFacts
  <2>3. w.id \in DOMAIN D[w.t] <=> ~(w.id > Len(D[w.t]))
    BY <2>1, <2>2 DEF Ids
  <2> QED
    BY <2>3 DEF RecordOf
<1>5. \A k \in DOMAIN P : k \in DOMAIN Q \/ k = Len(Q) + 1
  BY <1>2
<1>6. Len(Q) + 1 \in DOMAIN P /\ Len(Q) + 1 \notin DOMAIN Q /\ \A k \in DOMAIN Q : k \in DOMAIN P
  BY <1>2
<1>7. \E n \in DOMAIN P : P[n] = R /\ n \notin DOMAIN Q /\ (Q # <<>> => n # 1)
  <2>1. Q # <<>> => Len(Q) + 1 # 1
    BY <1>3, <1>6
  <2> QED
    BY <2>1, <1>2, <1>6
<1> QED
  BY <1>1, <1>2, <1>3, <1>4, <1>5, <1>6, <1>7

\* One individual is written.
Wrote(D, E, w, t) ==
  /\ \A i \in DOMAIN D[t] : /\ i \in DOMAIN E[t]
                            /\ E[t][i] = D[t][i] \/ (w.t = t /\ w.id = i /\ E[t][i] = w.v)
  /\ \A i \in DOMAIN E[t] : i \in DOMAIN D[t] \/ (w.t = t /\ w.id = i /\ E[t][i] = w.v)
  /\ w.t = t => w.id \in DOMAIN E[t] /\ E[t][w.id] = w.v

\* For each of the types.
LEMMA OneWrite ==
  ASSUME NEW D, NEW E, NEW w, Stored(D, E, w)
  PROVE  Wrote(D, E, w, "proc") /\ Wrote(D, E, w, "wi") /\ Wrote(D, E, w, "wo") /\ Wrote(D, E, w, "df")
<1>1. ASSUME NEW t \in Types
      PROVE  Wrote(D, E, w, t)
  BY DEF Stored, Wrote
<1> QED
  BY <1>1 DEF Types

\* What it leaves as it is.
LEMMA SameLinks ==
  ASSUME NEW D, NEW E, NEW w, DbOK(D), Fits(D, w), Stored(D, E, w)
  PROVE  /\ \A x \in DOMAIN D["wi"] : /\ E["wi"][x].proc = D["wi"][x].proc
                                      /\ D["wi"][x].proc \in DOMAIN D["proc"]
         /\ \A o \in DOMAIN D["wo"] : /\ E["wo"][o].wi = D["wo"][o].wi
                                      /\ E["wo"][o].executor = D["wo"][o].executor
                                      /\ D["wo"][o].wi \in DOMAIN D["wi"]
         /\ \A f \in DOMAIN D["df"] : /\ E["df"][f].wo = D["df"][f].wo
                                      /\ D["df"][f].wo \in DOMAIN D["wo"]
         /\ \A o \in DOMAIN D["wo"] : HomeOf(E, o) = HomeOf(D, o) /\ HomeOf(D, o) \in DOMAIN D["proc"]
<1>1. /\ Wrote(D, E, w, "wi") /\ Wrote(D, E, w, "wo") /\ Wrote(D, E, w, "df")
      /\ Good(D, w.t, w.id, w.v)
  BY OneWrite DEF Fits
<1>2. \A x \in DOMAIN D["wi"] : /\ E["wi"][x].proc = D["wi"][x].proc
                                /\ D["wi"][x].proc \in DOMAIN D["proc"]
  BY <1>1, DbFacts DEF Wrote, Good, Same
<1>3. \A o \in DOMAIN D["wo"] : /\ E["wo"][o].wi = D["wo"][o].wi
                                /\ E["wo"][o].executor = D["wo"][o].executor
                                /\ D["wo"][o].wi \in DOMAIN D["wi"]
  BY <1>1, DbFacts DEF Wrote, Good, Same
<1>4. \A f \in DOMAIN D["df"] : /\ E["df"][f].wo = D["df"][f].wo
                                /\ D["df"][f].wo \in DOMAIN D["wo"]
  BY <1>1, DbFacts DEF Wrote, Good, Same
<1>5. \A o \in DOMAIN D["wo"] : HomeOf(E, o) = HomeOf(D, o) /\ HomeOf(D, o) \in DOMAIN D["proc"]
  BY <1>2, <1>3 DEF HomeOf
<1> QED
  BY <1>2, <1>3, <1>4, <1>5

\* A work item comes after the same one.
LEMMA AfterKept ==
  ASSUME NEW D, NEW E, NEW w, DbOK(D), Fits(D, w), Stored(D, E, w), NEW x, NEW v, After(D, x, v)
  PROVE  After(E, x, v)
<1>1. \A y \in DOMAIN D["wi"] : y \in DOMAIN E["wi"] /\ E["wi"][y].proc = D["wi"][y].proc
  BY SameLinks, OneWrite DEF Wrote
<1> QED
  BY <1>1 DEF After

\* No work order is made for a work item.
LEMMA NoOrderKept ==
  ASSUME NEW D, NEW E, NEW w, DbOK(D), Fits(D, w), Stored(D, E, w), NEW x, NoOrder(D, x),
         w.t = "wo" /\ w.id \notin DOMAIN D["wo"] => w.v.wi # x
  PROVE  NoOrder(E, x)
<1>1. \A o \in DOMAIN D["wo"] : E["wo"][o].wi = D["wo"][o].wi
  BY SameLinks
<1>2. Wrote(D, E, w, "wo")
  BY OneWrite
<1> QED
  BY <1>1, <1>2 DEF NoOrder, Wrote

\* What is known when the first write of T is sent.
Sending(D, E, Q, T) ==
  /\ DbOK(D) /\ QueueOK(D, Q) /\ TodoOK(D, T) /\ Q # <<>> /\ T # <<>> /\ Stored(D, E, T[1])
  /\ By(Q[1]) \in Author /\ By(Q[1]) # User
  /\ CarriedOK(D, Q, T) /\ ProcsOK(D, Q, T) /\ SteadyOK(D, Q)

\* What that says of the write, and of those that come after it.
LEMMA SendingFacts ==
  ASSUME NEW D, NEW E, NEW Q, NEW T, Sending(D, E, Q, T), NEW w, w = T[1]
  PROVE  /\ T \in Seq(Write) /\ 1 \in DOMAIN T /\ Fits(D, w) /\ Stored(D, E, w)
         /\ Wrote(D, E, w, "proc") /\ Wrote(D, E, w, "wi")
         /\ Wrote(D, E, w, "wo") /\ Wrote(D, E, w, "df")
         /\ w.t = "proc" => ProcCarried(D, Q, T, 1)
         /\ w.t = "wi" => ItemCarried(D, Q, T, 1)
         /\ w.t = "wo" => OrderCarried(D, Q, T, 1)
         /\ w.t = "df" => FormCarried(D, Q, T, 1)
         /\ \A k \in DOMAIN T : k # 1 /\ T[k].id \in DOMAIN E[T[k].t] => T[k].id \in DOMAIN D[T[k].t]
<1>1. T \in Seq(Write) /\ DbOK(D) /\ TodoOK(D, T) /\ T # <<>> /\ Stored(D, E, T[1])
  BY DEF Sending, TodoOK
<1>2. 1 \in DOMAIN T
  BY <1>1, TailFacts
<1>3. Fits(D, w)
  BY <1>1, HeadFits
<1>4. \A k \in DOMAIN T : k # 1 /\ T[k].id \in DOMAIN E[T[k].t] => T[k].id \in DOMAIN D[T[k].t]
  BY <1>1, StillFresh
<1> QED
  BY <1>1, <1>2, <1>3, <1>4, OneWrite DEF Sending, CarriedOK, ProcsOK

\* A process that is written keeps its list, but when it begins.
LEMMA ListSent ==
  ASSUME NEW D, NEW E, NEW Q, NEW T, Sending(D, E, Q, T), NEW p \in DOMAIN D["proc"]
  PROVE  \/ E["proc"][p].wil = D["proc"][p].wil
         \/ D["proc"][p].wil = <<>> /\ ~E["proc"][p].stopped /\ E["proc"][p].completed # "true"
<1>1. PICK w : w = T[1]
  OBVIOUS
<1>2. 1 \in DOMAIN T /\ Wrote(D, E, w, "proc") /\ (w.t = "proc" => ProcCarried(D, Q, T, 1))
  BY <1>1, SendingFacts
<1>3. CASE w.t = "proc" /\ w.id = p
  <2>1. E["proc"][p] = w.v
    BY <1>2, <1>3 DEF Wrote
  <2>2. Onward(D["proc"][p], w.v)
    BY <1>1, <1>2, <1>3 DEF ProcCarried
  <2>3. D["proc"][p].completed = "absent" => D["proc"][p].wil = <<>>
    BY DEF Sending, SteadyOK
  <2> QED
    BY <2>1, <2>2, <2>3 DEF Onward
<1>4. CASE ~(w.t = "proc" /\ w.id = p)
  BY <1>2, <1>4 DEF Wrote
<1> QED
  BY <1>3, <1>4

\* A write but the first is still to be sent.
LEMMA Later ==
  ASSUME NEW T \in Seq(Write), T # <<>>
  PROVE  \A j \in DOMAIN T : j = 1 \/ \E i \in DOMAIN Tail(T) : j = i + 1 /\ Tail(T)[i] = T[j]
<1>1. PICK U : U = Tail(T)
  OBVIOUS
<1>2. \A j \in DOMAIN T : j = 1 \/ \E i \in DOMAIN U : j = i + 1 /\ U[i] = T[j]
  BY <1>1, Shifts
<1> QED
  BY <1>1, <1>2

\* A work order that comes, comes.
LEMMA ComesSent ==
  ASSUME NEW D, NEW E, NEW Q, NEW T, Sending(D, E, Q, T), NEW U, U = Tail(T),
         NEW m \in Nat, NEW n \in Nat, n = m + 1 \/ (m = 0 /\ n = 0), NEW o, Comes(D, T, n, o)
  PROVE  Comes(E, U, m, o)
<1>1. PICK w : w = T[1]
  OBVIOUS
<1>2. T \in Seq(Write) /\ T # <<>> /\ Wrote(D, E, w, "wo")
  BY <1>1, SendingFacts DEF Sending
<1>3. CASE o \in DOMAIN D["wo"]
  BY <1>2, <1>3 DEF Wrote, Comes
<1>4. CASE \E k \in DOMAIN T : n < k /\ T[k].t = "wo" /\ T[k].id = o
  <2>1. PICK k \in DOMAIN T : n < k /\ T[k].t = "wo" /\ T[k].id = o
    BY <1>4
  <2>2. CASE k = 1
    BY <2>1, <2>2, <1>1, <1>2 DEF Wrote, Comes
  <2>3. CASE k # 1
    <3>1. PICK i \in DOMAIN U : k = i + 1 /\ U[i] = T[k]
      <4>1. T \in Seq(Write) /\ T # <<>>
        BY <1>2
      <4>2. \A j \in DOMAIN T : j = 1 \/ \E h \in DOMAIN Tail(T) : j = h + 1 /\ Tail(T)[h] = T[j]
        BY <4>1, Later
      <4>3. \A j \in DOMAIN T : j = 1 \/ \E h \in DOMAIN U : j = h + 1 /\ U[h] = T[j]
        BY <4>2
      <4> QED
        BY <4>3, <2>3
    <3>2. DOMAIN U = 1 .. (Len(T) - 1) /\ Len(T) \in Nat
      BY <1>2, TailFacts
    <3>3. m < i
      BY <3>1, <3>2, <2>1
    <3> QED
      BY <3>1, <3>3, <2>1 DEF Comes
  <2> QED
    BY <2>2, <2>3
<1> QED
  BY <1>3, <1>4 DEF Comes

\* The lists lead to what is stored.
LEMMA TreeSent ==
  ASSUME NEW D, NEW E, NEW Q, NEW T, Sending(D, E, Q, T), TreeOK(D, T)
  PROVE  TreeOK(E, Tail(T))
<1>1. PICK w : w = T[1]
  OBVIOUS
<1>2. /\ T \in Seq(Write) /\ 1 \in DOMAIN T /\ Fits(D, w) /\ Stored(D, E, w) /\ DbOK(D) /\ T # <<>>
      /\ Wrote(D, E, w, "proc") /\ Wrote(D, E, w, "wi")
      /\ Wrote(D, E, w, "wo") /\ Wrote(D, E, w, "df")
      /\ w.t = "wi" => ItemCarried(D, Q, T, 1)
      /\ w.t = "wo" => OrderCarried(D, Q, T, 1)
      /\ w.t = "df" => FormCarried(D, Q, T, 1)
  BY <1>1, SendingFacts DEF Sending
<1>3. PICK U : U = Tail(T)
  OBVIOUS
<1>4. \A j \in DOMAIN T : j = 1 \/ \E i \in DOMAIN U : j = i + 1 /\ U[i] = T[j]
  <2>1. T \in Seq(Write) /\ T # <<>>
    BY <1>2
  <2> QED
    BY <2>1, <1>3, Shifts
<1>5. \A j \in DOMAIN T : 1 < j => \E i \in DOMAIN U : U[i] = T[j]
  <2>1. ~(1 < 1)
    OBVIOUS
  <2> QED
    BY <2>1, <1>4
<1>6. /\ \A x \in DOMAIN D["wi"] : /\ E["wi"][x].proc = D["wi"][x].proc
                                   /\ D["wi"][x].proc \in DOMAIN D["proc"]
      /\ \A o \in DOMAIN D["wo"] : /\ E["wo"][o].wi = D["wo"][o].wi
                                   /\ D["wo"][o].wi \in DOMAIN D["wi"]
      /\ \A f \in DOMAIN D["df"] : /\ E["df"][f].wo = D["df"][f].wo
                                   /\ D["df"][f].wo \in DOMAIN D["wo"]
  BY <1>2, SameLinks
<1>7. ASSUME NEW x \in DOMAIN E["wi"], x \in DOMAIN D["wi"]
      PROVE  /\ After(E, x, E["wi"][x])
             /\ E["wi"][x].prev = D["wi"][x].prev
             /\ E["wi"][x].prev = 0 => Rooted(E, U, E["wi"][x].proc, x)
  <2>1. E["wi"][x].prev = D["wi"][x].prev
    BY <1>1, <1>2, <1>7 DEF Wrote, ItemCarried
  <2>2. After(D, x, E["wi"][x])
    <3>1. CASE E["wi"][x] = D["wi"][x]
      BY <3>1, <1>7 DEF TreeOK
    <3>2. CASE E["wi"][x] # D["wi"][x]
      <4>1. w.t = "wi" /\ w.id = x /\ E["wi"][x] = w.v
        BY <3>2, <1>2, <1>7 DEF Wrote
      <4> QED
        BY <4>1, <1>1, <1>2 DEF ItemCarried
    <3> QED
      BY <3>1, <3>2
  <2>3. After(E, x, E["wi"][x])
    BY <2>2, <1>2, AfterKept
  <2>4. ASSUME E["wi"][x].prev = 0
        PROVE  Rooted(E, U, E["wi"][x].proc, x)
    <3>1. PICK p : p = D["wi"][x].proc
      OBVIOUS
    <3>2. p \in DOMAIN D["proc"] /\ E["wi"][x].proc = p /\ Rooted(D, T, p, x)
      BY <3>1, <2>1, <2>4, <1>6, <1>7 DEF TreeOK
    <3>3. CASE x \in ToSet(D["proc"][p].wil)
      <4>1. ToSet(<<>>) = {}
        BY DEF ToSet
      <4>2. E["proc"][p].wil = D["proc"][p].wil
        BY <4>1, <3>2, <3>3, ListSent
      <4> QED
        BY <4>2, <3>2, <3>3 DEF Rooted
    <3>4. CASE \E k \in DOMAIN T : T[k].t = "proc" /\ T[k].id = p /\ x \in ToSet(T[k].v.wil)
      <4>1. PICK k \in DOMAIN T : T[k].t = "proc" /\ T[k].id = p /\ x \in ToSet(T[k].v.wil)
        BY <3>4
      <4>2. CASE k = 1
        <5>1. E["proc"][p] = T[k].v
          BY <4>1, <4>2, <1>1, <1>2 DEF Wrote
        <5> QED
          BY <5>1, <4>1, <3>2 DEF Rooted
      <4>3. CASE k # 1
        <5>1. PICK i \in DOMAIN U : U[i] = T[k]
          BY <4>3, <1>4
        <5> QED
          BY <5>1, <4>1, <3>2 DEF Rooted
      <4> QED
        BY <4>2, <4>3
    <3> QED
      BY <3>2, <3>3, <3>4 DEF Rooted
  <2> QED
    BY <2>1, <2>3, <2>4
<1>8. ASSUME NEW x \in DOMAIN E["wi"], x \notin DOMAIN D["wi"]
      PROVE  /\ After(E, x, E["wi"][x])
             /\ E["wi"][x].prev = 0 => Rooted(E, U, E["wi"][x].proc, x)
  <2>1. w.t = "wi" /\ w.id = x /\ E["wi"][x] = w.v
    BY <1>2, <1>8 DEF Wrote
  <2>2. After(D, x, w.v)
    BY <2>1, <1>1, <1>2 DEF ItemCarried
  <2>3. After(E, x, w.v)
    BY <2>2, <1>2, AfterKept
  <2>4. ASSUME w.v.prev = 0
        PROVE  Rooted(E, U, w.v.proc, x)
    <3>1. PICK j \in DOMAIN T : 1 < j /\ T[j].t = "proc" /\ T[j].id = w.v.proc /\ x \in ToSet(T[j].v.wil)
      BY <2>1, <2>4, <1>1, <1>2, <1>8 DEF ItemCarried
    <3>2. PICK i \in DOMAIN U : U[i] = T[j]
      BY <3>1, <1>5
    <3> QED
      BY <3>1, <3>2 DEF Rooted
  <2> QED
    BY <2>1, <2>3, <2>4
<1>9. ASSUME NEW o \in DOMAIN E["wo"]
      PROVE  o \in ToSet(E["wi"][E["wo"][o].wi].wol)
  <2>1. CASE o \in DOMAIN D["wo"]
    <3>1. PICK x : x = D["wo"][o].wi
      OBVIOUS
    <3>2. x \in DOMAIN D["wi"] /\ E["wo"][o].wi = x /\ o \in ToSet(D["wi"][x].wol) /\ ~NoOrder(D, x)
      BY <3>1, <2>1, <1>6 DEF TreeOK, NoOrder
    <3>3. E["wi"][x].wol = D["wi"][x].wol
      BY <3>2, <1>1, <1>2 DEF Wrote, ItemCarried
    <3> QED
      BY <3>2, <3>3
  <2>2. CASE o \notin DOMAIN D["wo"]
    <3>1. w.t = "wo" /\ w.id = o /\ E["wo"][o] = w.v
      BY <2>2, <1>2 DEF Wrote
    <3>2. \A j \in DOMAIN T : ~(j < 1)
      <4>1. DOMAIN T = 1 .. Len(T) /\ Len(T) \in Nat
        BY <1>2
      <4> QED
        BY <4>1
    <3>3. o \in ToSet(D["wi"][w.v.wi].wol)
      BY <3>1, <3>2, <2>2, <1>1, <1>2 DEF OrderCarried
    <3>4. E["wi"][w.v.wi] = D["wi"][w.v.wi]
      <4>1. w.v.wi \in DOMAIN D["wi"]
        BY <3>1, <1>2 DEF Fits, Good, Linked
      <4> QED
        BY <4>1, <3>1, <1>2 DEF Wrote
    <3> QED
      BY <3>1, <3>3, <3>4
  <2> QED
    BY <2>1, <2>2
<1>10. ASSUME NEW f \in DOMAIN E["df"]
       PROVE  Asked(E, U, E["df"][f].wo, f)
  <2>1. CASE f \in DOMAIN D["df"]
    <3>1. PICK o : o = D["df"][f].wo
      OBVIOUS
    <3>2. o \in DOMAIN D["wo"] /\ E["df"][f].wo = o /\ Asked(D, T, o, f)
          /\ D["wo"][o].executor \in Users
      BY <3>1, <2>1, <1>2, <1>6, DbFacts DEF TreeOK
    <3>3. CASE f \in ToSet(D["wo"][o].dfl)
      <4>1. CASE E["wo"][o] = D["wo"][o]
        BY <4>1, <3>2, <3>3 DEF Asked
      <4>2. CASE E["wo"][o] # D["wo"][o]
        <5>1. w.t = "wo" /\ w.id = o /\ E["wo"][o] = w.v
          BY <4>2, <3>2, <1>2 DEF Wrote
        <5>2. ToSet(D["wo"][o].dfl) \subseteq ToSet(w.v.dfl)
          BY <5>1, <3>2, <1>1, <1>2 DEF OrderCarried
        <5> QED
          BY <5>1, <5>2, <3>2, <3>3 DEF Asked
      <4> QED
        BY <4>1, <4>2
    <3>4. CASE \E k \in DOMAIN T : T[k].t = "wo" /\ T[k].id = o /\ f \in ToSet(T[k].v.dfl)
      <4>1. PICK k \in DOMAIN T : T[k].t = "wo" /\ T[k].id = o /\ f \in ToSet(T[k].v.dfl)
        BY <3>4
      <4>2. CASE k = 1
        <5>1. E["wo"][o] = T[k].v
          BY <4>1, <4>2, <1>1, <1>2 DEF Wrote
        <5> QED
          BY <5>1, <4>1, <3>2 DEF Asked
      <4>3. CASE k # 1
        <5>1. PICK i \in DOMAIN U : U[i] = T[k]
          BY <4>3, <1>4
        <5> QED
          BY <5>1, <4>1, <3>2 DEF Asked
      <4> QED
        BY <4>2, <4>3
    <3> QED
      BY <3>2, <3>3, <3>4 DEF Asked
  <2>2. CASE f \notin DOMAIN D["df"]
    <3>1. w.t = "df" /\ w.id = f /\ E["df"][f] = w.v
      BY <2>2, <1>2 DEF Wrote
    <3>2. PICK j \in DOMAIN T : 1 < j /\ T[j].t = "wo" /\ T[j].id = w.v.wo /\ f \in ToSet(T[j].v.dfl)
      BY <3>1, <2>2, <1>1, <1>2 DEF FormCarried
    <3>3. PICK i \in DOMAIN U : U[i] = T[j]
      BY <3>2, <1>5
    <3> QED
      BY <3>1, <3>2, <3>3 DEF Asked
  <2> QED
    BY <2>1, <2>2
<1>11. ASSUME NEW x \in DOMAIN E["wi"], NEW o \in ToSet(E["wi"][x].wol)
       PROVE  Comes(E, U, 0, o)
  <2>1. CASE x \in DOMAIN D["wi"] /\ E["wi"][x] = D["wi"][x]
    <3>1. Comes(D, T, 0, o)
      BY <2>1, <1>11 DEF TreeOK
    <3> QED
      BY <3>1, <1>3, ComesSent
  <2>2. CASE w.t = "wi" /\ w.id = x /\ E["wi"][x] = w.v
    <3>1. Comes(D, T, 1, o)
      BY <2>2, <1>1, <1>2, <1>11 DEF ItemCarried
    <3>2. 1 = 0 + 1 /\ 1 \in Nat /\ 0 \in Nat
      OBVIOUS
    <3> QED
      BY <3>1, <3>2, <1>3, ComesSent
  <2> QED
    BY <2>1, <2>2, <1>2, <1>11 DEF Wrote
<1>12. TreeOK(E, U)
  BY <1>7, <1>8, <1>9, <1>10, <1>11 DEF TreeOK
<1> QED
  BY <1>3, <1>12

\* A sub-process stays one.
LEMMA SubKept ==
  ASSUME NEW D, NEW E, NEW w, DbOK(D), Fits(D, w), Stored(D, E, w), NEW q, Sub(D, q)
  PROVE  Sub(E, q)
<1>1. Wrote(D, E, w, "proc") /\ Good(D, w.t, w.id, w.v)
  BY OneWrite DEF Fits
<1>2. \A p \in DOMAIN D["proc"] : p \in DOMAIN E["proc"] /\ E["proc"][p].parent = D["proc"][p].parent
  BY <1>1 DEF Wrote, Good, Same
<1> QED
  BY <1>2 DEF Sub

\* What is still to be sent to processes.
LEMMA ProcSent ==
  ASSUME NEW D, NEW E, NEW Q, NEW T, Sending(D, E, Q, T), NEW P, P[1] = Q[1],
         NEW U, U = Tail(T), NEW k \in DOMAIN U, U[k].t = "proc"
  PROVE  ProcCarried(E, P, U, k)
<1>1. PICK w : w = T[1]
  OBVIOUS
<1>2. /\ T \in Seq(Write) /\ 1 \in DOMAIN T /\ Wrote(D, E, w, "proc")
      /\ \A j \in DOMAIN T : j # 1 /\ T[j].id \in DOMAIN E[T[j].t] => T[j].id \in DOMAIN D[T[j].t]
  BY <1>1, SendingFacts
<1>3. T \in Seq(Write) /\ T # <<>>
  BY <1>2 DEF Sending
<1>4. /\ \A j \in DOMAIN U : j + 1 \in DOMAIN T /\ U[j] = T[j + 1] /\ j + 1 # 1 /\ 1 < j + 1
      /\ \A i, j \in DOMAIN U : i < j <=> i + 1 < j + 1
  <2>1. \A j \in DOMAIN U : j + 1 \in DOMAIN T /\ U[j] = T[j + 1] /\ j + 1 # 1 /\ 1 < j + 1
    BY <1>3, Shifts
  <2>2. \A i, j \in DOMAIN U : i < j <=> i + 1 < j + 1
    BY <1>3, Shifts
  <2> QED
    BY <2>1, <2>2
<1>5. PICK n : n = k + 1
  OBVIOUS
<1>6. n \in DOMAIN T /\ U[k] = T[n] /\ n # 1 /\ 1 < n /\ T[n].t = "proc"
  BY <1>4, <1>5
<1>7. ProcCarried(D, Q, T, n)
  BY <1>6 DEF Sending, ProcsOK
<1>8. PICK p : p = T[n].id
  OBVIOUS
<1>9. /\ T[n].v.completed = "absent" => T[n].v.wil = <<>>
      /\ StopRecord(Q[1]) => T[n].v.stopped
      /\ \A j \in DOMAIN T : j < n /\ T[j].t = "proc" /\ T[j].id = p => Onward(T[j].v, T[n].v)
      /\ p \in DOMAIN D["proc"] =>
           /\ Onward(D["proc"][p], T[n].v)
           /\ StopRecord(Q[1]) /\ Q[1].id = p => D["proc"][p].stopped
           /\ T[n].v.completed = "absent" /\ ~T[n].v.stopped => Beginning(Q, p)
           /\ D["proc"][p].completed = "absent" /\ T[n].v.completed # "absent" => Beginning(Q, p)
  BY <1>7, <1>8 DEF ProcCarried
<1>10. ASSUME NEW j \in DOMAIN U, j < k, U[j].t = "proc", U[j].id = p
       PROVE  Onward(U[j].v, T[n].v)
  <2>1. j + 1 \in DOMAIN T /\ j + 1 < n /\ U[j] = T[j + 1]
    BY <1>4, <1>5, <1>10
  <2> QED
    BY <2>1, <1>9, <1>10
<1>11. Beginning(Q, p) => Beginning(P, p)
  BY DEF Beginning
<1>12. ASSUME p \in DOMAIN E["proc"]
       PROVE  /\ Onward(E["proc"][p], T[n].v)
              /\ StopRecord(Q[1]) /\ Q[1].id = p => E["proc"][p].stopped
              /\ T[n].v.completed = "absent" /\ ~T[n].v.stopped => Beginning(P, p)
              /\ E["proc"][p].completed = "absent" /\ T[n].v.completed # "absent" => Beginning(P, p)
  <2>1. p \in DOMAIN D["proc"]
    BY <1>2, <1>6, <1>8, <1>12
  <2>2. CASE w.t = "proc" /\ w.id = p
    <3>1. E["proc"][p] = w.v
      BY <2>2, <1>2 DEF Wrote
    <3>2. Onward(w.v, T[n].v)
      BY <2>2, <1>1, <1>2, <1>6, <1>9
    <3>3. ProcCarried(D, Q, T, 1)
      BY <2>2, <1>1, SendingFacts
    <3>4. Onward(D["proc"][p], w.v) /\ (StopRecord(Q[1]) => w.v.stopped)
      BY <3>3, <2>1, <2>2, <1>1 DEF ProcCarried
    <3>5. w.v.completed = "absent" => D["proc"][p].completed = "absent"
      BY <3>4 DEF Onward
    <3> QED
      BY <3>1, <3>2, <3>4, <3>5, <2>1, <1>9, <1>11
  <2>3. CASE ~(w.t = "proc" /\ w.id = p)
    <3>1. E["proc"][p] = D["proc"][p]
      BY <2>1, <2>3, <1>2 DEF Wrote
    <3> QED
      BY <3>1, <2>1, <1>9, <1>11
  <2> QED
    BY <2>2, <2>3
<1> QED
  BY <1>6, <1>8, <1>9, <1>10, <1>12 DEF ProcCarried

\* What is still to be sent to work items.
LEMMA ItemStillSent ==
  ASSUME NEW D, NEW E, NEW Q, NEW T, Sending(D, E, Q, T), NEW P, P[1] = Q[1],
         NEW U, U = Tail(T), NEW k \in DOMAIN U, U[k].t = "wi"
  PROVE  ItemCarried(E, P, U, k)
<1>1. PICK w : w = T[1]
  OBVIOUS
<1>2. /\ T \in Seq(Write) /\ 1 \in DOMAIN T /\ Fits(D, w) /\ Stored(D, E, w) /\ DbOK(D)
      /\ Wrote(D, E, w, "wi") /\ (w.t = "wi" => ItemCarried(D, Q, T, 1))
      /\ \A j \in DOMAIN T : j # 1 /\ T[j].id \in DOMAIN E[T[j].t] => T[j].id \in DOMAIN D[T[j].t]
  BY <1>1, SendingFacts DEF Sending
<1>3. T \in Seq(Write) /\ T # <<>>
  BY <1>2 DEF Sending
<1>4. /\ \A j \in DOMAIN U : j + 1 \in DOMAIN T /\ U[j] = T[j + 1] /\ j + 1 # 1 /\ 1 < j + 1
      /\ \A j \in DOMAIN T : j = 1 \/ \E i \in DOMAIN U : j = i + 1 /\ U[i] = T[j]
      /\ \A i, j \in DOMAIN U : i < j <=> i + 1 < j + 1
  <2>1. \A j \in DOMAIN U : j + 1 \in DOMAIN T /\ U[j] = T[j + 1] /\ j + 1 # 1 /\ 1 < j + 1
    BY <1>3, Shifts
  <2>2. \A j \in DOMAIN T : j = 1 \/ \E i \in DOMAIN U : j = i + 1 /\ U[i] = T[j]
    BY <1>3, Shifts
  <2>3. \A i, j \in DOMAIN U : i < j <=> i + 1 < j + 1
    BY <1>3, Shifts
  <2> QED
    BY <2>1, <2>2, <2>3
<1>5. PICK n : n = k + 1
  OBVIOUS
<1>6. n \in DOMAIN T /\ U[k] = T[n] /\ n # 1 /\ 1 < n /\ T[n].t = "wi"
  BY <1>4, <1>5
<1>7. ItemCarried(D, Q, T, n)
  BY <1>6 DEF Sending, CarriedOK
<1>8. PICK x : x = T[n].id
  OBVIOUS
<1>9. /\ ~T[n].v.done => T[n].v.wil = <<>>
      /\ After(D, x, T[n].v)
      /\ x \notin DOMAIN D["wi"] => T[n].v.wol = <<>>
      /\ x \notin DOMAIN D["wi"] /\ T[n].v.prev = 0 =>
           \E j \in DOMAIN T : /\ n < j /\ T[j].t = "proc" /\ T[j].id = T[n].v.proc
                               /\ x \in ToSet(T[j].v.wil)
      /\ x \in DOMAIN D["wi"] =>
           /\ T[n].v.prev = D["wi"][x].prev
           /\ T[n].v.done \/ (Q[1].t = "wi" /\ Q[1].id = x)
           /\ \/ /\ T[n].v.wol = D["wi"][x].wol
                 /\ \A j \in DOMAIN T : T[j].t = "wi" /\ T[j].id = x => T[j].v.wol = T[n].v.wol
              \/ /\ NoOrder(D, x)
                 /\ \A j \in DOMAIN T : j < n /\ T[j].t = "wo" => T[j].v.wi # x
  BY <1>7, <1>8 DEF ItemCarried
<1>10. After(E, x, T[n].v)
  BY <1>2, <1>9, AfterKept
<1>11. ASSUME x \notin DOMAIN E["wi"], T[n].v.prev = 0
       PROVE  \E j \in DOMAIN U : /\ k < j /\ U[j].t = "proc" /\ U[j].id = T[n].v.proc
                                  /\ x \in ToSet(U[j].v.wil)
  <2>1. x \notin DOMAIN D["wi"]
    BY <1>2, <1>11 DEF Wrote
  <2>2. PICK j \in DOMAIN T : /\ n < j /\ T[j].t = "proc" /\ T[j].id = T[n].v.proc
                              /\ x \in ToSet(T[j].v.wil)
    BY <2>1, <1>9, <1>11
  <2>3. PICK i \in DOMAIN U : j = i + 1 /\ U[i] = T[j]
    <3>1. j # 1
      BY <2>2, <1>2, <1>6
    <3> QED
      BY <3>1, <1>4
  <2>4. k < i
    BY <2>2, <2>3, <1>4, <1>5
  <2> QED
    BY <2>2, <2>3, <2>4
<1>12. ASSUME x \in DOMAIN E["wi"]
       PROVE  /\ T[n].v.prev = E["wi"][x].prev
              /\ T[n].v.done \/ (Q[1].t = "wi" /\ Q[1].id = x)
              /\ \/ /\ T[n].v.wol = E["wi"][x].wol
                    /\ \A j \in DOMAIN U : U[j].t = "wi" /\ U[j].id = x => U[j].v.wol = T[n].v.wol
                 \/ /\ NoOrder(E, x)
                    /\ \A j \in DOMAIN U : j < k /\ U[j].t = "wo" => U[j].v.wi # x
  <2>1. x \in DOMAIN D["wi"]
    BY <1>2, <1>6, <1>8, <1>12
  <2>2. E["wi"][x].prev = D["wi"][x].prev
    BY <2>1, <1>1, <1>2 DEF Wrote, ItemCarried
  <2>3. CASE /\ T[n].v.wol = D["wi"][x].wol
             /\ \A j \in DOMAIN T : T[j].t = "wi" /\ T[j].id = x => T[j].v.wol = T[n].v.wol
    <3>1. E["wi"][x].wol = T[n].v.wol
      BY <2>1, <2>3, <1>1, <1>2 DEF Wrote
    <3>2. \A j \in DOMAIN U : U[j].t = "wi" /\ U[j].id = x => U[j].v.wol = T[n].v.wol
      BY <2>3, <1>4
    <3> QED
      BY <3>1, <3>2, <2>1, <2>2, <1>9
  <2>4. CASE /\ NoOrder(D, x)
             /\ \A j \in DOMAIN T : j < n /\ T[j].t = "wo" => T[j].v.wi # x
    <3>1. w.t = "wo" => w.v.wi # x
      BY <2>4, <1>1, <1>2, <1>6
    <3>2. NoOrder(E, x)
      BY <3>1, <2>4, <1>2, NoOrderKept
    <3>3. \A j \in DOMAIN U : j < k /\ U[j].t = "wo" => U[j].v.wi # x
      BY <2>4, <1>4, <1>5
    <3> QED
      BY <3>2, <3>3, <2>1, <2>2, <1>9
  <2> QED
    BY <2>1, <2>3, <2>4, <1>9
<1>13. \A o \in ToSet(T[n].v.wol) : Comes(D, T, n, o)
  BY <1>7 DEF ItemCarried
<1>14. ASSUME NEW o \in ToSet(T[n].v.wol)
       PROVE  Comes(E, U, k, o)
  <2>1. k \in Nat /\ n \in Nat /\ n = k + 1
    <3>1. DOMAIN U = 1 .. (Len(T) - 1) /\ Len(T) \in Nat
      BY <1>3, TailFacts
    <3> QED
      BY <3>1, <1>5
  <2> QED
    BY <2>1, <1>13, <1>14, ComesSent
<1>15. x \notin DOMAIN E["wi"] => T[n].v.wol = <<>>
  BY <1>2, <1>9 DEF Wrote
<1>16. /\ ~U[k].v.done => U[k].v.wil = <<>>
       /\ After(E, U[k].id, U[k].v)
       /\ U[k].id \notin DOMAIN E["wi"] => U[k].v.wol = <<>>
  BY <1>6, <1>8, <1>9, <1>10, <1>15
<1>17. \A o \in ToSet(U[k].v.wol) : Comes(E, U, k, o)
  BY <1>6, <1>14
<1>18. U[k].id \notin DOMAIN E["wi"] /\ U[k].v.prev = 0 =>
         \E j \in DOMAIN U : /\ k < j /\ U[j].t = "proc" /\ U[j].id = U[k].v.proc
                             /\ U[k].id \in ToSet(U[j].v.wil)
  BY <1>6, <1>8, <1>11
<1>19. U[k].id \in DOMAIN E["wi"] =>
         /\ U[k].v.prev = E["wi"][U[k].id].prev
         /\ U[k].v.done \/ (P[1].t = "wi" /\ P[1].id = U[k].id)
         /\ \/ /\ U[k].v.wol = E["wi"][U[k].id].wol
               /\ \A j \in DOMAIN U : U[j].t = "wi" /\ U[j].id = U[k].id => U[j].v.wol = U[k].v.wol
            \/ /\ NoOrder(E, U[k].id)
               /\ \A j \in DOMAIN U : j < k /\ U[j].t = "wo" => U[j].v.wi # U[k].id
  BY <1>6, <1>8, <1>12
<1> QED
  BY <1>16, <1>17, <1>18, <1>19 DEF ItemCarried

\* What is still to be sent to work orders.
LEMMA OrderStillSent ==
  ASSUME NEW D, NEW E, NEW Q, NEW T, Sending(D, E, Q, T), NEW P, P[1] = Q[1],
         NEW U, U = Tail(T), NEW k \in DOMAIN U, U[k].t = "wo"
  PROVE  OrderCarried(E, P, U, k)
<1>1. PICK w : w = T[1]
  OBVIOUS
<1>2. /\ T \in Seq(Write) /\ 1 \in DOMAIN T /\ Fits(D, w) /\ Stored(D, E, w) /\ DbOK(D)
      /\ Wrote(D, E, w, "wi") /\ Wrote(D, E, w, "wo") /\ TodoOK(D, T)
      /\ \A j \in DOMAIN T : j # 1 /\ T[j].id \in DOMAIN E[T[j].t] => T[j].id \in DOMAIN D[T[j].t]
  BY <1>1, SendingFacts DEF Sending
<1>3. T \in Seq(Write) /\ T # <<>>
  BY <1>2 DEF Sending
<1>4. /\ \A j \in DOMAIN U : j + 1 \in DOMAIN T /\ U[j] = T[j + 1] /\ j + 1 # 1 /\ ~(j + 1 <= 1)
      /\ \A j \in DOMAIN T : j = 1 \/ \E i \in DOMAIN U : j = i + 1 /\ U[i] = T[j]
      /\ \A i, j \in DOMAIN U : /\ i < j <=> i + 1 < j + 1
                                /\ i <= j <=> i + 1 <= j + 1
  <2>1. \A j \in DOMAIN U : j + 1 \in DOMAIN T /\ U[j] = T[j + 1] /\ j + 1 # 1
    BY <1>3, Shifts
  <2>2. \A j \in DOMAIN T : j = 1 \/ \E i \in DOMAIN U : j = i + 1 /\ U[i] = T[j]
    BY <1>3, Shifts
  <2>3. \A i, j \in DOMAIN U : /\ i < j <=> i + 1 < j + 1
                               /\ i <= j <=> i + 1 <= j + 1
    BY <1>3, Shifts
  <2>4. \A j \in DOMAIN U : ~(j + 1 <= 1)
    BY <1>3, Shifts
  <2> QED
    BY <2>1, <2>2, <2>3, <2>4
<1>5. PICK n : n = k + 1
  OBVIOUS
<1>6. n \in DOMAIN T /\ U[k] = T[n] /\ n # 1 /\ T[n].t = "wo"
  BY <1>4, <1>5
<1>7. OrderCarried(D, Q, T, n)
  BY <1>6 DEF Sending, CarriedOK
<1>8. PICK o : o = T[n].id
  OBVIOUS
<1>9. PICK x : x = T[n].v.wi
  OBVIOUS
<1>10. /\ \A j \in DOMAIN T : T[j].t = "wo" /\ T[j].id = o => T[j].v = T[n].v
       /\ o \in DOMAIN D["wo"] /\ D["wo"][o].executor \in Users =>
            ToSet(D["wo"][o].dfl) \subseteq ToSet(T[n].v.dfl)
       /\ o \notin DOMAIN D["wo"] =>
            /\ Visit(Q[1]) /\ Q[1].id = x
            /\ \/ /\ o \in ToSet(D["wi"][x].wol)
                  /\ \A j \in DOMAIN T : T[j].t = "wi" => T[j].id # x
               \/ \E j \in DOMAIN T :
                    /\ j < n /\ T[j].t = "wi" /\ T[j].id = x /\ o \in ToSet(T[j].v.wol)
                    /\ \A i \in DOMAIN T : T[i].t = "wi" => i <= j
  BY <1>7, <1>8, <1>9 DEF OrderCarried
<1>11. \A j \in DOMAIN U : U[j].t = "wo" /\ U[j].id = o => U[j].v = T[n].v
  BY <1>4, <1>10
<1>12. ASSUME o \in DOMAIN E["wo"], E["wo"][o].executor \in Users
       PROVE  ToSet(E["wo"][o].dfl) \subseteq ToSet(T[n].v.dfl)
  <2>1. o \in DOMAIN D["wo"]
    BY <1>2, <1>6, <1>8, <1>12
  <2>2. CASE w.t = "wo" /\ w.id = o
    <3>1. E["wo"][o] = T[n].v
      BY <2>2, <1>1, <1>2, <1>10 DEF Wrote
    <3> QED
      BY <3>1
  <2>3. CASE ~(w.t = "wo" /\ w.id = o)
    <3>1. E["wo"][o] = D["wo"][o]
      BY <2>1, <2>3, <1>2 DEF Wrote
    <3> QED
      BY <3>1, <2>1, <1>10, <1>12
  <2> QED
    BY <2>2, <2>3
<1>13. ASSUME o \notin DOMAIN E["wo"]
       PROVE  /\ Visit(Q[1]) /\ Q[1].id = x
              /\ \/ /\ o \in ToSet(E["wi"][x].wol)
                    /\ \A j \in DOMAIN U : U[j].t = "wi" => U[j].id # x
                 \/ \E j \in DOMAIN U :
                      /\ j < k /\ U[j].t = "wi" /\ U[j].id = x /\ o \in ToSet(U[j].v.wol)
                      /\ \A i \in DOMAIN U : U[i].t = "wi" => i <= j
  <2>1. o \notin DOMAIN D["wo"]
    BY <1>2, <1>13 DEF Wrote
  <2>2. x \in DOMAIN D["wi"]
    BY <1>2, <1>6, <1>9 DEF TodoOK, Good, Linked
  <2>3. CASE /\ o \in ToSet(D["wi"][x].wol)
             /\ \A j \in DOMAIN T : T[j].t = "wi" => T[j].id # x
    <3>1. E["wi"][x] = D["wi"][x]
      BY <2>2, <2>3, <1>1, <1>2 DEF Wrote
    <3>2. \A j \in DOMAIN U : U[j].t = "wi" => U[j].id # x
      BY <2>3, <1>4
    <3> QED
      BY <3>1, <3>2, <2>1, <2>3, <1>10
  <2>4. CASE \E j \in DOMAIN T :
               /\ j < n /\ T[j].t = "wi" /\ T[j].id = x /\ o \in ToSet(T[j].v.wol)
               /\ \A i \in DOMAIN T : T[i].t = "wi" => i <= j
    <3>1. PICK j \in DOMAIN T :
               /\ j < n /\ T[j].t = "wi" /\ T[j].id = x /\ o \in ToSet(T[j].v.wol)
               /\ \A i \in DOMAIN T : T[i].t = "wi" => i <= j
      BY <2>4
    <3>2. CASE j = 1
      <4>1. E["wi"][x] = T[j].v
        BY <3>1, <3>2, <1>1, <1>2 DEF Wrote
      <4>2. \A i \in DOMAIN U : U[i].t # "wi"
        BY <3>1, <3>2, <1>4
      <4> QED
        BY <4>1, <4>2, <3>1, <2>1, <1>10
    <3>3. CASE j # 1
      <4>1. PICK i \in DOMAIN U : j = i + 1 /\ U[i] = T[j]
        BY <3>3, <1>4
      <4>2. i < k
        BY <4>1, <3>1, <1>4, <1>5
      <4>3. \A h \in DOMAIN U : U[h].t = "wi" => h <= i
        BY <4>1, <3>1, <1>4
      <4> QED
        BY <4>1, <4>2, <4>3, <3>1, <2>1, <1>10
    <3> QED
      BY <3>2, <3>3
  <2> QED
    BY <2>1, <2>3, <2>4, <1>10
<1>14. PICK q : q = T[n].v.sub
  OBVIOUS
<1>15. \/ Sub(D, q)
       \/ \E j \in DOMAIN T : j < n /\ T[j].t = "proc" /\ T[j].id = q /\ T[j].v.parent # 0
  BY <1>7, <1>14 DEF OrderCarried
<1>16. Sub(E, q) \/ \E j \in DOMAIN U : j < k /\ U[j].t = "proc" /\ U[j].id = q /\ U[j].v.parent # 0
  <2>1. CASE Sub(D, q)
    BY <2>1, <1>2, SubKept
  <2>2. CASE \E j \in DOMAIN T : j < n /\ T[j].t = "proc" /\ T[j].id = q /\ T[j].v.parent # 0
    <3>1. PICK j \in DOMAIN T : j < n /\ T[j].t = "proc" /\ T[j].id = q /\ T[j].v.parent # 0
      BY <2>2
    <3>2. CASE j = 1
      <4>1. Wrote(D, E, w, "proc")
        BY <1>1, SendingFacts
      <4>2. q \in DOMAIN E["proc"] /\ E["proc"][q] = T[j].v
        BY <4>1, <3>1, <3>2, <1>1 DEF Wrote
      <4> QED
        BY <4>2, <3>1 DEF Sub
    <3>3. CASE j # 1
      <4>1. PICK i \in DOMAIN U : j = i + 1 /\ U[i] = T[j]
        BY <3>3, <1>4
      <4>2. i < k
        BY <4>1, <3>1, <1>4, <1>5
      <4> QED
        BY <4>1, <4>2, <3>1
    <3> QED
      BY <3>2, <3>3
  <2> QED
    BY <2>1, <2>2, <1>15
<1>17. \/ Sub(E, T[n].v.sub)
       \/ \E j \in DOMAIN U : /\ j < k /\ U[j].t = "proc" /\ U[j].id = T[n].v.sub
                              /\ U[j].v.parent # 0
  BY <1>14, <1>16
<1>18. /\ \A j \in DOMAIN U : U[j].t = "wo" /\ U[j].id = U[k].id => U[j].v = U[k].v
       /\ U[k].id \in DOMAIN E["wo"] /\ E["wo"][U[k].id].executor \in Users =>
            ToSet(E["wo"][U[k].id].dfl) \subseteq ToSet(U[k].v.dfl)
  BY <1>6, <1>8, <1>11, <1>12
<1>19. \/ Sub(E, U[k].v.sub)
       \/ \E j \in DOMAIN U : /\ j < k /\ U[j].t = "proc" /\ U[j].id = U[k].v.sub
                              /\ U[j].v.parent # 0
  BY <1>6, <1>17
<1>20. U[k].id \notin DOMAIN E["wo"] =>
         /\ Visit(P[1]) /\ P[1].id = U[k].v.wi
         /\ \/ /\ U[k].id \in ToSet(E["wi"][U[k].v.wi].wol)
               /\ \A j \in DOMAIN U : U[j].t = "wi" => U[j].id # U[k].v.wi
            \/ \E j \in DOMAIN U :
                 /\ j < k /\ U[j].t = "wi" /\ U[j].id = U[k].v.wi /\ U[k].id \in ToSet(U[j].v.wol)
                 /\ \A i \in DOMAIN U : U[i].t = "wi" => i <= j
  BY <1>6, <1>8, <1>9, <1>13
<1> QED
  BY <1>18, <1>19, <1>20 DEF OrderCarried

\* What is still to be sent to forms.
LEMMA FormStillSent ==
  ASSUME NEW D, NEW E, NEW Q, NEW T, Sending(D, E, Q, T), NEW P, P[1] = Q[1],
         NEW U, U = Tail(T), NEW k \in DOMAIN U, U[k].t = "df"
  PROVE  FormCarried(E, P, U, k)
<1>1. PICK w : w = T[1]
  OBVIOUS
<1>2. /\ T \in Seq(Write) /\ 1 \in DOMAIN T /\ Wrote(D, E, w, "df")
      /\ \A j \in DOMAIN T : j # 1 /\ T[j].id \in DOMAIN E[T[j].t] => T[j].id \in DOMAIN D[T[j].t]
  BY <1>1, SendingFacts
<1>3. T \in Seq(Write) /\ T # <<>>
  BY <1>2 DEF Sending
<1>4. /\ \A j \in DOMAIN U : j + 1 \in DOMAIN T /\ U[j] = T[j + 1] /\ j + 1 # 1 /\ 1 < j + 1
      /\ \A j \in DOMAIN T : j = 1 \/ \E i \in DOMAIN U : j = i + 1 /\ U[i] = T[j]
      /\ \A i, j \in DOMAIN U : i < j <=> i + 1 < j + 1
  <2>1. \A j \in DOMAIN U : j + 1 \in DOMAIN T /\ U[j] = T[j + 1] /\ j + 1 # 1 /\ 1 < j + 1
    BY <1>3, Shifts
  <2>2. \A j \in DOMAIN T : j = 1 \/ \E i \in DOMAIN U : j = i + 1 /\ U[i] = T[j]
    BY <1>3, Shifts
  <2>3. \A i, j \in DOMAIN U : i < j <=> i + 1 < j + 1
    BY <1>3, Shifts
  <2> QED
    BY <2>1, <2>2, <2>3
<1>5. PICK n : n = k + 1
  OBVIOUS
<1>6. n \in DOMAIN T /\ U[k] = T[n] /\ n # 1 /\ 1 < n /\ T[n].t = "df"
  BY <1>4, <1>5
<1>7. FormCarried(D, Q, T, n)
  BY <1>6 DEF Sending, CarriedOK
<1>8. T[n].id \in DOMAIN D["df"] <=> T[n].id \in DOMAIN E["df"]
  BY <1>2, <1>6 DEF Wrote
<1>9. ASSUME T[n].id \notin DOMAIN D["df"]
      PROVE  /\ ~T[n].v.done
             /\ \E j \in DOMAIN U : /\ k < j /\ U[j].t = "wo" /\ U[j].id = T[n].v.wo
                                    /\ T[n].id \in ToSet(U[j].v.dfl)
  <2>1. PICK j \in DOMAIN T : /\ n < j /\ T[j].t = "wo" /\ T[j].id = T[n].v.wo
                              /\ T[n].id \in ToSet(T[j].v.dfl)
    BY <1>7, <1>9 DEF FormCarried
  <2>2. PICK i \in DOMAIN U : j = i + 1 /\ U[i] = T[j]
    <3>1. j # 1
      <4>1. DOMAIN T = 1 .. Len(T) /\ Len(T) \in Nat
        BY <1>3
      <4> QED
        BY <4>1, <2>1, <1>6
    <3> QED
      BY <3>1, <1>4
  <2>3. k < i
    BY <2>1, <2>2, <1>4, <1>5
  <2>4. ~T[n].v.done
    BY <1>7, <1>9 DEF FormCarried
  <2> QED
    BY <2>1, <2>2, <2>3, <2>4
<1> QED
  BY <1>6, <1>7, <1>8, <1>9 DEF FormCarried

\* All that is still to be sent.
LEMMA CarriedSent ==
  ASSUME NEW D, NEW E, NEW Q, NEW T, Sending(D, E, Q, T), NEW P, P[1] = Q[1]
  PROVE  CarriedOK(E, P, Tail(T)) /\ ProcsOK(E, P, Tail(T))
<1>1. PICK U : U = Tail(T)
  OBVIOUS
<1>2. CarriedOK(E, P, U) /\ ProcsOK(E, P, U)
  BY <1>1, ProcSent, ItemStillSent, OrderStillSent, FormStillSent DEF CarriedOK, ProcsOK
<1> QED
  BY <1>1, <1>2

\* What the record of a write shows, and where it is.
LEMMA SentRecord ==
  ASSUME NEW D, NEW E, NEW Q, NEW T, Sending(D, E, Q, T), NEW w, w = T[1],
         NEW R, R = RecordOf(D, w, By(Q[1])), NEW P, P = Append(Q, R)
  PROVE  /\ R.t = w.t /\ R.id = w.id /\ R.v = w.v /\ R.by = By(Q[1]) /\ R.by # User
         /\ w.id \in DOMAIN D[w.t] => R.was = D[w.t][w.id]
         /\ w.id \notin DOMAIN D[w.t] => R.was = w.v
         /\ \A k \in DOMAIN Q : k \in DOMAIN P /\ P[k] = Q[k]
         /\ \A k \in DOMAIN P : k \in DOMAIN Q \/ (k \notin DOMAIN Q /\ P[k] = R)
         /\ \A j, k \in DOMAIN P : j \in DOMAIN Q \/ k \in DOMAIN Q \/ j = k
         /\ \E n \in DOMAIN P : P[n] = R /\ n \notin DOMAIN Q /\ n # 1
         /\ P[1] = Q[1] /\ 1 \in DOMAIN Q
         /\ \A k \in DOMAIN Q : Q[k].id \in DOMAIN D[Q[k].t]
<1>1. /\ DbOK(D) /\ QueueOK(D, Q) /\ Fits(D, w) /\ Stored(D, E, w) /\ Q # <<>>
      /\ By(Q[1]) \in Author /\ By(Q[1]) # User
  BY SendingFacts DEF Sending
<1>2. /\ R.t = w.t /\ R.id = w.id /\ R.v = w.v /\ R.by = By(Q[1])
      /\ w.id \in DOMAIN D[w.t] => R.was = D[w.t][w.id]
      /\ w.id \notin DOMAIN D[w.t] => R.was = w.v
  BY <1>1, Recorded
<1>3. /\ \A k \in DOMAIN Q : k \in DOMAIN P /\ P[k] = Q[k]
      /\ \A k \in DOMAIN P : k \in DOMAIN Q \/ (k \notin DOMAIN Q /\ P[k] = R)
      /\ \A j, k \in DOMAIN P : j \in DOMAIN Q \/ k \in DOMAIN Q \/ j = k
  BY <1>1, Recorded
<1>4. \E n \in DOMAIN P : P[n] = R /\ n \notin DOMAIN Q /\ n # 1
  BY <1>1, Recorded
<1>5. P[1] = Q[1] /\ 1 \in DOMAIN Q
  BY <1>1, Recorded
<1> QED
  BY <1>1, <1>2, <1>3, <1>4, <1>5 DEF QueueOK

\* The record in hand is the only one that makes work orders of its work item.
LEMMA VisitsSent ==
  ASSUME NEW D, NEW E, NEW Q, NEW T, Sending(D, E, Q, T), VisitsOK(D, Q, TRUE),
         NEW P, P = Append(Q, RecordOf(D, T[1], By(Q[1])))
  PROVE  VisitsOK(E, P, TRUE)
<1>1. PICK w : w = T[1]
  OBVIOUS
<1>2. PICK R : R = RecordOf(D, w, By(Q[1]))
  OBVIOUS
<1>3. P = Append(Q, R)
  BY <1>1, <1>2
<1>4. /\ DbOK(D) /\ Fits(D, w) /\ Stored(D, E, w) /\ Wrote(D, E, w, "wo")
      /\ (w.t = "wi" => ItemCarried(D, Q, T, 1)) /\ (w.t = "wo" => OrderCarried(D, Q, T, 1))
  BY <1>1, SendingFacts DEF Sending
<1>5. /\ R.t = w.t /\ R.id = w.id /\ R.v = w.v /\ R.by = By(Q[1])
      /\ P[1] = Q[1] /\ 1 \in DOMAIN Q
      /\ \A k \in DOMAIN Q : Q[k].id \in DOMAIN D[Q[k].t]
  BY <1>1, <1>2, <1>3, SentRecord
<1>6. /\ \A k \in DOMAIN Q : k \in DOMAIN P /\ P[k] = Q[k]
      /\ \A k \in DOMAIN P : k \in DOMAIN Q \/ (k \notin DOMAIN Q /\ P[k] = R)
      /\ \A j, k \in DOMAIN P : j \in DOMAIN Q \/ k \in DOMAIN Q \/ j = k
  BY <1>1, <1>2, <1>3, SentRecord
<1>7. ASSUME Visit(R)
      PROVE  w.t = "wi" /\ w.id \notin DOMAIN D["wi"]
  <2>1. w.t = "wi" /\ ~w.v.done /\ By(Q[1]) # <<"wi", w.id, "df3">>
    BY <1>5, <1>7 DEF Visit
  <2>2. SUFFICES ASSUME w.id \in DOMAIN D["wi"] PROVE FALSE
    BY <2>1
  <2>3. Q[1].t = "wi" /\ Q[1].id = w.id
    BY <2>1, <2>2, <1>1, <1>4 DEF ItemCarried
  <2>4. By(Q[1]) = <<"wi", w.id, "df3">>
    BY <2>3 DEF By, Script
  <2> QED
    BY <2>1, <2>4
<1>8. ASSUME NEW k \in DOMAIN Q, Visit(Q[k]), k # 1
      PROVE  NoOrder(E, Q[k].id)
  <2>1. NoOrder(D, Q[k].id) /\ (Visit(Q[1]) /\ Q[1].id = Q[k].id => k = 1)
    BY <1>5, <1>8 DEF VisitsOK
  <2>2. w.t = "wo" /\ w.id \notin DOMAIN D["wo"] => Visit(Q[1]) /\ Q[1].id = w.v.wi
    BY <1>1, <1>4 DEF OrderCarried
  <2>3. w.t = "wo" /\ w.id \notin DOMAIN D["wo"] => w.v.wi # Q[k].id
    BY <2>1, <2>2, <1>8
  <2> QED
    BY <2>1, <2>3, <1>4, NoOrderKept
<1>9. ASSUME NEW k \in DOMAIN P, Visit(P[k]), k \in DOMAIN Q
      PROVE  /\ k = 1 \/ NoOrder(E, P[k].id)
             /\ P[k].v.wol = <<>>
             /\ \A j \in DOMAIN P : Visit(P[j]) /\ P[j].id = P[k].id => j = k
  <2>1. P[k] = Q[k]
    BY <1>6, <1>9
  <2>2. (k = 1 \/ NoOrder(E, P[k].id)) /\ P[k].v.wol = <<>>
    BY <2>1, <1>8, <1>9 DEF VisitsOK
  <2>3. ASSUME NEW j \in DOMAIN P, Visit(P[j]), P[j].id = P[k].id
        PROVE  j = k
    <3>1. CASE j \in DOMAIN Q
      BY <3>1, <2>1, <2>3, <1>6, <1>9 DEF VisitsOK
    <3>2. CASE j \notin DOMAIN Q
      <4>1. P[j] = R
        BY <3>2, <1>6
      <4>2. w.id \notin DOMAIN D["wi"] /\ w.id = Q[k].id
        BY <4>1, <2>1, <2>3, <1>5, <1>7
      <4>3. Q[k].t = "wi"
        BY <2>1, <1>9 DEF Visit
      <4> QED
        BY <4>2, <4>3, <1>5, <1>9
    <3> QED
      BY <3>1, <3>2
  <2> QED
    BY <2>2, <2>3
<1>10. ASSUME NEW k \in DOMAIN P, Visit(P[k]), k \notin DOMAIN Q
       PROVE  /\ NoOrder(E, P[k].id)
              /\ P[k].v.wol = <<>>
              /\ \A j \in DOMAIN P : Visit(P[j]) /\ P[j].id = P[k].id => j = k
  <2>1. P[k] = R
    BY <1>6, <1>10
  <2>2. w.t = "wi" /\ w.id \notin DOMAIN D["wi"] /\ P[k].id = w.id
    BY <2>1, <1>5, <1>7, <1>10
  <2>6. P[k].v.wol = <<>>
    BY <2>1, <2>2, <1>1, <1>4, <1>5 DEF ItemCarried
  <2>3. \A o \in DOMAIN D["wo"] : E["wo"][o].wi = D["wo"][o].wi /\ D["wo"][o].wi \in DOMAIN D["wi"]
    BY <1>4, SameLinks
  <2>4. NoOrder(E, w.id)
    BY <2>2, <2>3, <1>4 DEF NoOrder, Wrote
  <2>5. ASSUME NEW j \in DOMAIN P, Visit(P[j]), P[j].id = P[k].id
        PROVE  j = k
    <3>1. CASE j \in DOMAIN Q
      <4>1. P[j] = Q[j] /\ Q[j].t = "wi" /\ Q[j].id = w.id
        BY <3>1, <2>2, <2>5, <1>6 DEF Visit
      <4> QED
        BY <4>1, <3>1, <2>2, <1>5
    <3>2. CASE j \notin DOMAIN Q
      BY <3>2, <1>6, <1>10
    <3> QED
      BY <3>1, <3>2
  <2> QED
    BY <2>2, <2>4, <2>5, <2>6
<1> QED
  BY <1>9, <1>10 DEF VisitsOK

\* What is steady stays so.
LEMMA SteadySent ==
  ASSUME NEW D, NEW E, NEW Q, NEW T, Sending(D, E, Q, T),
         NEW P, P = Append(Q, RecordOf(D, T[1], By(Q[1])))
  PROVE  SteadyOK(E, P)
<1>1. PICK w : w = T[1]
  OBVIOUS
<1>2. PICK R : R = RecordOf(D, w, By(Q[1]))
  OBVIOUS
<1>3. P = Append(Q, R)
  BY <1>1, <1>2
<1>4. /\ Wrote(D, E, w, "proc") /\ Wrote(D, E, w, "wi") /\ Wrote(D, E, w, "wo") /\ SteadyOK(D, Q)
      /\ DbOK(D) /\ Fits(D, w) /\ Stored(D, E, w) /\ (w.t = "wo" => OrderCarried(D, Q, T, 1))
      /\ (w.t = "wi" => ItemCarried(D, Q, T, 1)) /\ (w.t = "proc" => ProcCarried(D, Q, T, 1))
  BY <1>1, SendingFacts DEF Sending
<1>5. /\ R.t = w.t /\ R.id = w.id /\ R.v = w.v
      /\ \A k \in DOMAIN Q : Q[k].id \in DOMAIN D[Q[k].t]
  BY <1>1, <1>2, <1>3, SentRecord
<1>6. /\ \A k \in DOMAIN Q : k \in DOMAIN P /\ P[k] = Q[k]
      /\ \A k \in DOMAIN P : k \in DOMAIN Q \/ (k \notin DOMAIN Q /\ P[k] = R)
  BY <1>1, <1>2, <1>3, SentRecord
<1>7. ASSUME NEW p \in DOMAIN E["proc"], E["proc"][p].completed = "absent"
      PROVE  E["proc"][p].wil = <<>>
  <2>1. CASE w.t = "proc" /\ w.id = p
    BY <2>1, <1>1, <1>4, <1>7 DEF Wrote, ProcCarried
  <2>2. CASE ~(w.t = "proc" /\ w.id = p)
    BY <2>2, <1>4, <1>7 DEF Wrote, SteadyOK
  <2> QED
    BY <2>1, <2>2
<1>8. ASSUME NEW k \in DOMAIN Q, Q[k].t = "wi"
      PROVE  (~Q[k].v.done => Q[k].v.wil = <<>>) /\ Q[k].v.prev = E["wi"][Q[k].id].prev
  <2>1. PICK x : x = Q[k].id
    OBVIOUS
  <2>2. x \in DOMAIN D["wi"] /\ (~Q[k].v.done => Q[k].v.wil = <<>>) /\ Q[k].v.prev = D["wi"][x].prev
    BY <2>1, <1>4, <1>5, <1>8 DEF SteadyOK
  <2>3. E["wi"][x].prev = D["wi"][x].prev
    BY <2>2, <1>1, <1>4 DEF Wrote, ItemCarried
  <2> QED
    BY <2>1, <2>2, <2>3
<1>9. ASSUME NEW k \in DOMAIN Q, Q[k].t = "proc"
      PROVE  /\ Q[k].v.completed = "absent" => Q[k].v.wil = <<>>
             /\ E["proc"][Q[k].id].completed = "absent" => Q[k].v.completed = "absent"
             /\ Q[k].v.stopped =>
                  \/ E["proc"][Q[k].id].stopped \/ E["proc"][Q[k].id].completed = "true"
                  \/ E["proc"][Q[k].id].parent = 0 \/ Q[k].v.wil = <<>>
  <2>1. PICK p : p = Q[k].id
    OBVIOUS
  <2>2. /\ p \in DOMAIN D["proc"]
        /\ Q[k].v.completed = "absent" => Q[k].v.wil = <<>>
        /\ D["proc"][p].completed = "absent" => Q[k].v.completed = "absent"
        /\ Q[k].v.stopped =>
             \/ D["proc"][p].stopped \/ D["proc"][p].completed = "true"
             \/ D["proc"][p].parent = 0 \/ Q[k].v.wil = <<>>
    BY <2>1, <1>4, <1>5, <1>9 DEF SteadyOK
  <2>3. CASE w.t = "proc" /\ w.id = p
    <3>1. E["proc"][p] = w.v /\ w.v.parent = D["proc"][p].parent
      BY <2>2, <2>3, <1>4 DEF Wrote, Fits, Good, Same
    <3>2. Onward(D["proc"][p], w.v)
      BY <2>2, <2>3, <1>1, <1>4 DEF ProcCarried
    <3> QED
      BY <3>1, <3>2, <2>1, <2>2 DEF Onward
  <2>4. CASE ~(w.t = "proc" /\ w.id = p)
    <3>1. E["proc"][p] = D["proc"][p]
      BY <2>2, <2>4, <1>4 DEF Wrote
    <3> QED
      BY <3>1, <2>1, <2>2
  <2> QED
    BY <2>3, <2>4
<1>10. /\ R.t = "wi" => /\ ~R.v.done => R.v.wil = <<>>
                        /\ R.v.prev = E["wi"][R.id].prev
       /\ R.t = "proc" =>
            /\ R.v.completed = "absent" => R.v.wil = <<>>
            /\ E["proc"][R.id].completed = "absent" => R.v.completed = "absent"
            /\ R.v.stopped => E["proc"][R.id].stopped
  <2>1. w.t = "wi" => E["wi"][w.id] = w.v /\ (~w.v.done => w.v.wil = <<>>)
    BY <1>1, <1>4 DEF Wrote, ItemCarried
  <2>2. w.t = "proc" => E["proc"][w.id] = w.v /\ (w.v.completed = "absent" => w.v.wil = <<>>)
    BY <1>1, <1>4 DEF Wrote, ProcCarried
  <2> QED
    BY <2>1, <2>2, <1>5
<1>11. \A q : Sub(D, q) => Sub(E, q)
  BY <1>4, SubKept
<1>12. w.t = "wo" => Sub(D, w.v.sub)
  <2>1. \A j \in DOMAIN T : ~(j < 1)
    <3>1. DOMAIN T = 1 .. Len(T) /\ Len(T) \in Nat
      BY SendingFacts
    <3> QED
      BY <3>1
  <2> QED
    BY <2>1, <1>1, <1>4 DEF OrderCarried
<1>13. \A k \in DOMAIN Q : Q[k].t = "wo" => Sub(E, Q[k].v.sub)
  BY <1>4, <1>11 DEF SteadyOK
<1>14. R.t = "wo" => Sub(E, R.v.sub)
  BY <1>5, <1>11, <1>12
<1>15. Subs(E)
  <2>1. \A o \in DOMAIN D["wo"] : Sub(E, D["wo"][o].sub)
    BY <1>4, <1>11 DEF SteadyOK, Subs
  <2> QED
    BY <2>1, <1>4, <1>11, <1>12 DEF Subs, Wrote
<1> QED
  BY <1>6, <1>7, <1>8, <1>9, <1>10, <1>13, <1>14, <1>15 DEF SteadyOK

\* A process that a work item has is begun, or will be.
Begun(D, T, p) ==
  \/ D["proc"][p].completed # "absent"
  \/ \E k \in DOMAIN T : T[k].t = "proc" /\ T[k].id = p /\ T[k].v.completed # "absent"

\* A process begins once.
LEMMA BegunSent ==
  ASSUME NEW D, NEW E, NEW Q, NEW T, Sending(D, E, Q, T), BegunOK(D, Q, T, TRUE),
         NEW P, P = Append(Q, RecordOf(D, T[1], By(Q[1])))
  PROVE  BegunOK(E, P, Tail(T), TRUE)
<1>1. PICK w : w = T[1]
  OBVIOUS
<1>2. PICK R : R = RecordOf(D, w, By(Q[1]))
  OBVIOUS
<1>3. P = Append(Q, R)
  BY <1>1, <1>2
<1>4. /\ T \in Seq(Write) /\ 1 \in DOMAIN T /\ T # <<>> /\ DbOK(D) /\ Fits(D, w) /\ Stored(D, E, w)
      /\ Wrote(D, E, w, "proc") /\ Wrote(D, E, w, "wi")
      /\ (w.t = "wi" => ItemCarried(D, Q, T, 1)) /\ (w.t = "proc" => ProcCarried(D, Q, T, 1))
  BY <1>1, SendingFacts DEF Sending
<1>5. /\ R.t = w.t /\ R.id = w.id /\ R.v = w.v /\ R.by = By(Q[1]) /\ 1 \in DOMAIN Q
      /\ \A k \in DOMAIN Q : Q[k].id \in DOMAIN D[Q[k].t]
  BY <1>1, <1>2, <1>3, SentRecord
<1>6. /\ \A k \in DOMAIN Q : k \in DOMAIN P /\ P[k] = Q[k]
      /\ \A k \in DOMAIN P : k \in DOMAIN Q \/ (k \notin DOMAIN Q /\ P[k] = R)
      /\ \A j, k \in DOMAIN P : j \in DOMAIN Q \/ k \in DOMAIN Q \/ j = k
  BY <1>1, <1>2, <1>3, SentRecord
<1>7. /\ \A k \in DOMAIN Q : Begins(Q[k]) /\ k # 1 => D["proc"][Q[k].id].completed = "absent"
      /\ \A j, k \in DOMAIN Q : Begins(Q[j]) /\ Begins(Q[k]) /\ Q[j].id = Q[k].id => j = k
      /\ \A x \in DOMAIN D["wi"] : Begun(D, T, D["wi"][x].proc)
  BY DEF BegunOK, Begun
<1>8. \A k \in DOMAIN Q : Begins(Q[k]) => Q[k].id \in DOMAIN D["proc"]
  BY <1>5 DEF Begins, Opens
<1>9. ASSUME Begins(R)
      PROVE  w.t = "proc" /\ w.id \notin DOMAIN D["proc"] /\ w.v.completed = "absent"
  <2>1. w.t = "proc" /\ ~w.v.stopped /\ w.v.completed = "absent" /\ By(Q[1]) # <<"proc", w.id, "df2">>
    BY <1>5, <1>9 DEF Begins, Opens
  <2>2. SUFFICES ASSUME w.id \in DOMAIN D["proc"] PROVE FALSE
    BY <2>1
  <2>3. Begins(Q[1]) /\ Q[1].id = w.id
    BY <2>1, <2>2, <1>1, <1>4 DEF ProcCarried, Beginning
  <2>4. By(Q[1]) = <<"proc", w.id, "df2">>
    BY <2>3 DEF Begins, Opens, By, Script
  <2> QED
    BY <2>1, <2>4
<1>10. ASSUME NEW k \in DOMAIN Q, Begins(Q[k]), k # 1
       PROVE  E["proc"][Q[k].id].completed = "absent"
  <2>1. PICK p : p = Q[k].id
    OBVIOUS
  <2>2. p \in DOMAIN D["proc"] /\ D["proc"][p].completed = "absent"
    BY <2>1, <1>7, <1>8, <1>10
  <2>3. CASE w.t = "proc" /\ w.id = p
    <3>1. E["proc"][p] = w.v
      BY <2>2, <2>3, <1>4 DEF Wrote
    <3>2. w.v.completed # "absent" => Beginning(Q, p)
      BY <2>2, <2>3, <1>1, <1>4 DEF ProcCarried
    <3>3. ~Beginning(Q, p)
      BY <2>1, <1>5, <1>7, <1>10 DEF Beginning
    <3> QED
      BY <3>1, <3>2, <3>3, <2>1
  <2>4. CASE ~(w.t = "proc" /\ w.id = p)
    BY <2>1, <2>2, <2>4, <1>4 DEF Wrote
  <2> QED
    BY <2>3, <2>4
<1>11. ASSUME NEW k \in DOMAIN P, Begins(P[k])
       PROVE  k = 1 \/ E["proc"][P[k].id].completed = "absent"
  <2>1. CASE k \in DOMAIN Q
    BY <2>1, <1>6, <1>10, <1>11
  <2>2. CASE k \notin DOMAIN Q
    <3>1. P[k] = R
      BY <2>2, <1>6
    <3> QED
      BY <3>1, <1>4, <1>5, <1>9, <1>11 DEF Wrote
  <2> QED
    BY <2>1, <2>2
<1>12. ASSUME NEW j \in DOMAIN P, NEW k \in DOMAIN P, Begins(P[j]), Begins(P[k]), P[j].id = P[k].id,
              j \notin DOMAIN Q, k \in DOMAIN Q
       PROVE  j = k
  <2>1. P[j] = R /\ P[k] = Q[k]
    BY <1>6, <1>12
  <2> QED
    BY <2>1, <1>5, <1>8, <1>9, <1>12
<1>13. ASSUME NEW j \in DOMAIN P, NEW k \in DOMAIN P, Begins(P[j]), Begins(P[k]), P[j].id = P[k].id
       PROVE  j = k
  <2>1. CASE j \in DOMAIN Q /\ k \in DOMAIN Q
    BY <2>1, <1>6, <1>7, <1>13
  <2>2. CASE j \notin DOMAIN Q /\ k \in DOMAIN Q
    BY <2>2, <1>12, <1>13
  <2>3. CASE k \notin DOMAIN Q /\ j \in DOMAIN Q
    <3>1. Begins(P[k]) /\ Begins(P[j]) /\ P[k].id = P[j].id
      BY <1>13
    <3>2. k = j
      BY <3>1, <2>3, <1>12
    <3> QED
      BY <3>2
  <2>4. CASE j \notin DOMAIN Q /\ k \notin DOMAIN Q
    BY <2>4, <1>6
  <2> QED
    BY <2>1, <2>2, <2>3, <2>4
<1>14. PICK U : U = Tail(T)
  OBVIOUS
<1>15. \A j \in DOMAIN T : j = 1 \/ \E i \in DOMAIN U : j = i + 1 /\ U[i] = T[j]
  <2>1. T \in Seq(Write) /\ T # <<>>
    BY <1>4
  <2>2. \A j \in DOMAIN T : j = 1 \/ \E i \in DOMAIN Tail(T) : j = i + 1 /\ Tail(T)[i] = T[j]
    BY <2>1, Later
  <2> QED
    BY <2>2, <1>14
<1>16. ASSUME NEW p \in DOMAIN D["proc"], Begun(D, T, p)
       PROVE  Begun(E, U, p)
  <2>1. CASE D["proc"][p].completed # "absent"
    <3>1. E["proc"][p].completed # "absent"
      <4>1. CASE w.t = "proc" /\ w.id = p
        <5>1. E["proc"][p] = w.v /\ Onward(D["proc"][p], w.v)
          BY <4>1, <1>1, <1>4 DEF Wrote, ProcCarried
        <5> QED
          BY <5>1, <2>1 DEF Onward
      <4>2. CASE ~(w.t = "proc" /\ w.id = p)
        BY <4>2, <2>1, <1>4 DEF Wrote
      <4> QED
        BY <4>1, <4>2
    <3> QED
      BY <3>1 DEF Begun
  <2>2. CASE \E k \in DOMAIN T : T[k].t = "proc" /\ T[k].id = p /\ T[k].v.completed # "absent"
    <3>1. PICK k \in DOMAIN T : T[k].t = "proc" /\ T[k].id = p /\ T[k].v.completed # "absent"
      BY <2>2
    <3>2. CASE k = 1
      BY <3>1, <3>2, <1>1, <1>4 DEF Wrote, Begun
    <3>3. CASE k # 1
      BY <3>1, <3>3, <1>15 DEF Begun
    <3> QED
      BY <3>2, <3>3
  <2> QED
    BY <2>1, <2>2, <1>16 DEF Begun
<1>17. \A x \in DOMAIN D["wi"] : /\ E["wi"][x].proc = D["wi"][x].proc
                                 /\ D["wi"][x].proc \in DOMAIN D["proc"]
  BY <1>4, SameLinks
<1>18. ASSUME NEW x \in DOMAIN E["wi"]
       PROVE  Begun(E, U, E["wi"][x].proc)
  <2>1. CASE x \in DOMAIN D["wi"]
    BY <2>1, <1>7, <1>16, <1>17
  <2>2. CASE x \notin DOMAIN D["wi"]
    <3>1. w.t = "wi" /\ w.id = x /\ E["wi"][x] = w.v
      BY <2>2, <1>4 DEF Wrote
    <3>2. CASE w.v.prev = 0
      <4>1. PICK j \in DOMAIN T : 1 < j /\ T[j].t = "proc" /\ T[j].id = w.v.proc /\ x \in ToSet(T[j].v.wil)
        BY <3>1, <3>2, <2>2, <1>1, <1>4 DEF ItemCarried
      <4>2. ProcCarried(D, Q, T, j)
        BY <4>1 DEF Sending, ProcsOK
      <4>3. T[j].v.completed # "absent"
        <5>1. ToSet(<<>>) = {}
          BY DEF ToSet
        <5> QED
          BY <5>1, <4>1, <4>2 DEF ProcCarried
      <4>4. j # 1
        BY <4>1
      <4> QED
        BY <4>1, <4>3, <4>4, <3>1, <1>15 DEF Begun
    <3>3. CASE w.v.prev # 0
      <4>1. w.v.prev \in DOMAIN D["wi"] /\ D["wi"][w.v.prev].proc = w.v.proc
        BY <3>1, <3>3, <1>1, <1>4 DEF ItemCarried, After
      <4> QED
        BY <4>1, <3>1, <1>7, <1>16, <1>17
    <3> QED
      BY <3>2, <3>3
  <2> QED
    BY <2>1, <2>2
<1>19. BegunOK(E, P, U, TRUE)
  BY <1>11, <1>13, <1>18 DEF BegunOK, Begun
<1> QED
  BY <1>14, <1>19

\* The record of what is sent to a form has a source.
LEMMA SourceCarried ==
  ASSUME NEW D, NEW E, NEW Q, NEW T, Sending(D, E, Q, T), NEW R, R = RecordOf(D, T[1], By(Q[1]))
  PROVE  SourceOK(R)
<1>1. PICK w : w = T[1]
  OBVIOUS
<1>2. /\ R.t = w.t /\ R.id = w.id /\ R.v = w.v /\ R.by = By(Q[1])
      /\ w.id \notin DOMAIN D[w.t] => R.was = w.v
  <2>1. PICK P : P = Append(Q, R)
    OBVIOUS
  <2>2. R = RecordOf(D, w, By(Q[1]))
    BY <1>1
  <2> QED
    BY <2>1, <2>2, <1>1, SentRecord
<1>3. w.t = "df" => FormCarried(D, Q, T, 1)
  BY <1>1, SendingFacts
<1>4. Q[1].t = "df" => By(Q[1]) = <<"df", Q[1].id, "df5">>
  BY DEF By, Script
<1> QED
  BY <1>1, <1>2, <1>3, <1>4 DEF FormCarried, SourceOK

\* Where an element was before the first one was taken.
LEMMA ShiftBack ==
  ASSUME NEW T \in Seq(Write), T # <<>>, NEW j \in DOMAIN T, j # 1
  PROVE  \E i \in DOMAIN Tail(T) : j = i + 1 /\ Tail(T)[i] = T[j]
<1>1. /\ DOMAIN T = 1 .. Len(T) /\ Len(T) \in Nat /\ DOMAIN Tail(T) = 1 .. (Len(T) - 1)
      /\ \A k \in DOMAIN Tail(T) : Tail(T)[k] = T[k + 1]
  BY TailFacts
<1>2. j - 1 \in DOMAIN Tail(T) /\ j = (j - 1) + 1
  BY <1>1
<1>3. Tail(T)[j - 1] = T[(j - 1) + 1]
  BY <1>1, <1>2
<1> QED
  BY <1>2, <1>3

\* A form that will show a decision still will.
LEMMA SettledSent ==
  ASSUME NEW D, NEW E, NEW Q, NEW T, Sending(D, E, Q, T), NEW f \in DOMAIN D["df"],
         Settled(D, Q, T, TRUE, f), NEW P, P = Append(Q, RecordOf(D, T[1], By(Q[1]))),
         NEW U, U = Tail(T)
  PROVE  Settled(E, P, U, TRUE, f)
<1>1. PICK w : w = T[1]
  OBVIOUS
<1>2. PICK R : R = RecordOf(D, w, By(Q[1]))
  OBVIOUS
<1>3. P = Append(Q, R)
  BY <1>1, <1>2
<1>4. \A k \in DOMAIN Q : k \in DOMAIN P /\ P[k] = Q[k]
  BY <1>1, <1>2, <1>3, SentRecord
<1>5. T \in Seq(Write) /\ T # <<>> /\ 1 \in DOMAIN T /\ Wrote(D, E, w, "df")
  BY <1>1, SendingFacts DEF Sending
<1>6. \A j \in DOMAIN U : j + 1 \in DOMAIN T /\ U[j] = T[j + 1] /\ 1 < j + 1
  <2>1. T \in Seq(Write) /\ T # <<>>
    BY <1>5
  <2> QED
    BY <2>1, Shifts
<1>7. \A j \in DOMAIN T : j = 1 \/ \E i \in DOMAIN U : j = i + 1 /\ U[i] = T[j]
  <2>1. T \in Seq(Write) /\ T # <<>>
    BY <1>5
  <2> QED
    BY <2>1, ShiftBack
<1>8. \A i, j \in DOMAIN U : i < j <=> i + 1 < j + 1
  <2>1. T \in Seq(Write) /\ T # <<>>
    BY <1>5
  <2> QED
    BY <2>1, Shifts
<1>9. CASE Undoing(Q, TRUE, f)
  <2>1. Undoing(P, TRUE, f)
    BY <1>4, <1>9 DEF Undoing
  <2> QED
    BY <2>1 DEF Settled
<1>10. CASE \E k \in DOMAIN T : /\ PutOf(T, k, f) /\ Safe(T[k].v)
                                /\ \A j \in DOMAIN T : k < j /\ PutOf(T, j, f) => Safe(T[j].v)
  <2>1. PICK k \in DOMAIN T : /\ PutOf(T, k, f) /\ Safe(T[k].v)
                              /\ \A j \in DOMAIN T : k < j /\ PutOf(T, j, f) => Safe(T[j].v)
    BY <1>10
  <2>2. CASE k = 1
    <3>1. E["df"][f] = T[k].v
      BY <2>1, <2>2, <1>1, <1>5 DEF Wrote, PutOf
    <3>2. \A j \in DOMAIN U : PutOf(U, j, f) => Safe(U[j].v)
      BY <2>1, <2>2, <1>6 DEF PutOf
    <3> QED
      BY <3>1, <3>2, <2>1 DEF Settled
  <2>3. CASE k # 1
    <3>1. PICK i \in DOMAIN U : k = i + 1 /\ U[i] = T[k]
      BY <2>3, <1>7
    <3>2. PutOf(U, i, f) /\ Safe(U[i].v)
      BY <3>1, <2>1 DEF PutOf
    <3>3. \A j \in DOMAIN U : i < j /\ PutOf(U, j, f) => Safe(U[j].v)
      BY <3>1, <2>1, <1>6, <1>8 DEF PutOf
    <3> QED
      BY <3>2, <3>3 DEF Settled
  <2> QED
    BY <2>2, <2>3
<1>11. CASE Safe(D["df"][f]) /\ \A k \in DOMAIN T : PutOf(T, k, f) => Safe(T[k].v)
  <2>1. Safe(E["df"][f])
    BY <1>1, <1>5, <1>11 DEF Wrote, PutOf
  <2>2. \A j \in DOMAIN U : PutOf(U, j, f) => Safe(U[j].v)
    BY <1>6, <1>11 DEF PutOf
  <2> QED
    BY <2>1, <2>2 DEF Settled
<1> QED
  BY <1>9, <1>10, <1>11 DEF Settled

\* Every form shows a decision, or no user has written it.
LEMMA WrittenSent ==
  ASSUME NEW D, NEW E, NEW Q, NEW T, Sending(D, E, Q, T), WrittenOK(D, Q, T, TRUE),
         NEW P, P = Append(Q, RecordOf(D, T[1], By(Q[1]))), NEW U, U = Tail(T)
  PROVE  WrittenOK(E, P, U, TRUE)
<1>1. PICK w : w = T[1]
  OBVIOUS
<1>2. PICK R : R = RecordOf(D, w, By(Q[1]))
  OBVIOUS
<1>3. P = Append(Q, R)
  BY <1>1, <1>2
<1>4. /\ R.by # User
      /\ \A k \in DOMAIN P : k \in DOMAIN Q \/ (k \notin DOMAIN Q /\ P[k] = R)
      /\ \A k \in DOMAIN Q : k \in DOMAIN P /\ P[k] = Q[k] /\ Q[k].id \in DOMAIN D[Q[k].t]
      /\ 1 \in DOMAIN Q
  BY <1>1, <1>2, <1>3, SentRecord
<1>5. /\ T \in Seq(Write) /\ T # <<>> /\ 1 \in DOMAIN T /\ Wrote(D, E, w, "df")
      /\ (w.t = "df" => FormCarried(D, Q, T, 1))
      /\ \A k \in DOMAIN T : k # 1 /\ T[k].id \in DOMAIN E[T[k].t] => T[k].id \in DOMAIN D[T[k].t]
  BY <1>1, SendingFacts DEF Sending
<1>6. \A j \in DOMAIN U : j + 1 \in DOMAIN T /\ U[j] = T[j + 1] /\ j + 1 # 1
  <2>1. T \in Seq(Write) /\ T # <<>>
    BY <1>5
  <2> QED
    BY <2>1, Shifts
<1>7. ASSUME NEW f \in DOMAIN D["df"], Untold(D, Q, T, f)
      PROVE  Untold(E, P, U, f) \/ Settled(E, P, U, TRUE, f)
  <2>1. CASE PutOf(T, 1, f)
    <3>1. \A k \in DOMAIN T : PutOf(T, k, f) => T[k].v.deleted
      BY <1>7 DEF Untold, FormPut, PutOf
    <3>2. E["df"][f] = T[1].v
      BY <2>1, <1>1, <1>5 DEF Wrote, PutOf
    <3>3. Safe(E["df"][f])
      BY <3>1, <3>2, <2>1, <1>5 DEF Safe
    <3>4. \A j \in DOMAIN U : PutOf(U, j, f) => Safe(U[j].v)
      BY <3>1, <1>6 DEF PutOf, Safe
    <3> QED
      BY <3>3, <3>4 DEF Settled
  <2>2. CASE ~PutOf(T, 1, f)
    <3>1. E["df"][f] = D["df"][f]
      BY <2>2, <1>1, <1>5 DEF Wrote, PutOf
    <3>2. \A k \in DOMAIN P : ~UserForm(P[k], f)
      BY <1>4, <1>7 DEF Untold, UserForm
    <3>3. \A k \in DOMAIN U : ~FormPut(U, k, f)
      BY <1>6, <1>7 DEF Untold, FormPut
    <3> QED
      BY <3>1, <3>2, <3>3, <1>7 DEF Untold
  <2> QED
    BY <2>1, <2>2
<1>8. ASSUME NEW f \in DOMAIN E["df"], f \notin DOMAIN D["df"]
      PROVE  Untold(E, P, U, f) \/ Settled(E, P, U, TRUE, f)
  <2>1. w.t = "df" /\ w.id = f /\ E["df"][f] = w.v
    BY <1>5, <1>8 DEF Wrote
  <2>2. \A j \in DOMAIN U : ~PutOf(U, j, f)
    BY <1>5, <1>6, <1>8 DEF PutOf
  <2>3. ~w.v.done /\ (w.v.taken = 0 \/ w.v.deleted \/ (Q[1].t = "df" /\ Q[1].id = f))
    BY <2>1, <1>1, <1>5, <1>8 DEF FormCarried
  <2>4. ~(Q[1].t = "df" /\ Q[1].id = f)
    BY <1>4, <1>8
  <2>5. CASE w.v.deleted
    BY <2>1, <2>2, <2>5 DEF Settled, Safe
  <2>6. CASE w.v.taken = 0
    <3>1. \A k \in DOMAIN P : ~UserForm(P[k], f)
      BY <1>4, <1>8 DEF UserForm
    <3>2. \A k \in DOMAIN U : ~FormPut(U, k, f)
      BY <2>2 DEF PutOf, FormPut
    <3> QED
      BY <3>1, <3>2, <2>1, <2>3, <2>6 DEF Untold
  <2> QED
    BY <2>3, <2>4, <2>5, <2>6
<1>9. ASSUME NEW f \in DOMAIN D["df"], Settled(D, Q, T, TRUE, f)
      PROVE  Settled(E, P, U, TRUE, f)
  BY <1>9, SettledSent
<1> QED
  BY <1>7, <1>8, <1>9 DEF WrittenOK

\* A work item that is in the list before is there when it is sent, or was.
LEMMA KeptSent ==
  ASSUME NEW D, NEW E, NEW Q, NEW T, Sending(D, E, Q, T), TreeOK(D, T),
         NEW U, U = Tail(T), Kept(E, U)
  PROVE  Kept(D, T)
<1>1. PICK w : w = T[1]
  OBVIOUS
<1>2. /\ T \in Seq(Write) /\ T # <<>> /\ 1 \in DOMAIN T /\ Wrote(D, E, w, "wi")
      /\ (w.t = "wi" => ItemCarried(D, Q, T, 1))
  BY <1>1, SendingFacts DEF Sending
<1>3. \A j \in DOMAIN U : j + 1 \in DOMAIN T /\ U[j] = T[j + 1]
  <2>1. T \in Seq(Write) /\ T # <<>>
    BY <1>2
  <2> QED
    BY <2>1, Shifts
<1>4. ASSUME NEW x \in DOMAIN D["wi"], D["wi"][x].prev # 0
      PROVE  Follows(D, T, D["wi"][x].prev, x)
  <2>1. PICK v : v = D["wi"][x].prev
    OBVIOUS
  <2>2. x \in DOMAIN E["wi"] /\ E["wi"][x].prev = v
    BY <2>1, <1>1, <1>2 DEF Wrote, ItemCarried
  <2>3. v \in DOMAIN D["wi"]
    BY <2>1, <1>4 DEF TreeOK, After
  <2>4. Follows(E, U, v, x)
    BY <2>1, <2>2, <1>4 DEF Kept
  <2>5. CASE x \in ToSet(E["wi"][v].wil)
    BY <2>1, <2>3, <2>5, <1>1, <1>2 DEF Wrote, Follows
  <2>6. CASE \E k \in DOMAIN U : U[k].t = "wi" /\ U[k].id = v /\ x \in ToSet(U[k].v.wil)
    BY <2>1, <2>6, <1>3 DEF Follows
  <2> QED
    BY <2>4, <2>5, <2>6 DEF Follows
<1> QED
  BY <1>4 DEF Kept

\* The record of a stop is there when the process is stopped, and stays.
LEMMA DueSent ==
  ASSUME NEW D, NEW E, NEW Q, NEW T, Sending(D, E, Q, T), NEW p \in DOMAIN D["proc"],
         E["proc"][p].stopped, D["proc"][p].stopped => StopDue(D, Q, TRUE, p),
         NEW P, P = Append(Q, RecordOf(D, T[1], By(Q[1])))
  PROVE  StopDue(E, P, TRUE, p)
<1>1. PICK w : w = T[1]
  OBVIOUS
<1>2. PICK R : R = RecordOf(D, w, By(Q[1]))
  OBVIOUS
<1>3. P = Append(Q, R)
  BY <1>1, <1>2
<1>4. /\ R.t = w.t /\ R.id = w.id /\ R.v = w.v /\ R.by = By(Q[1])
      /\ w.id \in DOMAIN D[w.t] => R.was = D[w.t][w.id]
  BY <1>1, <1>2, <1>3, SentRecord
<1>5. /\ \A k \in DOMAIN Q : k \in DOMAIN P /\ P[k] = Q[k]
      /\ \E n \in DOMAIN P : P[n] = R /\ n # 1
  BY <1>1, <1>2, <1>3, SentRecord
<1>6. CASE D["proc"][p].stopped
  <2>1. PICK k \in DOMAIN Q : /\ StopRecord(Q[k]) /\ Q[k].id = p /\ ~Q[k].was.stopped
                              /\ Q[k].by # <<"proc", p, "stop">> /\ Q[k].v.wil = D["proc"][p].wil
                              /\ ~(k = 1 /\ TRUE)
    BY <1>6 DEF StopDue
  <2>2. E["proc"][p].wil = D["proc"][p].wil
    BY ListSent
  <2>3. k \in DOMAIN P /\ P[k] = Q[k]
    BY <1>5
  <2> QED
    BY <2>1, <2>2, <2>3 DEF StopDue
<1>7. CASE ~D["proc"][p].stopped
  <2>1. Wrote(D, E, w, "proc") /\ (w.t = "proc" => ProcCarried(D, Q, T, 1))
    BY <1>1, SendingFacts
  <2>2. w.t = "proc" /\ w.id = p /\ E["proc"][p] = w.v
    BY <2>1, <1>7 DEF Wrote
  <2>3. By(Q[1]) # <<"proc", p, "stop">>
    <3>1. SUFFICES ASSUME By(Q[1]) = <<"proc", p, "stop">> PROVE FALSE
      OBVIOUS
    <3>2. Q[1].t = "proc" /\ Q[1].id = p /\ Script(Q[1]) = "stop"
      BY <3>1 DEF By
    <3>3. StopRecord(Q[1])
      BY <3>2 DEF Script, StopRecord
    <3> QED
      BY <3>2, <3>3, <2>1, <2>2, <1>1, <1>7 DEF ProcCarried
  <2>4. PICK n \in DOMAIN P : P[n] = R /\ n # 1
    BY <1>5
  <2>5. StopRecord(R) /\ R.id = p /\ ~R.was.stopped /\ R.v.wil = E["proc"][p].wil
    BY <2>2, <1>4, <1>7 DEF StopRecord
  <2> QED
    BY <2>3, <2>4, <2>5, <1>4 DEF StopDue
<1> QED
  BY <1>6, <1>7

\* The forms of a stopped process are settled, or its stop is still to be handled.
LEMMA EndsSent ==
  ASSUME NEW D, NEW E, NEW Q, NEW T, Sending(D, E, Q, T), TreeOK(D, T), EndsOK(D, Q, T, TRUE),
         NEW P, P = Append(Q, RecordOf(D, T[1], By(Q[1]))), NEW U, U = Tail(T)
  PROVE  EndsOK(E, P, U, TRUE)
<1>1. PICK w : w = T[1]
  OBVIOUS
<1>2. /\ DbOK(D) /\ TodoOK(D, T) /\ T \in Seq(Write) /\ T # <<>> /\ 1 \in DOMAIN T
      /\ Fits(D, w) /\ Stored(D, E, w) /\ Wrote(D, E, w, "proc") /\ Wrote(D, E, w, "df")
      /\ \A k \in DOMAIN T : k # 1 /\ T[k].id \in DOMAIN E[T[k].t] => T[k].id \in DOMAIN D[T[k].t]
  BY <1>1, SendingFacts DEF Sending
<1>3. \A j \in DOMAIN U : j + 1 \in DOMAIN T /\ U[j] = T[j + 1] /\ j + 1 # 1
  <2>1. T \in Seq(Write) /\ T # <<>>
    BY <1>2
  <2> QED
    BY <2>1, Shifts
<1>4. /\ \A o \in DOMAIN D["wo"] : HomeOf(E, o) = HomeOf(D, o) /\ HomeOf(D, o) \in DOMAIN D["proc"]
      /\ \A f \in DOMAIN D["df"] : E["df"][f].wo = D["df"][f].wo /\ D["df"][f].wo \in DOMAIN D["wo"]
  BY <1>2, SameLinks
<1>5. ASSUME NEW p \in DOMAIN D["proc"], E["proc"][p].stopped,
             D["proc"][p].stopped => StopDue(D, Q, TRUE, p)
      PROVE  StopDue(E, P, TRUE, p)
  BY <1>5, DueSent
<1>6. ASSUME NEW f \in DOMAIN D["df"], E["proc"][HomeOf(E, E["df"][f].wo)].stopped
      PROVE  \/ StopDue(E, P, TRUE, HomeOf(E, E["df"][f].wo))
             \/ Kept(E, U) => Settled(E, P, U, TRUE, f)
  <2>1. PICK p : p = HomeOf(D, D["df"][f].wo)
    OBVIOUS
  <2>2. HomeOf(E, E["df"][f].wo) = p /\ p \in DOMAIN D["proc"]
    BY <2>1, <1>4
  <2>3. CASE D["proc"][p].stopped => StopDue(D, Q, TRUE, p)
    BY <2>2, <2>3, <1>5, <1>6
  <2>4. CASE Kept(D, T) => Settled(D, Q, T, TRUE, f)
    <3>1. Kept(E, U) => Kept(D, T)
      BY KeptSent
    <3>2. Settled(D, Q, T, TRUE, f) => Settled(E, P, U, TRUE, f)
      BY SettledSent
    <3> QED
      BY <3>1, <3>2, <2>4
  <2> QED
    BY <2>1, <2>3, <2>4 DEF EndsOK
<1>7. ASSUME NEW k \in DOMAIN T, T[k].t = "df", T[k].id \notin DOMAIN D["df"],
             E["proc"][HomeOf(E, T[k].v.wo)].stopped
      PROVE  StopDue(E, P, TRUE, HomeOf(E, T[k].v.wo))
  <2>1. T[k].v.wo \in DOMAIN D["wo"]
    BY <1>2, <1>7 DEF TodoOK, Good, Linked
  <2>2. PICK p : p = HomeOf(D, T[k].v.wo)
    OBVIOUS
  <2>3. HomeOf(E, T[k].v.wo) = p /\ p \in DOMAIN D["proc"]
    BY <2>1, <2>2, <1>4
  <2>4. D["proc"][p].stopped => StopDue(D, Q, TRUE, p)
    BY <2>2, <1>7 DEF EndsOK
  <2> QED
    BY <2>3, <2>4, <1>5, <1>7
<1>8. ASSUME NEW f \in DOMAIN E["df"], f \notin DOMAIN D["df"],
             E["proc"][HomeOf(E, E["df"][f].wo)].stopped
      PROVE  StopDue(E, P, TRUE, HomeOf(E, E["df"][f].wo))
  <2>1. T[1].t = "df" /\ T[1].id = f /\ E["df"][f] = T[1].v
    BY <1>1, <1>2, <1>8 DEF Wrote
  <2> QED
    BY <2>1, <1>2, <1>7, <1>8
<1>9. ASSUME NEW k \in DOMAIN U, U[k].t = "df", U[k].id \notin DOMAIN E["df"],
             E["proc"][HomeOf(E, U[k].v.wo)].stopped
      PROVE  StopDue(E, P, TRUE, HomeOf(E, U[k].v.wo))
  <2>1. PICK j \in DOMAIN T : U[k] = T[j]
    BY <1>3
  <2>2. T[j].id \notin DOMAIN D["df"]
    BY <2>1, <1>2, <1>9 DEF Wrote
  <2> QED
    BY <2>1, <2>2, <1>7, <1>9
<1> QED
  BY <1>6, <1>8, <1>9 DEF EndsOK

\* All of it, for the individuals D, the records Q and what is to be sent, T.
StopOK(D, Q, T, hand) ==
  /\ TreeOK(D, T) /\ BegunOK(D, Q, T, hand) /\ VisitsOK(D, Q, hand) /\ SteadyOK(D, Q)
  /\ CarriedOK(D, Q, T) /\ ProcsOK(D, Q, T)
  /\ \A k \in DOMAIN Q : SourceOK(Q[k])
  /\ WrittenOK(D, Q, T, hand) /\ EndsOK(D, Q, T, hand)

\* The first write is sent.
LEMMA StopSent ==
  ASSUME NEW D, NEW E, NEW Q, NEW T, Sending(D, E, Q, T), StopOK(D, Q, T, TRUE),
         NEW P, P = Append(Q, RecordOf(D, T[1], By(Q[1])))
  PROVE  StopOK(E, P, Tail(T), TRUE)
<1>1. PICK U : U = Tail(T)
  OBVIOUS
<1>2. PICK R : R = RecordOf(D, T[1], By(Q[1]))
  OBVIOUS
<1>3. PICK w : w = T[1]
  OBVIOUS
<1>4. /\ P[1] = Q[1]
      /\ \A k \in DOMAIN P : k \in DOMAIN Q \/ (k \notin DOMAIN Q /\ P[k] = R)
      /\ \A k \in DOMAIN Q : P[k] = Q[k]
  <2>1. R = RecordOf(D, w, By(Q[1])) /\ P = Append(Q, R)
    BY <1>2, <1>3
  <2> QED
    BY <2>1, <1>3, SentRecord
<1>5. SourceOK(R)
  BY <1>2, SourceCarried
<1>6. \A k \in DOMAIN P : SourceOK(P[k])
  BY <1>4, <1>5 DEF StopOK
<1>7. TreeOK(E, U) /\ CarriedOK(E, P, U) /\ ProcsOK(E, P, U)
  BY <1>1, <1>4, TreeSent, CarriedSent DEF StopOK
<1>8. VisitsOK(E, P, TRUE) /\ SteadyOK(E, P) /\ BegunOK(E, P, U, TRUE)
  BY <1>1, VisitsSent, SteadySent, BegunSent DEF StopOK
<1>9. WrittenOK(E, P, U, TRUE)
  BY <1>1, WrittenSent DEF StopOK
<1>10. EndsOK(E, P, U, TRUE)
  BY <1>1, EndsSent DEF StopOK
<1> QED
  BY <1>1, <1>6, <1>7, <1>8, <1>9, <1>10 DEF StopOK

-----------------------------------------------------------------------------
(***************************************************************************)
(* What users write.                                                       *)
(***************************************************************************)

\* A user changes a decision, and leaves the list of a process as it is.
UserWrite(D, w) ==
  /\ ByUser(D, w)
  /\ w.t = "proc" => w.v.wil = D["proc"][w.id].wil
  /\ w.t = "df" => w.v.taken # D["df"][w.id].taken
UserSending(D, E, Q, T, hand, w) ==
  /\ DbOK(D) /\ QueueOK(D, Q) /\ TodoOK(D, T)
  /\ T # <<>> => Q # <<>>
  /\ hand => Q # <<>>
  /\ UserWrite(D, w) /\ Stored(D, E, w)

\* What the write and its record change.
LEMMA UserSame ==
  ASSUME NEW D, NEW E, NEW Q, NEW T, NEW hand, NEW w, UserSending(D, E, Q, T, hand, w)
  PROVE  /\ DbOK(D) /\ QueueOK(D, Q) /\ Fits(D, w) /\ Stored(D, E, w) /\ w.t \in {"form", "df", "proc"}
         /\ DOMAIN E["proc"] = DOMAIN D["proc"] /\ DOMAIN E["wi"] = DOMAIN D["wi"]
         /\ DOMAIN E["wo"] = DOMAIN D["wo"] /\ DOMAIN E["df"] = DOMAIN D["df"]
         /\ \A i \in DOMAIN D["wi"] : E["wi"][i] = D["wi"][i]
         /\ \A i \in DOMAIN D["wo"] : E["wo"][i] = D["wo"][i]
         /\ \A i \in DOMAIN D["df"] : /\ E["df"][i].wo = D["df"][i].wo
                                      /\ ~(w.t = "df" /\ w.id = i) => E["df"][i] = D["df"][i]
         /\ \A i \in DOMAIN D["proc"] : /\ E["proc"][i].wil = D["proc"][i].wil
                                        /\ E["proc"][i].completed = D["proc"][i].completed
                                        /\ D["proc"][i].stopped => E["proc"][i].stopped
                                        /\ ~D["proc"][i].stopped /\ E["proc"][i].stopped =>
                                             w.t = "proc" /\ w.id = i /\ D["proc"][i].parent = 0
<1>1. /\ DbOK(D) /\ QueueOK(D, Q) /\ Fits(D, w) /\ Stored(D, E, w) /\ w.t \in {"form", "df", "proc"}
      /\ w.id \in DOMAIN D[w.t]
  BY DEF UserSending, UserWrite, ByUser
<1>2. Wrote(D, E, w, "proc") /\ Wrote(D, E, w, "wi") /\ Wrote(D, E, w, "wo") /\ Wrote(D, E, w, "df")
  BY <1>1, OneWrite
<1>3. /\ DOMAIN E["proc"] = DOMAIN D["proc"] /\ DOMAIN E["wi"] = DOMAIN D["wi"]
      /\ DOMAIN E["wo"] = DOMAIN D["wo"] /\ DOMAIN E["df"] = DOMAIN D["df"]
  BY <1>1, <1>2 DEF Wrote
<1>4. /\ \A i \in DOMAIN D["wi"] : E["wi"][i] = D["wi"][i]
      /\ \A i \in DOMAIN D["wo"] : E["wo"][i] = D["wo"][i]
  BY <1>1, <1>2 DEF Wrote
<1>5. \A i \in DOMAIN D["df"] : /\ E["df"][i].wo = D["df"][i].wo
                                /\ ~(w.t = "df" /\ w.id = i) => E["df"][i] = D["df"][i]
  BY <1>1, <1>2, SameLinks DEF Wrote
<1>6. w.t = "proc" => /\ w.v.stopped /\ w.v.completed = D["proc"][w.id].completed
                      /\ D["proc"][w.id].parent = 0
                      /\ w.v.wil = D["proc"][w.id].wil
  BY DEF UserSending, UserWrite, ByUser
<1>7. \A i \in DOMAIN D["proc"] : /\ E["proc"][i].wil = D["proc"][i].wil
                                  /\ E["proc"][i].completed = D["proc"][i].completed
                                  /\ D["proc"][i].stopped => E["proc"][i].stopped
                                  /\ ~D["proc"][i].stopped /\ E["proc"][i].stopped =>
                                       w.t = "proc" /\ w.id = i /\ D["proc"][i].parent = 0
  BY <1>2, <1>6 DEF Wrote
<1> QED
  BY <1>1, <1>3, <1>4, <1>5, <1>7

\* The record of the write, and where it is.
LEMMA UserRecord ==
  ASSUME NEW D, NEW E, NEW Q, NEW T, NEW hand, NEW w, UserSending(D, E, Q, T, hand, w),
         NEW R, R = RecordOf(D, w, User), NEW P, P = Append(Q, R)
  PROVE  /\ R.t = w.t /\ R.id = w.id /\ R.v = w.v /\ R.by = User /\ R.was = D[w.t][w.id]
         /\ \A k \in DOMAIN Q : k \in DOMAIN P /\ P[k] = Q[k]
         /\ \A k \in DOMAIN P : k \in DOMAIN Q \/ P[k] = R
         /\ \E n \in DOMAIN P : P[n] = R /\ ~(n = 1 /\ hand)
         /\ T # <<>> => P[1] = Q[1]
         /\ \A k \in DOMAIN Q : Q[k].id \in DOMAIN D[Q[k].t]
<1>1. /\ DbOK(D) /\ QueueOK(D, Q) /\ Fits(D, w) /\ Stored(D, E, w)
      /\ w.id \in DOMAIN D[w.t] /\ (T # <<>> => Q # <<>>) /\ (hand => Q # <<>>)
  BY DEF UserSending, UserWrite, ByUser
<1>2. User \in Author
  BY DEF User, Author, Types
<1>3. /\ R.t = w.t /\ R.id = w.id /\ R.v = w.v /\ R.by = User
      /\ w.id \in DOMAIN D[w.t] => R.was = D[w.t][w.id]
  BY <1>1, <1>2, Recorded
<1>4. /\ \A k \in DOMAIN Q : k \in DOMAIN P /\ P[k] = Q[k]
      /\ \A k \in DOMAIN P : k \in DOMAIN Q \/ (k \notin DOMAIN Q /\ P[k] = R)
  BY <1>1, <1>2, Recorded
<1>5. \E n \in DOMAIN P : P[n] = R /\ n \notin DOMAIN Q /\ (Q # <<>> => n # 1)
  BY <1>1, <1>2, Recorded
<1>6. Q # <<>> => P[1] = Q[1] /\ 1 \in DOMAIN Q
  BY <1>1, <1>2, Recorded
<1> QED
  BY <1>1, <1>3, <1>4, <1>5, <1>6 DEF QueueOK

\* What leads to the individuals, and what is sent to them.
LEMMA TreeUser ==
  ASSUME NEW D, NEW E, NEW Q, NEW T, NEW hand, NEW w, UserSending(D, E, Q, T, hand, w),
         TreeOK(D, T)
  PROVE  TreeOK(E, T)
<1>1. /\ DbOK(D) /\ Fits(D, w) /\ Stored(D, E, w)
      /\ DOMAIN E["wi"] = DOMAIN D["wi"] /\ DOMAIN E["wo"] = DOMAIN D["wo"]
      /\ DOMAIN E["df"] = DOMAIN D["df"]
      /\ \A i \in DOMAIN D["wi"] : E["wi"][i] = D["wi"][i]
      /\ \A i \in DOMAIN D["wo"] : E["wo"][i] = D["wo"][i]
      /\ \A i \in DOMAIN D["df"] : E["df"][i].wo = D["df"][i].wo
      /\ \A i \in DOMAIN D["proc"] : E["proc"][i].wil = D["proc"][i].wil
  BY UserSame
<1>2. /\ \A x \in DOMAIN D["wi"] : D["wi"][x].proc \in DOMAIN D["proc"]
      /\ \A o \in DOMAIN D["wo"] : D["wo"][o].wi \in DOMAIN D["wi"]
      /\ \A f \in DOMAIN D["df"] : D["df"][f].wo \in DOMAIN D["wo"]
  BY <1>1, SameLinks
<1>3. ASSUME NEW x \in DOMAIN D["wi"]
      PROVE  After(E, x, E["wi"][x]) /\ (E["wi"][x].prev = 0 => Rooted(E, T, E["wi"][x].proc, x))
  <2>1. After(D, x, D["wi"][x]) /\ (D["wi"][x].prev = 0 => Rooted(D, T, D["wi"][x].proc, x))
    BY DEF TreeOK
  <2>2. After(E, x, D["wi"][x])
    BY <2>1, <1>1, AfterKept
  <2> QED
    BY <2>1, <2>2, <1>1, <1>2 DEF Rooted
<1>4. ASSUME NEW o \in DOMAIN D["wo"]
      PROVE  o \in ToSet(E["wi"][E["wo"][o].wi].wol)
  BY <1>1, <1>2 DEF TreeOK
<1>5. ASSUME NEW f \in DOMAIN D["df"]
      PROVE  Asked(E, T, E["df"][f].wo, f)
  BY <1>1, <1>2 DEF TreeOK, Asked
<1>6. ASSUME NEW x \in DOMAIN D["wi"], NEW o \in ToSet(D["wi"][x].wol)
      PROVE  Comes(E, T, 0, o)
  BY <1>1 DEF TreeOK, Comes
<1> QED
  BY <1>1, <1>3, <1>4, <1>5, <1>6 DEF TreeOK

\* What is still to be sent fits what users write meanwhile.
LEMMA CarriedUser ==
  ASSUME NEW D, NEW E, NEW Q, NEW T, NEW hand, NEW w, UserSending(D, E, Q, T, hand, w),
         CarriedOK(D, Q, T), NEW P, P[1] = Q[1]
  PROVE  CarriedOK(E, P, T)
<1>1. /\ DbOK(D) /\ Fits(D, w) /\ Stored(D, E, w) /\ w.t # "wo"
      /\ DOMAIN E["proc"] = DOMAIN D["proc"] /\ DOMAIN E["wi"] = DOMAIN D["wi"]
      /\ DOMAIN E["wo"] = DOMAIN D["wo"] /\ DOMAIN E["df"] = DOMAIN D["df"]
      /\ \A i \in DOMAIN D["wi"] : E["wi"][i] = D["wi"][i]
      /\ \A i \in DOMAIN D["wo"] : E["wo"][i] = D["wo"][i]
      /\ \A i \in DOMAIN D["proc"] : /\ E["proc"][i].wil = D["proc"][i].wil
                                     /\ E["proc"][i].completed = D["proc"][i].completed
                                     /\ D["proc"][i].stopped => E["proc"][i].stopped
  BY UserSame
<1>3. ASSUME NEW k \in DOMAIN T, T[k].t = "wi" PROVE ItemCarried(E, P, T, k)
  <2>1. ItemCarried(D, Q, T, k)
    BY <1>3 DEF CarriedOK
  <2>4. \A o : Comes(D, T, k, o) => Comes(E, T, k, o)
    BY <1>1 DEF Comes
  <2>2. \A x, v : After(D, x, v) => After(E, x, v)
    BY <1>1, AfterKept
  <2>3. \A x : NoOrder(D, x) => NoOrder(E, x)
    BY <1>1, NoOrderKept
  <2> QED
    BY <2>1, <2>2, <2>3, <2>4, <1>1 DEF ItemCarried
<1>4. ASSUME NEW k \in DOMAIN T, T[k].t = "wo" PROVE OrderCarried(E, P, T, k)
  <2>1. OrderCarried(D, Q, T, k)
    BY <1>4 DEF CarriedOK
  <2>2. T[k].v.wi \in DOMAIN D["wi"]
    BY <1>4 DEF UserSending, TodoOK, Good, Linked
  <2>3. \A q : Sub(D, q) => Sub(E, q)
    BY <1>1, SubKept
  <2> QED
    BY <2>1, <2>2, <2>3, <1>1 DEF OrderCarried
<1>5. ASSUME NEW k \in DOMAIN T, T[k].t = "df" PROVE FormCarried(E, P, T, k)
  <2>1. FormCarried(D, Q, T, k)
    BY <1>5 DEF CarriedOK
  <2> QED
    BY <2>1, <1>1 DEF FormCarried
<1> QED
  BY <1>3, <1>4, <1>5 DEF CarriedOK

\* A stop of a user is undone by what is still to be sent to its process.
LEMMA ProcsUser ==
  ASSUME NEW D, NEW E, NEW Q, NEW T, NEW hand, NEW w, UserSending(D, E, Q, T, hand, w),
         ProcsOK(D, Q, T), NEW P, P[1] = Q[1]
  PROVE  ProcsOK(E, P, T)
<1>1. /\ DbOK(D) /\ Fits(D, w) /\ Stored(D, E, w) /\ TodoOK(D, T)
      /\ DOMAIN E["proc"] = DOMAIN D["proc"]
      /\ \A i \in DOMAIN D["proc"] : /\ E["proc"][i].wil = D["proc"][i].wil
                                     /\ E["proc"][i].completed = D["proc"][i].completed
                                     /\ D["proc"][i].stopped => E["proc"][i].stopped
                                     /\ ~D["proc"][i].stopped /\ E["proc"][i].stopped =>
                                          D["proc"][i].parent = 0
  BY UserSame DEF UserSending
<1>2. \A p : Beginning(Q, p) => Beginning(P, p)
  BY DEF Beginning
<1>3. ASSUME NEW k \in DOMAIN T, T[k].t = "proc"
      PROVE  ProcCarried(E, P, T, k)
  <2>1. PICK p : p = T[k].id
    OBVIOUS
  <2>2. ProcCarried(D, Q, T, k)
    BY <1>3 DEF ProcsOK
  <2>3. ASSUME p \in DOMAIN D["proc"]
        PROVE  /\ Onward(E["proc"][p], T[k].v)
               /\ StopRecord(Q[1]) /\ Q[1].id = p => E["proc"][p].stopped
               /\ T[k].v.completed = "absent" /\ ~T[k].v.stopped => Beginning(P, p)
               /\ E["proc"][p].completed = "absent" /\ T[k].v.completed # "absent" => Beginning(P, p)
    <3>1. Onward(D["proc"][p], T[k].v)
      BY <2>1, <2>2, <2>3 DEF ProcCarried
    <3>2. T[k].v.parent = D["proc"][p].parent
      BY <2>1, <2>3, <1>1, <1>3 DEF TodoOK, Good, Same
    <3>3. Onward(E["proc"][p], T[k].v)
      BY <3>1, <3>2, <2>3, <1>1 DEF Onward
    <3> QED
      BY <3>3, <2>1, <2>2, <2>3, <1>1, <1>2 DEF ProcCarried
  <2> QED
    BY <2>1, <2>2, <2>3, <1>1 DEF ProcCarried
<1> QED
  BY <1>3 DEF ProcsOK

\* No user begins a process.
LEMMA BegunUser ==
  ASSUME NEW D, NEW E, NEW Q, NEW T, NEW hand, NEW w, UserSending(D, E, Q, T, hand, w),
         BegunOK(D, Q, T, hand), NEW R, R = RecordOf(D, w, User), NEW P, P = Append(Q, R)
  PROVE  BegunOK(E, P, T, hand)
<1>1. /\ DbOK(D) /\ Fits(D, w) /\ Stored(D, E, w) /\ w.t \in {"form", "df", "proc"}
      /\ DOMAIN E["wi"] = DOMAIN D["wi"] /\ DOMAIN E["proc"] = DOMAIN D["proc"]
      /\ \A i \in DOMAIN D["wi"] : E["wi"][i] = D["wi"][i]
      /\ \A i \in DOMAIN D["proc"] : E["proc"][i].completed = D["proc"][i].completed
  BY UserSame
<1>2. /\ R.t = w.t /\ R.id = w.id /\ R.v = w.v /\ R.by = User
      /\ \A k \in DOMAIN Q : k \in DOMAIN P /\ P[k] = Q[k]
      /\ \A k \in DOMAIN P : k \in DOMAIN Q \/ P[k] = R
      /\ \A k \in DOMAIN Q : Q[k].id \in DOMAIN D[Q[k].t]
  BY UserRecord
<1>3. ~Begins(R)
  BY <1>2 DEF Begins, Opens, UserSending, UserWrite, ByUser
<1>4. \A k \in DOMAIN P : Begins(P[k]) => /\ k \in DOMAIN Q /\ P[k] = Q[k]
                                          /\ Q[k].id \in DOMAIN D["proc"]
  BY <1>2, <1>3 DEF Begins, Opens
<1>5. \A k \in DOMAIN Q :
        Begins(Q[k]) => /\ (k = 1 /\ hand) \/ D["proc"][Q[k].id].completed = "absent"
                        /\ \A j \in DOMAIN Q : Begins(Q[j]) /\ Q[j].id = Q[k].id => j = k
  BY DEF BegunOK
<1>6. \A x \in DOMAIN D["wi"] : D["wi"][x].proc \in DOMAIN D["proc"]
  BY <1>1, SameLinks
<1>7. \A x \in DOMAIN D["wi"] :
        \/ E["proc"][E["wi"][x].proc].completed # "absent"
        \/ /\ hand
           /\ \E k \in DOMAIN T : /\ T[k].t = "proc" /\ T[k].id = E["wi"][x].proc
                                  /\ T[k].v.completed # "absent"
  BY <1>1, <1>6 DEF BegunOK
<1> QED
  BY <1>1, <1>4, <1>5, <1>7 DEF BegunOK

\* The records.
LEMMA RecordsUser ==
  ASSUME NEW D, NEW E, NEW Q, NEW T, NEW hand, NEW w, UserSending(D, E, Q, T, hand, w),
         VisitsOK(D, Q, hand), SteadyOK(D, Q), \A k \in DOMAIN Q : SourceOK(Q[k]),
         NEW R, R = RecordOf(D, w, User), NEW P, P = Append(Q, R)
  PROVE  VisitsOK(E, P, hand) /\ SteadyOK(E, P) /\ \A k \in DOMAIN P : SourceOK(P[k])
<1>1. /\ DbOK(D) /\ Fits(D, w) /\ Stored(D, E, w) /\ w.t \in {"form", "df", "proc"}
      /\ DOMAIN E["proc"] = DOMAIN D["proc"] /\ DOMAIN E["wo"] = DOMAIN D["wo"]
      /\ \A i \in DOMAIN D["wi"] : E["wi"][i] = D["wi"][i]
      /\ \A i \in DOMAIN D["wo"] : E["wo"][i] = D["wo"][i]
      /\ \A i \in DOMAIN D["proc"] : /\ E["proc"][i].wil = D["proc"][i].wil
                                     /\ E["proc"][i].completed = D["proc"][i].completed
                                     /\ D["proc"][i].stopped => E["proc"][i].stopped
  BY UserSame
<1>7. \A q : Sub(D, q) => Sub(E, q)
  BY <1>1, SubKept
<1>8. \A i \in DOMAIN D["proc"] : E["proc"][i].parent = D["proc"][i].parent
  BY <1>1, OneWrite DEF Wrote, Fits, Good, Same
<1>2. /\ R.t = w.t /\ R.id = w.id /\ R.v = w.v /\ R.by = User
      /\ \A k \in DOMAIN Q : k \in DOMAIN P /\ P[k] = Q[k]
      /\ \A k \in DOMAIN P : k \in DOMAIN Q \/ P[k] = R
      /\ \A k \in DOMAIN Q : Q[k].id \in DOMAIN D[Q[k].t]
  BY UserRecord
<1>3. ~Visit(R) /\ SourceOK(R)
  BY <1>1, <1>2 DEF Visit, SourceOK
<1>4. \A x : NoOrder(D, x) => NoOrder(E, x)
  BY <1>1, NoOrderKept
<1>5. VisitsOK(E, P, hand)
  <2>1. \A k \in DOMAIN P : Visit(P[k]) => k \in DOMAIN Q /\ P[k] = Q[k]
    BY <1>2, <1>3
  <2> QED
    BY <2>1, <1>4 DEF VisitsOK
<1>6. SteadyOK(E, P)
  <2>1. \A p \in DOMAIN E["proc"] : E["proc"][p].completed = "absent" => E["proc"][p].wil = <<>>
    BY <1>1 DEF SteadyOK
  <2>2. ASSUME NEW k \in DOMAIN Q, Q[k].t = "wi"
        PROVE  (~Q[k].v.done => Q[k].v.wil = <<>>) /\ Q[k].v.prev = E["wi"][Q[k].id].prev
    BY <2>2, <1>1, <1>2 DEF SteadyOK
  <2>3. ASSUME NEW k \in DOMAIN Q, Q[k].t = "proc"
        PROVE  /\ Q[k].v.completed = "absent" => Q[k].v.wil = <<>>
               /\ E["proc"][Q[k].id].completed = "absent" => Q[k].v.completed = "absent"
               /\ Q[k].v.stopped =>
                    \/ E["proc"][Q[k].id].stopped \/ E["proc"][Q[k].id].completed = "true"
                    \/ E["proc"][Q[k].id].parent = 0 \/ Q[k].v.wil = <<>>
    <3>1. Q[k].id \in DOMAIN D["proc"]
      BY <2>3, <1>2
    <3> QED
      BY <3>1, <2>3, <1>1, <1>8 DEF SteadyOK
  <2>4. R.t = "proc" => R.id \in DOMAIN D["proc"] /\ R.v.stopped /\ E["proc"][R.id] = R.v
    <3>1. Wrote(D, E, w, "proc")
      BY <1>1, OneWrite
    <3> QED
      BY <3>1, <1>2 DEF UserSending, UserWrite, ByUser, Wrote
  <2>6. Subs(E) /\ \A k \in DOMAIN Q : Q[k].t = "wo" => Sub(E, Q[k].v.sub)
    BY <1>1, <1>7 DEF SteadyOK, Subs
  <2>5. /\ R.t # "wi" /\ R.t # "wo"
        /\ R.t = "proc" =>
             /\ R.v.completed = "absent" => R.v.wil = <<>>
             /\ E["proc"][R.id].completed = "absent" => R.v.completed = "absent"
             /\ R.v.stopped => E["proc"][R.id].stopped
    BY <2>1, <2>4, <1>1, <1>2
  <2> QED
    BY <2>1, <2>2, <2>3, <2>5, <2>6, <1>2 DEF SteadyOK
<1> QED
  BY <1>2, <1>3, <1>5, <1>6

\* A form that will show a decision still will, though it is written again.
LEMMA SettledUser ==
  ASSUME NEW D, NEW E, NEW Q, NEW T, NEW hand, NEW w, UserSending(D, E, Q, T, hand, w),
         NEW f \in DOMAIN D["df"], Settled(D, Q, T, hand, f),
         NEW R, R = RecordOf(D, w, User), NEW P, P = Append(Q, R)
  PROVE  Settled(E, P, T, hand, f)
<1>1. /\ R.t = w.t /\ R.id = w.id /\ R.v = w.v /\ R.by = User /\ R.was = D[w.t][w.id]
      /\ \A k \in DOMAIN Q : k \in DOMAIN P /\ P[k] = Q[k]
      /\ \E n \in DOMAIN P : P[n] = R /\ ~(n = 1 /\ hand)
  BY UserRecord
<1>2. CASE Undoing(Q, hand, f)
  BY <1>1, <1>2 DEF Undoing, Settled
<1>3. CASE \E k \in DOMAIN T : /\ PutOf(T, k, f) /\ Safe(T[k].v)
                               /\ \A j \in DOMAIN T : k < j /\ PutOf(T, j, f) => Safe(T[j].v)
  BY <1>3 DEF Settled
<1>4. CASE Safe(D["df"][f]) /\ \A k \in DOMAIN T : PutOf(T, k, f) => Safe(T[k].v)
  <2>1. CASE ~(w.t = "df" /\ w.id = f)
    <3>1. E["df"][f] = D["df"][f]
      BY <2>1, UserSame
    <3> QED
      BY <3>1, <1>4 DEF Settled
  <2>2. CASE w.t = "df" /\ w.id = f
    <3>1. E["df"][f] = w.v /\ ~w.v.deleted /\ w.v.taken # D["df"][f].taken
      BY <2>2 DEF UserSending, UserWrite, ByUser, Stored
    <3>2. CASE w.v.taken # 0
      BY <3>1, <3>2, <1>4 DEF Settled, Safe
    <3>3. CASE w.v.taken = 0
      <4>1. UserForm(R, f) /\ R.was.taken # 0 /\ R.v.taken = 0 /\ ~R.v.deleted
        BY <3>1, <3>3, <2>2, <1>1 DEF UserForm
      <4> QED
        BY <4>1, <1>1 DEF Undoing, Settled
    <3> QED
      BY <3>2, <3>3
  <2> QED
    BY <2>1, <2>2
<1> QED
  BY <1>2, <1>3, <1>4 DEF Settled
\* Every form shows a decision, or no user has written it.
LEMMA WrittenUser ==
  ASSUME NEW D, NEW E, NEW Q, NEW T, NEW hand, NEW w, UserSending(D, E, Q, T, hand, w),
         WrittenOK(D, Q, T, hand), NEW R, R = RecordOf(D, w, User), NEW P, P = Append(Q, R)
  PROVE  WrittenOK(E, P, T, hand)
<1>1. /\ R.t = w.t /\ R.id = w.id
      /\ \A k \in DOMAIN Q : P[k] = Q[k]
      /\ \A k \in DOMAIN P : k \in DOMAIN Q \/ P[k] = R
  BY UserRecord
<1>2. DOMAIN E["df"] = DOMAIN D["df"]
  BY UserSame
<1>3. ASSUME NEW f \in DOMAIN D["df"], Settled(D, Q, T, hand, f)
      PROVE  Settled(E, P, T, hand, f)
  BY <1>3, SettledUser
<1>4. ASSUME NEW f \in DOMAIN D["df"], Untold(D, Q, T, f)
      PROVE  Untold(E, P, T, f) \/ Settled(E, P, T, hand, f)
  <2>1. CASE ~(w.t = "df" /\ w.id = f)
    <3>1. E["df"][f] = D["df"][f]
      BY <2>1, UserSame
    <3>2. \A k \in DOMAIN P : ~UserForm(P[k], f)
      BY <2>1, <1>1, <1>4 DEF Untold, UserForm
    <3> QED
      BY <3>1, <3>2, <1>4 DEF Untold
  <2>2. CASE w.t = "df" /\ w.id = f
    <3>1. E["df"][f] = w.v /\ w.v.taken # D["df"][f].taken
      BY <2>2 DEF UserSending, UserWrite, ByUser, Stored
    <3>2. Safe(E["df"][f])
      BY <3>1, <1>4 DEF Untold, Safe
    <3>3. \A k \in DOMAIN T : PutOf(T, k, f) => Safe(T[k].v)
      BY <1>4 DEF Untold, FormPut, PutOf, Safe
    <3> QED
      BY <3>2, <3>3 DEF Settled
  <2> QED
    BY <2>1, <2>2
<1> QED
  BY <1>2, <1>3, <1>4 DEF WrittenOK

\* A user stops a process, or leaves it as it is.
LEMMA EndsUser ==
  ASSUME NEW D, NEW E, NEW Q, NEW T, NEW hand, NEW w, UserSending(D, E, Q, T, hand, w),
         TreeOK(D, T), EndsOK(D, Q, T, hand),
         NEW R, R = RecordOf(D, w, User), NEW P, P = Append(Q, R)
  PROVE  EndsOK(E, P, T, hand)
<1>1. /\ R.t = w.t /\ R.id = w.id /\ R.v = w.v /\ R.by = User /\ R.was = D[w.t][w.id]
      /\ \A k \in DOMAIN Q : k \in DOMAIN P /\ P[k] = Q[k]
      /\ \E n \in DOMAIN P : P[n] = R /\ ~(n = 1 /\ hand)
  BY UserRecord
<1>2. /\ DbOK(D) /\ Fits(D, w) /\ Stored(D, E, w)
      /\ DOMAIN E["df"] = DOMAIN D["df"] /\ DOMAIN E["wi"] = DOMAIN D["wi"]
      /\ \A i \in DOMAIN D["wi"] : E["wi"][i] = D["wi"][i]
      /\ \A i \in DOMAIN D["proc"] : /\ E["proc"][i].wil = D["proc"][i].wil
                                     /\ ~D["proc"][i].stopped /\ E["proc"][i].stopped =>
                                          w.t = "proc" /\ w.id = i
  BY UserSame
<1>3. /\ \A o \in DOMAIN D["wo"] : HomeOf(E, o) = HomeOf(D, o) /\ HomeOf(D, o) \in DOMAIN D["proc"]
      /\ \A f \in DOMAIN D["df"] : E["df"][f].wo = D["df"][f].wo /\ D["df"][f].wo \in DOMAIN D["wo"]
  BY <1>2, SameLinks
<1>4. ASSUME NEW p \in DOMAIN D["proc"], E["proc"][p].stopped,
             D["proc"][p].stopped => StopDue(D, Q, hand, p)
      PROVE  StopDue(E, P, hand, p)
  <2>1. CASE D["proc"][p].stopped
    BY <2>1, <1>1, <1>2, <1>4 DEF StopDue
  <2>2. CASE ~D["proc"][p].stopped
    <3>1. w.t = "proc" /\ w.id = p
      BY <2>2, <1>2, <1>4
    <3>2. w.v.wil = E["proc"][p].wil /\ w.v.stopped
      BY <3>1, <1>2 DEF UserSending, UserWrite, ByUser
    <3>3. User # <<"proc", p, "stop">>
      BY DEF User
    <3>4. StopRecord(R) /\ R.id = p /\ ~R.was.stopped /\ R.by # <<"proc", p, "stop">>
          /\ R.v.wil = E["proc"][p].wil
      BY <3>1, <3>2, <3>3, <2>2, <1>1 DEF StopRecord
    <3> QED
      BY <3>4, <1>1 DEF StopDue
  <2> QED
    BY <2>1, <2>2
<1>5. Kept(E, T) => Kept(D, T)
  <2>1. SUFFICES ASSUME Kept(E, T), NEW x \in DOMAIN D["wi"], D["wi"][x].prev # 0
                 PROVE  Follows(D, T, D["wi"][x].prev, x)
    BY DEF Kept
  <2>2. Follows(E, T, D["wi"][x].prev, x)
    BY <2>1, <1>2 DEF Kept
  <2>3. D["wi"][x].prev \in DOMAIN D["wi"]
    BY <2>1 DEF TreeOK, After
  <2> QED
    BY <2>2, <2>3, <1>2 DEF Follows
<1>6. ASSUME NEW f \in DOMAIN D["df"], E["proc"][HomeOf(E, E["df"][f].wo)].stopped
      PROVE  \/ StopDue(E, P, hand, HomeOf(E, E["df"][f].wo))
             \/ Kept(E, T) => Settled(E, P, T, hand, f)
  <2>1. PICK p : p = HomeOf(D, D["df"][f].wo)
    OBVIOUS
  <2>2. HomeOf(E, E["df"][f].wo) = p /\ p \in DOMAIN D["proc"]
    BY <2>1, <1>3
  <2>3. CASE D["proc"][p].stopped => StopDue(D, Q, hand, p)
    BY <2>2, <2>3, <1>4, <1>6
  <2>4. CASE Kept(D, T) => Settled(D, Q, T, hand, f)
    <3>1. Settled(D, Q, T, hand, f) => Settled(E, P, T, hand, f)
      BY SettledUser
    <3> QED
      BY <3>1, <2>4, <1>5
  <2> QED
    BY <2>1, <2>3, <2>4 DEF EndsOK
<1>7. ASSUME NEW k \in DOMAIN T, T[k].t = "df", T[k].id \notin DOMAIN D["df"],
             E["proc"][HomeOf(E, T[k].v.wo)].stopped
      PROVE  StopDue(E, P, hand, HomeOf(E, T[k].v.wo))
  <2>1. T[k].v.wo \in DOMAIN D["wo"]
    BY <1>7 DEF UserSending, TodoOK, Good, Linked
  <2>2. PICK p : p = HomeOf(D, T[k].v.wo)
    OBVIOUS
  <2>3. HomeOf(E, T[k].v.wo) = p /\ p \in DOMAIN D["proc"]
    BY <2>1, <2>2, <1>3
  <2>4. D["proc"][p].stopped => StopDue(D, Q, hand, p)
    BY <2>2, <1>7 DEF EndsOK
  <2> QED
    BY <2>3, <2>4, <1>4, <1>7
<1> QED
  BY <1>2, <1>6, <1>7 DEF EndsOK

\* A user writes.
LEMMA StopUser ==
  ASSUME NEW D, NEW E, NEW Q, NEW T, NEW hand, NEW w, UserSending(D, E, Q, T, hand, w),
         StopOK(D, Q, T, hand), NEW R, R = RecordOf(D, w, User), NEW P, P = Append(Q, R)
  PROVE  StopOK(E, P, T, hand)
<1>1. TreeOK(E, T)
  BY TreeUser DEF StopOK
<1>2. CarriedOK(E, P, T) /\ ProcsOK(E, P, T)
  <2>1. CASE T = <<>>
    <3>1. DOMAIN T = {}
      BY <2>1
    <3> QED
      BY <3>1 DEF CarriedOK, ProcsOK
  <2>2. CASE T # <<>>
    <3>1. P[1] = Q[1]
      BY <2>2, UserRecord
    <3> QED
      BY <3>1, CarriedUser, ProcsUser DEF StopOK
  <2> QED
    BY <2>1, <2>2
<1>3. VisitsOK(E, P, hand) /\ SteadyOK(E, P) /\ \A k \in DOMAIN P : SourceOK(P[k])
  BY RecordsUser DEF StopOK
<1>4. WrittenOK(E, P, T, hand) /\ EndsOK(E, P, T, hand)
  BY WrittenUser, EndsUser DEF StopOK
<1>5. BegunOK(E, P, T, hand)
  BY BegunUser DEF StopOK
<1> QED
  BY <1>1, <1>2, <1>3, <1>4, <1>5 DEF StopOK

-----------------------------------------------------------------------------
(***************************************************************************)
(* The script of the first record runs, and the record is done.            *)
(***************************************************************************)

\* The record that undoes a decision, and the one that handles a stop.
UndoRecord(r, f) == UserForm(r, f) /\ r.was.taken # 0 /\ r.v.taken = 0 /\ ~r.v.deleted
DueRecord(D, r, p) ==
  /\ StopRecord(r) /\ r.id = p /\ ~r.was.stopped
  /\ r.by # <<"proc", p, "stop">> /\ r.v.wil = D["proc"][p].wil

\* Where a record is when the first one is done.
LEMMA NextBack ==
  ASSUME NEW Q \in Seq(Record), Q # <<>>, NEW j \in DOMAIN Q, j # 1
  PROVE  \E i \in DOMAIN Tail(Q) : Tail(Q)[i] = Q[j]
<1>1. /\ DOMAIN Q = 1 .. Len(Q) /\ Len(Q) \in Nat /\ DOMAIN Tail(Q) = 1 .. (Len(Q) - 1)
      /\ \A k \in DOMAIN Tail(Q) : Tail(Q)[k] = Q[k + 1]
  BY TailFacts
<1>2. j - 1 \in DOMAIN Tail(Q) /\ j = (j - 1) + 1
  BY <1>1
<1>3. Tail(Q)[j - 1] = Q[(j - 1) + 1]
  BY <1>1, <1>2
<1> QED
  BY <1>2, <1>3

\* The records after the first one.
LEMMA NextRecords ==
  ASSUME NEW Q \in Seq(Record), Q # <<>>, NEW V, V = Tail(Q)
  PROVE  /\ 1 \in DOMAIN Q
         /\ \A k \in DOMAIN V : k + 1 \in DOMAIN Q /\ V[k] = Q[k + 1] /\ k + 1 # 1
         /\ \A i, k \in DOMAIN V : i + 1 = k + 1 => i = k
<1>1. /\ DOMAIN Q = 1 .. Len(Q) /\ Len(Q) \in Nat /\ DOMAIN V = 1 .. (Len(Q) - 1) /\ 1 \in DOMAIN Q
      /\ \A k \in DOMAIN V : k + 1 \in DOMAIN Q /\ V[k] = Q[k + 1]
  BY TailFacts
<1>2. \A k \in DOMAIN V : k \in Nat /\ k + 1 # 1
  BY <1>1
<1>3. \A i, k \in DOMAIN V : i + 1 = k + 1 => i = k
  BY <1>2
<1> QED
  BY <1>1, <1>2, <1>3

\* A form that will show a decision still will when the first record is done.
LEMMA SettledNext ==
  ASSUME NEW D, NEW Q \in Seq(Record), Q # <<>>, NEW hand, NEW U, DOMAIN U = {}, NEW f,
         Settled(D, Q, U, hand, f), hand \/ ~UndoRecord(Q[1], f)
  PROVE  Settled(D, Tail(Q), U, FALSE, f)
<1>1. PICK V : V = Tail(Q)
  OBVIOUS
<1>2. \A j \in DOMAIN Q : j # 1 => \E i \in DOMAIN V : V[i] = Q[j]
  BY <1>1, NextBack
<1>3. CASE Undoing(Q, hand, f)
  <2>1. PICK k \in DOMAIN Q : UndoRecord(Q[k], f) /\ ~(k = 1 /\ hand)
    BY <1>3 DEF Undoing, UndoRecord
  <2>2. k # 1
    BY <2>1
  <2>3. PICK i \in DOMAIN V : V[i] = Q[k]
    BY <2>2, <1>2
  <2>4. Undoing(V, FALSE, f)
    BY <2>1, <2>3 DEF Undoing, UndoRecord
  <2> QED
    BY <2>4, <1>1 DEF Settled
<1>4. CASE ~Undoing(Q, hand, f)
  BY <1>4 DEF Settled
<1> QED
  BY <1>3, <1>4

\* The first record is done: its script has sent all, or had nothing to send.
LEMMA StopNext ==
  ASSUME NEW D, NEW Q \in Seq(Record), Q # <<>>, NEW hand, NEW U, U = <<>>,
         StopOK(D, Q, U, hand),
         \A f : hand \/ ~UndoRecord(Q[1], f),
         \A f \in DOMAIN D["df"] :
           hand \/ (DueRecord(D, Q[1], HomeOf(D, D["df"][f].wo)) /\ Kept(D, U) => Settled(D, Q, U, hand, f))
  PROVE  StopOK(D, Tail(Q), U, FALSE)
<1>1. PICK V : V = Tail(Q)
  OBVIOUS
<1>2. /\ 1 \in DOMAIN Q
      /\ \A k \in DOMAIN V : k + 1 \in DOMAIN Q /\ V[k] = Q[k + 1] /\ k + 1 # 1
      /\ \A j \in DOMAIN Q : j # 1 => \E i \in DOMAIN V : V[i] = Q[j]
      /\ \A i, k \in DOMAIN V : i + 1 = k + 1 => i = k
  <2>1. Q \in Seq(Record) /\ Q # <<>>
    OBVIOUS
  <2>2. 1 \in DOMAIN Q
    BY <2>1, <1>1, NextRecords
  <2>3. \A k \in DOMAIN V : k + 1 \in DOMAIN Q /\ V[k] = Q[k + 1] /\ k + 1 # 1
    BY <2>1, <1>1, NextRecords
  <2>4. \A j \in DOMAIN Q : j # 1 => \E i \in DOMAIN V : V[i] = Q[j]
    BY <2>1, <1>1, NextBack
  <2>5. \A i, k \in DOMAIN V : i + 1 = k + 1 => i = k
    BY <2>1, <1>1, NextRecords
  <2> QED
    BY <2>2, <2>3, <2>4, <2>5
<1>3. DOMAIN U = {}
  OBVIOUS
<1>4. \A f : Settled(D, Q, U, hand, f) => Settled(D, V, U, FALSE, f)
  BY <1>1, <1>3, SettledNext
<1>5. TreeOK(D, U) /\ CarriedOK(D, V, U) /\ ProcsOK(D, V, U)
  BY <1>3 DEF StopOK, CarriedOK, ProcsOK
<1>6. VisitsOK(D, V, FALSE)
  <2>1. ASSUME NEW k \in DOMAIN V, Visit(V[k])
        PROVE  /\ NoOrder(D, V[k].id) /\ V[k].v.wol = <<>>
               /\ \A j \in DOMAIN V : Visit(V[j]) /\ V[j].id = V[k].id => j = k
    BY <2>1, <1>2 DEF StopOK, VisitsOK
  <2> QED
    BY <2>1 DEF VisitsOK
<1>10. BegunOK(D, V, U, FALSE)
  <2>1. BegunOK(D, Q, U, hand)
    BY DEF StopOK
  <2>2. ASSUME NEW k \in DOMAIN V, Begins(V[k])
        PROVE  /\ D["proc"][V[k].id].completed = "absent"
               /\ \A j \in DOMAIN V : Begins(V[j]) /\ V[j].id = V[k].id => j = k
    BY <2>1, <2>2, <1>2 DEF BegunOK
  <2>3. \A w \in DOMAIN D["wi"] : D["proc"][D["wi"][w].proc].completed # "absent"
    BY <2>1, <1>3 DEF BegunOK
  <2> QED
    BY <2>2, <2>3 DEF BegunOK
<1>7. SteadyOK(D, V) /\ \A k \in DOMAIN V : SourceOK(V[k])
  <2>1. SteadyOK(D, Q) /\ \A k \in DOMAIN Q : SourceOK(Q[k])
    BY DEF StopOK
  <2> QED
    BY <2>1, <1>2 DEF SteadyOK
<1>8. WrittenOK(D, V, U, FALSE)
  <2>1. ASSUME NEW f \in DOMAIN D["df"], Untold(D, Q, U, f)
        PROVE  Untold(D, V, U, f)
    BY <2>1, <1>2 DEF Untold
  <2> QED
    BY <2>1, <1>4 DEF StopOK, WrittenOK
<1>9. EndsOK(D, V, U, FALSE)
  <2>1. ASSUME NEW f \in DOMAIN D["df"], NEW p, p = HomeOf(D, D["df"][f].wo), D["proc"][p].stopped
        PROVE  StopDue(D, V, FALSE, p) \/ (Kept(D, U) => Settled(D, V, U, FALSE, f))
    <3>1. CASE Kept(D, U) => Settled(D, Q, U, hand, f)
      BY <3>1, <1>4
    <3>2. CASE StopDue(D, Q, hand, p)
      <4>1. PICK k \in DOMAIN Q : DueRecord(D, Q[k], p) /\ ~(k = 1 /\ hand)
        BY <3>2 DEF StopDue, DueRecord
      <4>2. CASE k = 1
        BY <4>1, <4>2, <2>1, <1>4
      <4>3. CASE k # 1
        <5>1. PICK i \in DOMAIN V : V[i] = Q[k]
          BY <4>3, <1>2
        <5> QED
          BY <5>1, <4>1 DEF StopDue, DueRecord
      <4> QED
        BY <4>2, <4>3
    <3> QED
      BY <3>1, <3>2, <2>1 DEF StopOK, EndsOK
  <2> QED
    BY <2>1, <1>3 DEF EndsOK
<1> QED
  BY <1>1, <1>5, <1>6, <1>7, <1>8, <1>9, <1>10 DEF StopOK

\* The record that undoes a decision has a script that does, as its last write.
LEMMA UndoRuns ==
  ASSUME TInv, queue # <<>>, NEW r, r = queue[1], NEW f, UndoRecord(r, f)
  PROVE  /\ Triggered(r) /\ Writes(r) # <<>> /\ DOMAIN Writes(r) = {1, 2}
         /\ PutOf(Writes(r), 2, f) /\ Safe(Writes(r)[2].v)
<1>1. DbOK(db) /\ IsRecord(db, r)
  BY HeadRecord
<1>2. r.was \in DecisionForm
  BY <1>1, RecordFacts DEF UndoRecord, UserForm
<1>3. PICK x : x = r.was.taken
  OBVIOUS
<1>4. x \in Results /\ x # 0
  BY <1>2, <1>3 DEF UndoRecord, DecisionForm
<1>5. Change(r, f, x) /\ ~r.v.deleted
  BY <1>3, <1>4 DEF UndoRecord, Change
<1>6. /\ Triggered(r) /\ Writes(r) # <<>> /\ DOMAIN Writes(r) = {1, 2}
      /\ Writes(r)[2].t = "df" /\ Writes(r)[2].id = f /\ Writes(r)[2].v.taken = x
  BY <1>1, <1>4, <1>5, ChangeRuns
<1> QED
  BY <1>4, <1>6 DEF PutOf, Safe

\* The record of a stop has a script that finds every form of the process that is
\* not done, if each work item is in the list of the one before.
LEMMA StopFinds ==
  ASSUME TInv, NEW r, NEW f \in DOMAIN db["df"], NEW p, p = HomeOf(db, db["df"][f].wo),
         DueRecord(db, r, p), TreeOK(db, <<>>), Subs(db), Kept(db, <<>>), ~db["df"][f].done
  PROVE  /\ Triggered(r)
         /\ \E k \in DOMAIN Writes(r) : PutOf(Writes(r), k, f)
         /\ \A k \in DOMAIN Writes(r) : PutOf(Writes(r), k, f) => Safe(Writes(r)[k].v)
<1>1. DbOK(db)
  BY DEF TInv
<1>2. r.t = "proc" /\ r.v.stopped /\ r.id = p /\ ~r.was.stopped /\ r.by # <<"proc", p, "stop">>
      /\ r.v.wil = db["proc"][p].wil
  BY DEF DueRecord, StopRecord
<1>3. Triggered(r)
  BY <1>2 DEF Triggered, Script
<1>4. PICK T : T = StopAll(r.id, r.v)
  OBVIOUS
<1>5. Writes(r) = T
  BY <1>2, <1>4 DEF Writes
<1>6. PICK o : o = db["df"][f].wo
  OBVIOUS
<1>7. PICK w : w = db["wo"][o].wi
  OBVIOUS
<1>8. o \in DOMAIN db["wo"] /\ w \in DOMAIN db["wi"] /\ db["wi"][w].proc = p
  BY <1>1, <1>6, <1>7, DbFacts DEF HomeOf
<1>9. DOMAIN (<<>>) = {}
  OBVIOUS
<1>10. o \in ToSet(db["wi"][w].wol) /\ f \in ToSet(db["wo"][o].dfl)
  BY <1>6, <1>7, <1>8, <1>9 DEF TreeOK, Asked
<1>11. w \in Below(r.v.wil, TRUE)
  <2>1. w \in Below(db["proc"][p].wil, TRUE)
    BY <1>1, <1>8, AllBelow
  <2> QED
    BY <2>1, <1>2
<1>12. \A k \in DOMAIN T : StopItem(db, r, T[k])
  BY <1>1, <1>2, <1>4, StopShape
<1>13. \E k \in DOMAIN T : PutOf(T, k, f)
  BY <1>1, <1>2, <1>4, <1>10, <1>11, StopShape
<1>14. \A k \in DOMAIN T : PutOf(T, k, f) => Safe(T[k].v)
  BY <1>12 DEF StopItem, PutOf, Safe
<1> QED
  BY <1>3, <1>5, <1>13, <1>14

\* The script leaves a form that shows a decision as safe as it was.
LEMMA SettledRun ==
  ASSUME TInv, queue # <<>>, NEW r, r = queue[1], NEW T, List(db, r, T), T = Writes(r),
         CarriedOK(db, queue, T), NEW U, DOMAIN U = {}, NEW f \in DOMAIN db["df"],
         Settled(db, queue, U, FALSE, f)
  PROVE  Settled(db, queue, T, TRUE, f)
<1>1. CASE Undoing(queue, FALSE, f)
  <2>1. PICK k \in DOMAIN queue : UndoRecord(queue[k], f)
    BY <1>1 DEF Undoing, UndoRecord
  <2>2. CASE k # 1
    <3>1. Undoing(queue, TRUE, f)
      BY <2>1, <2>2 DEF Undoing, UndoRecord
    <3> QED
      BY <3>1 DEF Settled
  <2>3. CASE k = 1
    <3>1. UndoRecord(r, f)
      BY <2>1, <2>3
    <3>2. DOMAIN T = {1, 2} /\ PutOf(T, 2, f) /\ Safe(T[2].v)
      BY <3>1, UndoRuns
    <3>3. ~(2 < 1) /\ ~(2 < 2) /\ 2 \in DOMAIN T
      BY <3>2
    <3>4. \A j \in DOMAIN T : ~(2 < j)
      BY <3>2, <3>3
    <3> QED
      BY <3>2, <3>3, <3>4 DEF Settled
  <2> QED
    BY <2>2, <2>3
<1>2. CASE ~Undoing(queue, FALSE, f)
  <2>1. Safe(db["df"][f])
    BY <1>2 DEF Settled
  <2>2. ASSUME NEW k \in DOMAIN T, PutOf(T, k, f)
        PROVE  Safe(T[k].v)
    <3>1. FormCarried(db, queue, T, k) /\ T[k].id = f /\ T[k].t = "df"
      BY <2>2 DEF CarriedOK, PutOf
    <3>2. CASE T[k].v.deleted
      BY <3>2 DEF Safe
    <3>3. CASE r.t = "df" /\ ~T[k].v.deleted
      <4>1. DfItem(db, r, T[k])
        BY <3>1, ListWrites DEF Item
      <4> QED
        BY <4>1, <3>1, <3>3, <2>1 DEF DfItem, Safe
    <3> QED
      BY <3>1, <3>2, <3>3 DEF FormCarried
  <2> QED
    BY <2>1, <2>2 DEF Settled
<1> QED
  BY <1>1, <1>2

\* The script of the first record has something to send.
LEMMA StopRun ==
  ASSUME TInv, queue # <<>>, NEW r, r = queue[1], Triggered(r),
         NEW T, List(db, r, T), T = Writes(r), T # <<>>, NEW U, U = <<>>,
         StopOK(db, queue, U, FALSE)
  PROVE  StopOK(db, queue, T, TRUE)
<1>1. DOMAIN U = {} /\ DbOK(db) /\ 1 \in DOMAIN queue
  BY HeadRecord
<1>2. /\ TreeOK(db, U) /\ VisitsOK(db, queue, FALSE) /\ SteadyOK(db, queue)
      /\ BegunOK(db, queue, U, FALSE)
      /\ \A k \in DOMAIN queue : SourceOK(queue[k])
      /\ WrittenOK(db, queue, U, FALSE) /\ EndsOK(db, queue, U, FALSE)
  BY DEF StopOK
<1>3. CarriedOK(db, queue, T) /\ ProcsOK(db, queue, T) /\ NewLists(db, T) /\ Running(db, T)
  <2>1. TreeOK(db, <<>>) /\ BegunOK(db, queue, <<>>, FALSE)
    BY <1>2
  <2> QED
    BY <2>1, <1>2, RunCarried
<1>4. TreeOK(db, T)
  BY <1>1, <1>2 DEF TreeOK, Rooted, Asked, Comes
<1>5. VisitsOK(db, queue, TRUE)
  BY <1>2 DEF VisitsOK
<1>12. BegunOK(db, queue, T, TRUE)
  BY <1>1, <1>2 DEF BegunOK
<1>6. ASSUME NEW f \in DOMAIN db["df"], Settled(db, queue, U, FALSE, f)
      PROVE  Settled(db, queue, T, TRUE, f)
  BY <1>1, <1>3, <1>6, SettledRun
<1>7. ASSUME NEW f \in DOMAIN db["df"], Untold(db, queue, U, f)
      PROVE  Untold(db, queue, T, f)
  <2>1. ASSUME NEW k \in DOMAIN T, FormPut(T, k, f)
        PROVE  FALSE
    <3>1. T[k].t = "df" /\ T[k].id = f /\ ~T[k].v.deleted
      BY <2>1 DEF FormPut
    <3>2. r.t = "df" /\ r.id = f
      BY <3>1, <1>3 DEF CarriedOK, FormCarried
    <3>3. UserForm(r, r.id)
      BY <3>2, <1>1, <1>2, UserRuns
    <3> QED
      BY <3>2, <3>3, <1>1, <1>7 DEF Untold
  <2> QED
    BY <2>1, <1>7 DEF Untold
<1>8. WrittenOK(db, queue, T, TRUE)
  BY <1>2, <1>6, <1>7 DEF WrittenOK
<1>9. Kept(db, T) => Kept(db, U)
  <2>1. SUFFICES ASSUME Kept(db, T), NEW x \in DOMAIN db["wi"], db["wi"][x].prev # 0
                 PROVE  Follows(db, U, db["wi"][x].prev, x)
    BY DEF Kept
  <2>2. Follows(db, T, db["wi"][x].prev, x) /\ db["wi"][x].prev \in DOMAIN db["wi"]
    BY <2>1, <1>2 DEF Kept, TreeOK, After
  <2> QED
    BY <2>2, <1>3 DEF Follows, NewLists
<1>10. ASSUME NEW f \in DOMAIN db["df"], NEW p, p = HomeOf(db, db["df"][f].wo), db["proc"][p].stopped
       PROVE  StopDue(db, queue, TRUE, p) \/ (Kept(db, T) => Settled(db, queue, T, TRUE, f))
  <2>1. CASE Kept(db, U) => Settled(db, queue, U, FALSE, f)
    BY <2>1, <1>6, <1>9
  <2>2. CASE StopDue(db, queue, FALSE, p)
    <3>1. PICK k \in DOMAIN queue : DueRecord(db, queue[k], p)
      BY <2>2 DEF StopDue, DueRecord
    <3>2. CASE k # 1
      BY <3>1, <3>2 DEF StopDue, DueRecord
    <3>3. CASE k = 1
      <4>1. SUFFICES ASSUME Kept(db, T) PROVE Settled(db, queue, T, TRUE, f)
        OBVIOUS
      <4>2. CASE Settled(db, queue, U, FALSE, f)
        BY <4>2, <1>6
      <4>3. CASE Untold(db, queue, U, f)
        <5>1. /\ TreeOK(db, <<>>) /\ Kept(db, <<>>) /\ DueRecord(db, r, p) /\ ~db["df"][f].done
              /\ Subs(db)
          BY <4>1, <4>3, <3>1, <3>3, <1>2, <1>9 DEF Untold, SteadyOK
        <5>2. /\ \E j \in DOMAIN T : PutOf(T, j, f)
              /\ \A j \in DOMAIN T : PutOf(T, j, f) => Safe(T[j].v)
          BY <5>1, <1>10, StopFinds
        <5> QED
          BY <5>2 DEF Settled
      <4> QED
        BY <4>2, <4>3, <1>2 DEF WrittenOK
    <3> QED
      BY <3>2, <3>3
  <2> QED
    BY <2>1, <2>2, <1>2, <1>10 DEF EndsOK
<1>11. EndsOK(db, queue, T, TRUE)
  BY <1>3, <1>10 DEF EndsOK, Running
<1> QED
  BY <1>2, <1>3, <1>4, <1>5, <1>8, <1>11, <1>12 DEF StopOK

\* It has nothing to send.
LEMMA StopIdle ==
  ASSUME TInv, queue # <<>>, NEW r, r = queue[1], Triggered(r) => Writes(r) = <<>>,
         NEW U, U = <<>>, StopOK(db, queue, U, FALSE)
  PROVE  StopOK(db, Tail(queue), U, FALSE)
<1>1. queue \in Seq(Record) /\ DOMAIN U = {}
  BY HeadRecord
<1>2. \A f : ~UndoRecord(queue[1], f)
  BY UndoRuns
<1>3. ASSUME NEW f \in DOMAIN db["df"], DueRecord(db, r, HomeOf(db, db["df"][f].wo)), Kept(db, U)
      PROVE  Settled(db, queue, U, FALSE, f)
  <2>1. CASE Untold(db, queue, U, f)
    <3>1. ~db["df"][f].done /\ TreeOK(db, <<>>) /\ Kept(db, <<>>) /\ Subs(db)
      BY <2>1, <1>3 DEF Untold, StopOK, SteadyOK
    <3>2. PICK p : p = HomeOf(db, db["df"][f].wo)
      OBVIOUS
    <3>3. Triggered(r) /\ \E k \in DOMAIN Writes(r) : PutOf(Writes(r), k, f)
      BY <3>1, <3>2, <1>3, StopFinds
    <3>4. Writes(r) = U
      BY <3>3
    <3> QED
      BY <3>3, <3>4, <1>1
  <2>2. CASE Settled(db, queue, U, FALSE, f)
    BY <2>2
  <2> QED
    BY <2>1, <2>2, <1>3 DEF StopOK, WrittenOK
<1>4. \A f \in DOMAIN db["df"] :
        DueRecord(db, queue[1], HomeOf(db, db["df"][f].wo)) /\ Kept(db, U) =>
          Settled(db, queue, U, FALSE, f)
  BY <1>3
<1>5. PICK hand : hand = FALSE
  OBVIOUS
<1>6. /\ StopOK(db, queue, U, hand)
      /\ \A f : hand \/ ~UndoRecord(queue[1], f)
      /\ \A f \in DOMAIN db["df"] :
           hand \/ (DueRecord(db, queue[1], HomeOf(db, db["df"][f].wo)) /\ Kept(db, U) =>
                      Settled(db, queue, U, hand, f))
  BY <1>2, <1>4, <1>5
<1> QED
  BY <1>1, <1>6, StopNext

-----------------------------------------------------------------------------
(***************************************************************************)
(* The theorem.                                                            *)
(***************************************************************************)
FInv == TInv /\ (setting.crashes = 0 => StopOK(db, queue, todo, running))

\* It holds at first.
LEMMA FInvInit ==
  ASSUME Init
  PROVE  FInv
<1>1. TInv
  BY TInvInit
<1>2. /\ queue = <<>> /\ todo = <<>> /\ db["proc"] = <<>> /\ db["wi"] = <<>>
      /\ db["wo"] = <<>> /\ db["df"] = <<>>
  BY DEF Init
<1>3. DOMAIN (<< >>) = {}
  OBVIOUS
<1>4. /\ DOMAIN queue = {} /\ DOMAIN todo = {} /\ DOMAIN db["proc"] = {} /\ DOMAIN db["wi"] = {}
      /\ DOMAIN db["wo"] = {} /\ DOMAIN db["df"] = {}
  BY <1>2, <1>3
<1>5. /\ TreeOK(db, todo) /\ VisitsOK(db, queue, running) /\ SteadyOK(db, queue)
      /\ BegunOK(db, queue, todo, running)
  BY <1>4 DEF TreeOK, VisitsOK, SteadyOK, Subs, BegunOK
<1>6. /\ CarriedOK(db, queue, todo) /\ ProcsOK(db, queue, todo)
      /\ WrittenOK(db, queue, todo, running)
  BY <1>4 DEF CarriedOK, ProcsOK, WrittenOK
<1>7. EndsOK(db, queue, todo, running)
  BY <1>4 DEF EndsOK
<1> QED
  BY <1>1, <1>4, <1>5, <1>6, <1>7 DEF FInv, StopOK

\* What users write.
LEMMA UserWrites ==
  ASSUME TInv, \/ Send
               \/ \E f \in DOMAIN db.df, v \in Results \cup {0} : Answer(f, v)
               \/ \E p \in DOMAIN db.proc : Stop(p)
  PROVE  \E w : UserStep(w) /\ UserWrite(db, w)
<1>1. CASE Send
  <2>1. PICK w : UserStep(w) /\ w.t = "form"
    BY <1>1, SendFacts
  <2> QED
    BY <2>1 DEF UserStep, UserWrite
<1>2. CASE \E f \in DOMAIN db.df, v \in Results \cup {0} : Answer(f, v)
  <2>1. PICK f \in DOMAIN db["df"], v \in Results \cup {0} : Answer(f, v)
    BY <1>2
  <2>2. PICK w : UserStep(w) /\ w.t = "df" /\ w.id = f /\ w.v.taken = v /\ v # db["df"][f].taken
    BY <2>1, AnswerFacts
  <2> QED
    BY <2>2 DEF UserStep, UserWrite
<1>3. CASE \E p \in DOMAIN db.proc : Stop(p)
  <2>1. PICK p \in DOMAIN db["proc"] : Stop(p)
    BY <1>3
  <2>2. PICK w : UserStep(w) /\ w.t = "proc" /\ w.v.wil = db["proc"][w.id].wil
    BY <2>1, StopFacts
  <2> QED
    BY <2>2 DEF UserStep, UserWrite
<1> QED
  BY <1>1, <1>2, <1>3

\* Every step keeps it.
LEMMA FInvNext ==
  ASSUME FInv, [Next]_vars
  PROVE  FInv'
<1>1. TInv /\ TInv'
  BY TInvNext DEF FInv
<1>2. setting' = setting
  BY DEF Next, Run, CommitItem, Finish, Crash, Send, Answer, Stop, vars
<1>3. SUFFICES ASSUME setting.crashes = 0
               PROVE  StopOK(db', queue', todo', running')
  BY <1>1, <1>2 DEF FInv
<1>4. StopOK(db, queue, todo, running)
  BY <1>3 DEF FInv
<1>6. /\ DbOK(db) /\ QueueOK(db, queue) /\ TodoOK(db, todo) /\ queue \in Seq(Record)
      /\ running \in BOOLEAN /\ running' \in BOOLEAN
      /\ running => queue # <<>>
      /\ todo # <<>> => running
  BY <1>1 DEF TInv, QueueOK
<1>7. CASE Run
  <2>1. /\ queue # <<>> /\ db' = db /\ List(db, queue[1], todo') /\ ~running
        /\ todo' = <<>> \/ (Triggered(queue[1]) /\ todo' = Writes(queue[1]))
        /\ todo' = <<>> /\ Triggered(queue[1]) => Writes(queue[1]) = <<>>
        /\ queue' = IF todo' = <<>> THEN Tail(queue) ELSE queue
        /\ running' = (todo' # <<>>)
    BY <1>1, <1>7, RunFacts
  <2>2. running = FALSE /\ todo = <<>>
    BY <2>1, <1>6
  <2>3. StopOK(db, queue, <<>>, FALSE)
    BY <2>2, <1>4
  <2>4. PICK r : r = queue[1]
    OBVIOUS
  <2>5. PICK U : U = <<>>
    OBVIOUS
  <2>6. CASE todo' = <<>>
    <3>1. Triggered(r) => Writes(r) = <<>>
      BY <2>1, <2>4, <2>6
    <3>2. StopOK(db, Tail(queue), U, FALSE)
      BY <3>1, <2>1, <2>3, <2>4, <2>5, <1>1, StopIdle
    <3>3. queue' = Tail(queue) /\ running' = FALSE
      BY <2>1, <2>6, <1>6
    <3> QED
      BY <3>2, <3>3, <2>1, <2>5, <2>6
  <2>7. CASE todo' # <<>>
    <3>1. PICK T : T = todo'
      OBVIOUS
    <3>2. List(db, r, T) /\ T = Writes(r) /\ T # <<>> /\ Triggered(r)
      BY <2>1, <2>4, <2>7, <3>1
    <3>3. StopOK(db, queue, T, TRUE)
      BY <3>2, <2>1, <2>3, <2>4, <2>5, <1>1, StopRun
    <3>4. queue' = queue /\ running' = TRUE
      BY <2>1, <2>7, <1>6
    <3> QED
      BY <3>1, <3>3, <3>4, <2>1
  <2> QED
    BY <2>6, <2>7
<1>8. CASE CommitItem
  <2>1. /\ todo # <<>> /\ queue # <<>> /\ running /\ Stored(db, db', todo[1])
        /\ By(queue[1]) \in Author /\ todo' = Tail(todo) /\ running' = running
        /\ queue' = Append(queue, RecordOf(db, todo[1], By(queue[1])))
    BY <1>1, <1>8, CommitFacts
  <2>2. running = TRUE /\ running' = TRUE
    BY <2>1, <1>6
  <2>3. queue[1] \in Record
    BY <2>1, <1>1, HeadRecord DEF IsRecord
  <2>4. By(queue[1]) # User
    BY <2>3, ByOther
  <2>5. StopOK(db, queue, todo, TRUE)
    BY <2>2, <1>4
  <2>6. Sending(db, db', queue, todo)
    BY <2>1, <2>4, <2>5, <1>6 DEF Sending, StopOK
  <2>7. StopOK(db', queue', Tail(todo), TRUE)
    BY <2>1, <2>5, <2>6, StopSent
  <2> QED
    BY <2>1, <2>2, <2>7
<1>9. CASE Finish
  <2>1. /\ running /\ todo = <<>> /\ queue' = Tail(queue) /\ db' = db /\ todo' = todo
        /\ running' = FALSE
    BY <1>9 DEF Finish
  <2>2. queue # <<>>
    BY <2>1, <1>6
  <2>3. PICK U : U = todo
    OBVIOUS
  <2>4. PICK hand : hand = running
    OBVIOUS
  <2>5. hand /\ U = <<>> /\ StopOK(db, queue, U, hand)
    BY <2>1, <2>3, <2>4, <1>4
  <2>6. StopOK(db, Tail(queue), U, FALSE)
    BY <2>2, <2>5, <1>6, StopNext
  <2> QED
    BY <2>1, <2>3, <2>6
<1>10. CASE Crash
  <2>1. crashes \in Nat /\ crashes < 0
    BY <1>1, <1>3, <1>10 DEF Crash, TInv
  <2> QED
    BY <2>1
<1>11. CASE \/ Send
            \/ \E f \in DOMAIN db.df, v \in Results \cup {0} : Answer(f, v)
            \/ \E p \in DOMAIN db.proc : Stop(p)
  <2>1. PICK w : UserStep(w) /\ UserWrite(db, w)
    BY <1>1, <1>11, UserWrites
  <2>2. /\ Stored(db, db', w) /\ running' = running
        /\ queue' = Append(queue, RecordOf(db, w, User)) /\ todo' = todo
    BY <2>1 DEF UserStep
  <2>3. UserSending(db, db', queue, todo, running, w)
    BY <2>1, <2>2, <1>6 DEF UserSending
  <2>4. PICK R : R = RecordOf(db, w, User)
    OBVIOUS
  <2>5. PICK P : P = Append(queue, R)
    OBVIOUS
  <2>6. StopOK(db', P, todo, running)
    BY <2>3, <2>4, <2>5, <1>4, StopUser
  <2> QED
    BY <2>2, <2>4, <2>5, <2>6
<1>12. CASE UNCHANGED vars
  BY <1>4, <1>12 DEF vars
<1> QED
  BY <1>7, <1>8, <1>9, <1>10, <1>11, <1>12 DEF Next

\* It has no form to answer in a process that is stopped and at rest.
LEMMA FInvForms ==
  ASSUME FInv
  PROVE  StopLeavesNoForm
<1>1. SUFFICES ASSUME Idle, setting.crashes = 0, Listed, NEW f \in Undecided,
                      db.proc[ProcessOf(f)].stopped
               PROVE  FALSE
  BY DEF StopLeavesNoForm
<1>2. TInv /\ StopOK(db, queue, todo, running)
  BY <1>1 DEF FInv
<1>3. queue = <<>> /\ todo = <<>>
  BY <1>1, <1>2 DEF Idle, TInv
<1>4. DOMAIN (<< >>) = {}
  OBVIOUS
<1>5. DOMAIN queue = {} /\ DOMAIN todo = {}
  BY <1>3, <1>4
<1>6. f \in DOMAIN db["df"] /\ db["df"][f].taken = 0 /\ ~db["df"][f].deleted
  BY <1>1 DEF Undecided
<1>7. HomeOf(db, db["df"][f].wo) = ProcessOf(f)
  BY DEF HomeOf, ProcessOf
<1>8. ~StopDue(db, queue, running, ProcessOf(f)) /\ ~Settled(db, queue, todo, running, f)
  BY <1>5, <1>6 DEF StopDue, Settled, Undoing, Safe
<1>9. Kept(db, todo)
  BY <1>1 DEF Listed, Kept, Follows
<1> QED
  BY <1>1, <1>2, <1>6, <1>7, <1>8, <1>9 DEF StopOK, EndsOK

\* A process that is stopped and has come to rest leaves no user a form to answer,
\* whatever was on its way when it was stopped: ProcessStopEvent finds the forms
\* there are, and prepare_work_order() makes none in a stopped process.  For every
\* net and any number of users, stops and answers, without a crash, as long as no
\* task is left twice.
THEOREM StopFormsTheorem == Spec => []StopLeavesNoForm
<1>1. Init => FInv
  BY FInvInit
<1>2. FInv /\ [Next]_vars => FInv'
  BY FInvNext
<1>3. FInv => StopLeavesNoForm
  BY FInvForms
<1> QED
  BY <1>1, <1>2, <1>3, PTL DEF Spec
=============================================================================
