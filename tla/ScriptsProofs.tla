---------------------------- MODULE ScriptsProofs ---------------------------
(***************************************************************************)
(* Theorems about the event scripts, for every set of individuals, order   *)
(* and filters of scripts, and any number of changes, restarts and errors. *)
(***************************************************************************)
EXTENDS Scripts, FiniteSetTheorems, TLAPS

\* The types of all variables.
QueueType == queue \in [Parts -> Seq(Record)] /\ latest \in Parts
VMType ==
  /\ pos \in [VMs -> [id: Nat, popped: Nat]]
  /\ at \in [VMs -> {"pop", "scripts", "commit"}]
  /\ todo \in [VMs -> Seq(ScriptIds)]
  /\ tnx \in [VMs -> Seq(Writes)]
  /\ sent \in [VMs -> Nat]

\* A process is at a part that exists and not behind its end; what it does
\* for a record it does for one that is there.
Placed(v) ==
  /\ pos[v].id <= latest
  /\ pos[v].popped <= Len(queue[pos[v].id])
  /\ at[v] # "pop" => pos[v].popped < Len(queue[pos[v].id])

\* The scripts still to try are the end of the order.
InOrder(v) ==
  /\ \E k \in 1 .. Len(Order) + 1 : todo[v] = SubSeq(Order, k, Len(Order))
  /\ at[v] = "commit" => todo[v] # <<>>
  /\ sent[v] <= Len(tnx[v])
  /\ at[v] # "commit" => tnx[v] = <<>> /\ sent[v] = 0

TypeInv ==
  /\ setting \in Settings /\ QueueType /\ VMType
  /\ \A v \in VMs : Placed(v) /\ InOrder(v)

\* prepare() comes to the scripts for the record r.
Mine(v, r) == r.cmd = "put" /\ r.src \in {AnySrc, v}

\* The record in hand is one for this process, and the scripts that are not
\* among the ones still to try have run, or do not run for it.
Tried(v) ==
  at[v] # "pop" =>
    /\ Mine(v, InHand(v))
    /\ \A s \in ScriptIds : Runs(v, InHand(v), s) =>
         s \in ToSet(todo[v]) \/ <<v, Here(v), s>> \in ran
    /\ at[v] = "commit" => Runs(v, InHand(v), Head(todo[v]))

\* So it is for all records that the process has passed.
Finished(v) ==
  \A p \in Parts : \A n \in 1 .. Len(queue[p]) :
    Passed(v, <<p, n>>) /\ Mine(v, queue[p][n]) =>
      \/ <<v, <<p, n>>>> \in gave_up
      \/ \A s \in ScriptIds : Runs(v, queue[p][n], s) => <<v, <<p, n>>, s>> \in ran

\* What has run was for this process to run.
RanHere(v) ==
  \A p \in Parts, n \in Nat, s \in ScriptIds : <<v, <<p, n>>, s>> \in ran =>
    n \in 1 .. Len(queue[p]) /\ Mine(v, queue[p][n]) /\ RunsAt(v, queue[p][n], s)

RunInv == \A v \in VMs : Tried(v) /\ Finished(v) /\ RanHere(v)

Good(v) == Placed(v) /\ InOrder(v) /\ Tried(v) /\ Finished(v) /\ RanHere(v)
Inv     == TypeInv /\ RunInv
-----------------------------------------------------------------------------
(***************************************************************************)
(* Facts about sequences, the setting and the queue.                       *)
(***************************************************************************)

\* What the settings and the constants are.
LEMMA SettingFacts ==
  ASSUME setting \in Settings
  PROVE  /\ setting.parts \in 0 .. MaxPart /\ setting.run_at \subseteq VMs \cup {NoRunAt}
         /\ MaxPart \in Nat /\ Order \in Seq(ScriptIds) /\ Len(Order) \in Nat
  BY ScriptsAssumption DEF ScriptIds

\* A sequence without elements.
LEMMA EmptySeq ==
  ASSUME NEW S, NEW s \in Seq(S)
  PROVE  /\ Len(s) \in Nat /\ s = <<>> <=> Len(s) = 0
         /\ <<>> \in Seq(S) /\ Len(<<>>) = 0
OBVIOUS

\* The elements of a sequence without its first one.
LEMMA TailSet ==
  ASSUME NEW S, NEW s \in Seq(S), s # <<>>
  PROVE  /\ Tail(s) \in Seq(S) /\ Head(s) \in S
         /\ \A x \in ToSet(s) : x = Head(s) \/ x \in ToSet(Tail(s))
<1>1. /\ Tail(s) \in Seq(S) /\ Head(s) \in S /\ Len(s) \in Nat \ {0} /\ Head(s) = s[1]
      /\ Len(Tail(s)) = Len(s) - 1 /\ DOMAIN s = 1 .. Len(s)
      /\ DOMAIN Tail(s) = 1 .. Len(Tail(s))
      /\ \A k \in 1 .. Len(Tail(s)) : Tail(s)[k] = s[k + 1]
  OBVIOUS
<1>2. ASSUME NEW x \in ToSet(s), x # Head(s) PROVE x \in ToSet(Tail(s))
  <2>1. PICK i \in 1 .. Len(s) : x = s[i]
    BY <1>1 DEF ToSet
  <2>2. i - 1 \in 1 .. Len(Tail(s)) /\ (i - 1) + 1 = i
    BY <1>1, <1>2, <2>1
  <2>3. Tail(s)[i - 1] = x
    BY <1>1, <2>1, <2>2
  <2> QED
    BY <1>1, <2>2, <2>3 DEF ToSet
<1> QED
  BY <1>1, <1>2

\* Sequences with the same elements.
LEMMA SeqEqual ==
  ASSUME NEW S, NEW a \in Seq(S), NEW b \in Seq(S), Len(a) = Len(b),
         \A i \in 1 .. Len(b) : a[i] = b[i]
  PROVE  a = b
OBVIOUS

\* The end of the order without its first script is the end of the order.
LEMMA TailOfOrder ==
  ASSUME NEW S, NEW o \in Seq(S), NEW k \in 1 .. Len(o) + 1,
         NEW s, s = SubSeq(o, k, Len(o)), s # <<>>
  PROVE  k + 1 \in 1 .. Len(o) + 1 /\ Tail(s) = SubSeq(o, k + 1, Len(o))
<1>1. Len(o) \in Nat /\ s \in Seq(S) /\ Len(s) = Len(o) - k + 1
  OBVIOUS
<1>2. k <= Len(o) /\ k + 1 \in 1 .. Len(o) + 1
  BY <1>1, EmptySeq
<1>3. PICK r : r = SubSeq(o, k + 1, Len(o))
  OBVIOUS
<1>4. r \in Seq(S) /\ Len(r) = Len(o) - (k + 1) + 1
  BY <1>1, <1>2, <1>3
<1>5. Tail(s) \in Seq(S) /\ Len(Tail(s)) = Len(s) - 1
  BY <1>1
<1>6. Len(Tail(s)) = Len(r)
  BY <1>1, <1>2, <1>4, <1>5
<1>7. ASSUME NEW i \in 1 .. Len(r) PROVE Tail(s)[i] = r[i]
  <2>1. i \in 1 .. Len(Tail(s)) /\ i + 1 \in 1 .. Len(s)
    BY <1>1, <1>4, <1>5, <1>6
  <2>2. Tail(s)[i] = s[i + 1]
    BY <1>1, <2>1
  <2>3. s[i + 1] = o[k + i]
    BY <1>1, <2>1
  <2>4. r[i] = o[k + i]
    BY <1>1, <1>2, <1>3, <1>4
  <2> QED
    BY <2>2, <2>3, <2>4
<1> QED
  BY <1>2, <1>3, <1>4, <1>5, <1>6, <1>7, SeqEqual

\* No script left, or all of them.
LEMMA NoneLeft ==
  /\ \E k \in 1 .. Len(Order) + 1 : <<>> = SubSeq(Order, k, Len(Order))
  /\ \E k \in 1 .. Len(Order) + 1 : Order = SubSeq(Order, k, Len(Order))
<1>1. Order \in Seq(ScriptIds) /\ Len(Order) \in Nat
  BY ScriptsAssumption DEF ScriptIds
<1>2. /\ Len(Order) + 1 \in 1 .. Len(Order) + 1 /\ 1 \in 1 .. Len(Order) + 1
      /\ SubSeq(Order, Len(Order) + 1, Len(Order)) = <<>>
      /\ SubSeq(Order, 1, Len(Order)) = Order
  BY <1>1
<1> QED
  BY <1>2

\* The queue is only appended to, in its newest part.
Appended ==
  /\ queue' \in [Parts -> Seq(Record)]
  /\ \A p \in Parts : /\ Len(queue[p]) \in Nat /\ Len(queue'[p]) \in Nat
                      /\ Len(queue[p]) <= Len(queue'[p])
                      /\ \A n \in 1 .. Len(queue[p]) : queue'[p][n] = queue[p][n]
                      /\ p # latest => queue'[p] = queue[p]

\* So does a write.
LEMMA PutFacts ==
  ASSUME QueueType, NEW r \in Record, Put(r)
  PROVE  Appended
<1>1. /\ queue \in [Parts -> Seq(Record)] /\ latest \in Parts
      /\ queue' = [queue EXCEPT ![latest] = Append(queue[latest], r)]
  BY DEF QueueType, Put
<1>2. /\ Append(queue[latest], r) \in Seq(Record) /\ Len(queue[latest]) \in Nat
      /\ Len(Append(queue[latest], r)) = Len(queue[latest]) + 1
      /\ \A n \in 1 .. Len(queue[latest]) : Append(queue[latest], r)[n] = queue[latest][n]
  BY <1>1
<1>3. queue'[latest] = Append(queue[latest], r) /\ queue' \in [Parts -> Seq(Record)]
  BY <1>1, <1>2
<1>4. ASSUME NEW p \in Parts, p # latest PROVE queue'[p] = queue[p]
  BY <1>1, <1>4
<1>5. \A p \in Parts : Len(queue[p]) \in Nat
  BY <1>1
<1> QED
  BY <1>2, <1>3, <1>4, <1>5 DEF Appended

\* And a step that leaves it alone.
LEMMA SameQueue ==
  ASSUME QueueType, queue' = queue
  PROVE  Appended
  BY DEF QueueType, Appended
-----------------------------------------------------------------------------
(***************************************************************************)
(* Steps of one process and the others.                                    *)
(***************************************************************************)
Still(w) == /\ pos'[w] = pos[w] /\ at'[w] = at[w] /\ todo'[w] = todo[w]
            /\ tnx'[w] = tnx[w] /\ sent'[w] = sent[w]

\* The types of what a process has.
LEMMA VMFacts ==
  ASSUME Inv, NEW v \in VMs
  PROVE  /\ pos[v].id \in Nat /\ pos[v].popped \in Nat /\ pos[v].id \in Parts
         /\ pos[v] = [id |-> pos[v].id, popped |-> pos[v].popped]
         /\ latest \in Nat /\ MaxPart \in Nat /\ latest <= MaxPart
         /\ queue \in [Parts -> Seq(Record)] /\ \A p \in Parts : Len(queue[p]) \in Nat
         /\ todo[v] \in Seq(ScriptIds) /\ tnx[v] \in Seq(Writes) /\ sent[v] \in Nat
         /\ at[v] \in {"pop", "scripts", "commit"}
         /\ pos[v].id <= latest /\ pos[v].popped <= Len(queue[pos[v].id])
         /\ Good(v)
<1>1. /\ pos[v] \in [id: Nat, popped: Nat] /\ latest \in Parts /\ Placed(v)
      /\ queue \in [Parts -> Seq(Record)] /\ Good(v)
  BY DEF Inv, TypeInv, RunInv, VMType, QueueType, Good
<1>2. MaxPart \in Nat
  BY ScriptsAssumption
<1>3. /\ pos[v].id \in Nat /\ pos[v].popped \in Nat /\ pos[v].id \in Parts
      /\ pos[v] = [id |-> pos[v].id, popped |-> pos[v].popped] /\ latest \in Nat
      /\ latest <= MaxPart
  BY <1>1, <1>2 DEF Placed, Parts
<1>4. \A p \in Parts : Len(queue[p]) \in Nat
  BY <1>1
<1> QED
  BY <1>1, <1>2, <1>3, <1>4 DEF Placed, Inv, TypeInv, VMType

\* Records passed before the step stay finished.
LEMMA FinishedStays ==
  ASSUME Inv, Appended, NEW v \in VMs, ran \subseteq ran', gave_up \subseteq gave_up',
         \A p \in Parts : \A n \in 1 .. Len(queue[p]) :
           Passed(v, <<p, n>>)' => Passed(v, <<p, n>>),
         pos'[v].id \in Nat, pos'[v].id <= latest,
         pos'[v].popped \in Nat, pos'[v].popped <= Len(queue[pos'[v].id])
  PROVE  Finished(v)'
<1> SUFFICES ASSUME NEW p \in Parts, NEW n \in 1 .. Len(queue'[p]),
                    Passed(v, <<p, n>>)', Mine(v, queue'[p][n]),
                    <<v, <<p, n>>>> \notin gave_up',
                    NEW s \in ScriptIds, Runs(v, queue'[p][n], s)
             PROVE  <<v, <<p, n>>, s>> \in ran'
  BY DEF Finished
<1>1. n \in 1 .. Len(queue[p]) /\ queue'[p][n] = queue[p][n]
  <2>1. p < pos'[v].id \/ (p = pos'[v].id /\ n <= pos'[v].popped)
    BY DEF Passed
  <2>2. p \in Nat /\ latest \in Nat
    BY ScriptsAssumption DEF Parts, Inv, TypeInv, QueueType
  <2>3. Len(queue[p]) \in Nat /\ Len(queue'[p]) \in Nat
    BY DEF Appended
  <2>4. CASE p < pos'[v].id
    <3>1. queue'[p] = queue[p]
      BY <2>2, <2>4 DEF Appended
    <3> QED
      BY <3>1
  <2>5. CASE p = pos'[v].id /\ n <= pos'[v].popped
    <3>1. n \in 1 .. Len(queue[p])
      BY <2>3, <2>5
    <3> QED
      BY <3>1 DEF Appended
  <2> QED
    BY <2>1, <2>4, <2>5
<1>2. Passed(v, <<p, n>>)
  BY <1>1
<1>3. Finished(v) /\ <<v, <<p, n>>>> \notin gave_up
  BY DEF Inv, RunInv
<1> QED
  BY <1>1, <1>2, <1>3 DEF Finished

\* Scripts run here, but for the one that may run now.
LEMMA RanStays ==
  ASSUME Inv, Appended, NEW v \in VMs,
         \A p \in Parts, n \in Nat, s \in ScriptIds : <<v, <<p, n>>, s>> \in ran' =>
           \/ <<v, <<p, n>>, s>> \in ran
           \/ n \in 1 .. Len(queue[p]) /\ Mine(v, queue[p][n]) /\ RunsAt(v, queue[p][n], s)
  PROVE  RanHere(v)'
<1> SUFFICES ASSUME NEW p \in Parts, NEW n \in Nat, NEW s \in ScriptIds,
                    <<v, <<p, n>>, s>> \in ran'
             PROVE  /\ n \in 1 .. Len(queue'[p]) /\ Mine(v, queue'[p][n])
                    /\ RunsAt(v, queue'[p][n], s)
  BY DEF RanHere
<1>1. /\ n \in 1 .. Len(queue[p]) /\ Mine(v, queue[p][n]) /\ RunsAt(v, queue[p][n], s)
  <2>1. RanHere(v)
    BY DEF Inv, RunInv
  <2> QED
    BY <2>1 DEF RanHere
<1>2. /\ queue'[p][n] = queue[p][n] /\ Len(queue[p]) <= Len(queue'[p])
      /\ Len(queue[p]) \in Nat /\ Len(queue'[p]) \in Nat
  BY <1>1 DEF Appended
<1> QED
  BY <1>1, <1>2

\* A process that does nothing.
LEMMA GoodFrame ==
  ASSUME Inv, Appended, latest' \in Parts, latest <= latest', NEW w \in VMs, Still(w),
         ran \subseteq ran', gave_up \subseteq gave_up',
         \A p \in Parts, n \in Nat, s \in ScriptIds :
           <<w, <<p, n>>, s>> \in ran' => <<w, <<p, n>>, s>> \in ran
  PROVE  Good(w)'
<1>1. /\ pos[w].id \in Nat /\ pos[w].popped \in Nat /\ pos[w].id \in Parts
      /\ latest \in Nat /\ latest' \in Nat
      /\ pos[w].id <= latest /\ pos[w].popped <= Len(queue[pos[w].id])
      /\ Len(queue[pos[w].id]) \in Nat /\ Len(queue'[pos[w].id]) \in Nat
      /\ Len(queue[pos[w].id]) <= Len(queue'[pos[w].id])
      /\ Placed(w) /\ InOrder(w) /\ Tried(w) /\ Finished(w) /\ RanHere(w)
  <2>1. latest' \in Nat
    BY ScriptsAssumption DEF Parts
  <2>2. /\ pos[w].id \in Nat /\ pos[w].popped \in Nat /\ pos[w].id \in Parts /\ Good(w)
        /\ latest \in Nat /\ pos[w].id <= latest /\ pos[w].popped <= Len(queue[pos[w].id])
    BY VMFacts
  <2>3. /\ Len(queue[pos[w].id]) \in Nat /\ Len(queue'[pos[w].id]) \in Nat
        /\ Len(queue[pos[w].id]) <= Len(queue'[pos[w].id])
    BY <2>2 DEF Appended
  <2> QED
    BY <2>1, <2>2, <2>3 DEF Good
<1>2. Placed(w)'
  BY <1>1 DEF Placed, Still
<1>2a. InOrder(w)'
  BY <1>1 DEF InOrder, Still
<1>3. at[w] # "pop" => InHand(w)' = InHand(w) /\ Here(w)' = Here(w)
  <2> SUFFICES ASSUME at[w] # "pop" PROVE InHand(w)' = InHand(w) /\ Here(w)' = Here(w)
    OBVIOUS
  <2>1. pos[w].popped + 1 \in 1 .. Len(queue[pos[w].id])
    BY <1>1 DEF Placed
  <2>2. queue'[pos[w].id][pos[w].popped + 1] = queue[pos[w].id][pos[w].popped + 1]
    BY <1>1, <2>1 DEF Appended
  <2> QED
    BY <2>2 DEF InHand, Here, Still
<1>4. Tried(w)'
  <2> SUFFICES ASSUME at[w] # "pop"
               PROVE  Tried(w)'
    BY DEF Tried, Still
  <2>1. PICK h, y : h = InHand(w) /\ y = Here(w) /\ h = InHand(w)' /\ y = Here(w)'
    BY <1>3
  <2>2. /\ Mine(w, h)
        /\ \A s \in ScriptIds : Runs(w, h, s) => s \in ToSet(todo[w]) \/ <<w, y, s>> \in ran
        /\ at[w] = "commit" => Runs(w, h, Head(todo[w]))
    BY <1>1, <2>1 DEF Tried
  <2> QED
    BY <2>1, <2>2 DEF Tried, Still
<1>5. Finished(w)'
  <2>1. \A p \in Parts : \A n \in 1 .. Len(queue[p]) :
          Passed(w, <<p, n>>)' => Passed(w, <<p, n>>)
    BY DEF Passed, Still
  <2> QED
    BY <1>1, <2>1, FinishedStays DEF Still
<1>6. RanHere(w)'
  BY RanStays
<1> QED
  BY <1>2, <1>2a, <1>4, <1>5, <1>6 DEF Good

\* A step of one process.
Others(v) ==
  /\ setting' = setting /\ latest' = latest /\ Appended /\ VMType'
  /\ ran \subseteq ran' /\ gave_up \subseteq gave_up'
  /\ \A w \in VMs \ {v} :
       /\ Still(w)
       /\ \A p \in Parts, n \in Nat, s \in ScriptIds :
            <<w, <<p, n>>, s>> \in ran' => <<w, <<p, n>>, s>> \in ran

\* It is enough to look at the process that moves.
LEMMA OneMoves ==
  ASSUME Inv, NEW v \in VMs, Others(v), Good(v)'
  PROVE  Inv'
<1>1. latest \in Parts /\ latest <= latest'
  BY ScriptsAssumption DEF Inv, TypeInv, QueueType, Parts, Others
<1>2. ASSUME NEW w \in VMs PROVE Good(w)'
  BY <1>1, GoodFrame DEF Others
<1>3. QueueType' /\ setting' \in Settings
  BY <1>1 DEF Others, Appended, QueueType, Inv, TypeInv
<1> QED
  BY <1>2, <1>3 DEF Inv, TypeInv, RunInv, Good, Others

\* A process that stays at its record.
LEMMA HandStays ==
  ASSUME Inv, NEW v \in VMs, Others(v), pos'[v] = pos[v], at[v] # "pop"
  PROVE  /\ Placed(v)' /\ Finished(v)' /\ InHand(v)' = InHand(v) /\ Here(v)' = Here(v)
         /\ pos[v].popped + 1 \in 1 .. Len(queue[pos[v].id]) /\ pos[v].id \in Parts
<1>1. /\ pos[v].id \in Nat /\ pos[v].popped \in Nat /\ pos[v].id \in Parts
      /\ pos[v].id <= latest /\ pos[v].popped <= Len(queue[pos[v].id])
      /\ Len(queue[pos[v].id]) \in Nat /\ Good(v)
  BY VMFacts
<1>2. /\ Len(queue'[pos[v].id]) \in Nat /\ Len(queue[pos[v].id]) <= Len(queue'[pos[v].id])
      /\ latest' = latest /\ ran \subseteq ran' /\ gave_up \subseteq gave_up' /\ Appended
  BY <1>1 DEF Others, Appended
<1>3. pos[v].popped + 1 \in 1 .. Len(queue[pos[v].id])
  BY <1>1 DEF Good, Placed
<1>4. queue'[pos[v].id][pos[v].popped + 1] = queue[pos[v].id][pos[v].popped + 1]
  BY <1>1, <1>3 DEF Others, Appended
<1>5. InHand(v)' = InHand(v) /\ Here(v)' = Here(v)
  BY <1>4 DEF InHand, Here
<1>6. Placed(v)'
  BY <1>1, <1>2, <1>3, SMTT(30) DEF Placed
<1>7. \A p \in Parts : \A n \in 1 .. Len(queue[p]) :
        Passed(v, <<p, n>>)' => Passed(v, <<p, n>>)
  BY DEF Passed
<1>8. Finished(v)'
  BY <1>1, <1>2, <1>7, FinishedStays
<1> QED
  BY <1>1, <1>3, <1>5, <1>6, <1>8

\* A process that goes back to the record, or has none.
LEMMA BackToPop ==
  ASSUME Inv, NEW v \in VMs, Others(v), pos'[v] = pos[v], at'[v] = "pop",
         ran' = ran, tnx'[v] = <<>>, sent'[v] = 0,
         todo'[v] = <<>> \/ todo'[v] = todo[v]
  PROVE  Good(v)'
<1>1. /\ pos[v].id \in Nat /\ pos[v].popped \in Nat /\ pos[v].id \in Parts
      /\ pos[v].id <= latest /\ pos[v].popped <= Len(queue[pos[v].id])
      /\ Len(queue[pos[v].id]) \in Nat /\ Good(v)
  BY VMFacts
<1>2. /\ Len(queue'[pos[v].id]) \in Nat /\ Len(queue[pos[v].id]) <= Len(queue'[pos[v].id])
      /\ latest' = latest /\ ran \subseteq ran' /\ gave_up \subseteq gave_up' /\ Appended
  BY <1>1 DEF Others, Appended
<1>3. Placed(v)'
  BY <1>1, <1>2 DEF Placed
<1>4. \A p \in Parts : \A n \in 1 .. Len(queue[p]) :
        Passed(v, <<p, n>>)' => Passed(v, <<p, n>>)
  BY DEF Passed
<1>5. Finished(v)' /\ RanHere(v)'
  BY <1>1, <1>2, <1>4, FinishedStays, RanStays
<1>6. InOrder(v)'
  <2>1. Len(<<>>) = 0 /\ sent'[v] <= Len(tnx'[v])
    BY EmptySeq
  <2>2. \E k \in 1 .. Len(Order) + 1 : todo'[v] = SubSeq(Order, k, Len(Order))
    BY <1>1, NoneLeft DEF InOrder, Good
  <2> QED
    BY <2>1, <2>2 DEF InOrder
<1> QED
  BY <1>3, <1>5, <1>6 DEF Good, Tried

\* The position moves on: the record in hand has to be finished.
LEMMA MovesOn ==
  ASSUME Inv, NEW v \in VMs, Others(v), queue' = queue, at'[v] = "pop",
         pos'[v] = [pos[v] EXCEPT !.popped = @ + 1],
         pos[v].popped < Len(queue[pos[v].id]),
         ran' = ran, tnx'[v] = <<>>, sent'[v] = 0,
         todo'[v] = <<>> \/ todo'[v] = todo[v],
         Mine(v, InHand(v)) => \/ <<v, Here(v)>> \in gave_up'
                               \/ \A s \in ScriptIds : Runs(v, InHand(v), s) =>
                                    <<v, Here(v), s>> \in ran
  PROVE  Good(v)'
<1>1. /\ pos[v].id \in Nat /\ pos[v].popped \in Nat /\ pos[v].id \in Parts
      /\ pos[v].id <= latest /\ Len(queue[pos[v].id]) \in Nat /\ Good(v)
      /\ pos[v] = [id |-> pos[v].id, popped |-> pos[v].popped]
  BY VMFacts
<1>2. pos'[v].id = pos[v].id /\ pos'[v].popped = pos[v].popped + 1
  BY <1>1
<1>3. latest' = latest /\ ran \subseteq ran' /\ gave_up \subseteq gave_up' /\ Appended
  BY DEF Others
<1>4. Placed(v)'
  BY <1>1, <1>2, <1>3 DEF Placed
<1>5. Finished(v)'
  <2> SUFFICES ASSUME NEW p \in Parts, NEW n \in 1 .. Len(queue[p]),
                      Passed(v, <<p, n>>)', Mine(v, queue[p][n]),
                      <<v, <<p, n>>>> \notin gave_up',
                      NEW s \in ScriptIds, Runs(v, queue[p][n], s)
               PROVE  <<v, <<p, n>>, s>> \in ran
    BY DEF Finished
  <2>1. p \in Nat /\ n \in Nat
    BY ScriptsAssumption DEF Parts
  <2>2. Passed(v, <<p, n>>) \/ (p = pos[v].id /\ n = pos[v].popped + 1)
    BY <1>1, <1>2, <2>1 DEF Passed
  <2>3. CASE Passed(v, <<p, n>>)
    BY <1>1, <1>3, <2>3 DEF Finished, Good
  <2>4. CASE p = pos[v].id /\ n = pos[v].popped + 1
    BY <2>4 DEF InHand, Here
  <2> QED
    BY <2>2, <2>3, <2>4
<1>6. RanHere(v)'
  BY <1>3, RanStays
<1>7. InOrder(v)'
  <2>1. Len(<<>>) = 0 /\ sent'[v] <= Len(tnx'[v])
    BY EmptySeq
  <2>2. \E k \in 1 .. Len(Order) + 1 : todo'[v] = SubSeq(Order, k, Len(Order))
    BY <1>1, NoneLeft DEF InOrder, Good
  <2> QED
    BY <2>1, <2>2 DEF InOrder
<1> QED
  BY <1>4, <1>5, <1>6, <1>7 DEF Good, Tried

\* The next script: the first of the ones still to try has run or does not.
LEMMA ScriptDone ==
  ASSUME Inv, NEW v \in VMs, Others(v), queue' = queue, at[v] # "pop",
         at'[v] = "scripts", pos'[v] = pos[v], todo[v] # <<>>, todo'[v] = Tail(todo[v]),
         tnx'[v] = <<>>, sent'[v] = 0,
         \/ ran' = ran /\ ~Runs(v, InHand(v), Head(todo[v]))
         \/ /\ ran' = ran \cup {<<v, Here(v), Head(todo[v])>>}
            /\ Runs(v, InHand(v), Head(todo[v]))
  PROVE  Good(v)'
<1>1. /\ Placed(v)' /\ Finished(v)' /\ InHand(v)' = InHand(v) /\ Here(v)' = Here(v)
      /\ pos[v].popped + 1 \in 1 .. Len(queue[pos[v].id]) /\ pos[v].id \in Parts
  BY HandStays
<1>2. todo[v] \in Seq(ScriptIds) /\ Good(v) /\ pos[v].popped \in Nat
  BY VMFacts
<1>3. /\ Tail(todo[v]) \in Seq(ScriptIds) /\ Head(todo[v]) \in ScriptIds
      /\ \A x \in ToSet(todo[v]) : x = Head(todo[v]) \/ x \in ToSet(Tail(todo[v]))
  BY <1>2, TailSet
<1>4. InOrder(v)'
  <2>1. PICK k \in 1 .. Len(Order) + 1 : todo[v] = SubSeq(Order, k, Len(Order))
    BY <1>2 DEF Good, InOrder
  <2>2. Order \in Seq(ScriptIds)
    BY ScriptsAssumption DEF ScriptIds
  <2>3. k + 1 \in 1 .. Len(Order) + 1 /\ Tail(todo[v]) = SubSeq(Order, k + 1, Len(Order))
    BY <2>1, <2>2, TailOfOrder
  <2>4. Len(<<>>) = 0 /\ sent'[v] <= Len(tnx'[v])
    BY EmptySeq
  <2> QED
    BY <2>3, <2>4 DEF InOrder
<1>5. PICK h, y : h = InHand(v) /\ y = Here(v) /\ h = InHand(v)' /\ y = Here(v)'
  BY <1>1
<1>6. /\ Mine(v, h)
      /\ \A s \in ScriptIds : Runs(v, h, s) => s \in ToSet(todo[v]) \/ <<v, y, s>> \in ran
  BY <1>2, <1>5 DEF Tried, Good
<1>7. Tried(v)'
  <2>1. \A s \in ScriptIds : Runs(v, h, s) =>
          s \in ToSet(Tail(todo[v])) \/ <<v, y, s>> \in ran'
    BY <1>3, <1>5, <1>6
  <2> QED
    BY <1>5, <1>6, <2>1 DEF Tried
<1>8. RanHere(v)'
  <2>1. ASSUME NEW p \in Parts, NEW n \in Nat, NEW s \in ScriptIds,
               <<v, <<p, n>>, s>> \in ran', <<v, <<p, n>>, s>> \notin ran
        PROVE  n \in 1 .. Len(queue[p]) /\ Mine(v, queue[p][n]) /\ RunsAt(v, queue[p][n], s)
    <3>1. <<p, n>> = y /\ s = Head(todo[v]) /\ Runs(v, h, s)
      BY <1>5, <2>1
    <3>2. p = pos[v].id /\ n = pos[v].popped + 1
      BY <1>5, <3>1 DEF Here
    <3>3. queue[p][n] = h
      BY <1>5, <3>2 DEF InHand
    <3> QED
      BY <1>1, <1>6, <3>1, <3>2, <3>3 DEF Runs
  <2> QED
    BY <2>1, RanStays DEF Others
<1> QED
  BY <1>1, <1>4, <1>7, <1>8 DEF Good

\* Only what belongs to the process v changes.
Form(v) ==
  /\ pos' = [pos EXCEPT ![v] = pos'[v]] /\ at' = [at EXCEPT ![v] = at'[v]]
  /\ todo' = [todo EXCEPT ![v] = todo'[v]] /\ tnx' = [tnx EXCEPT ![v] = tnx'[v]]
  /\ sent' = [sent EXCEPT ![v] = sent'[v]]

\* What a step of one process does, in one form for all steps.
LEMMA StepForm ==
  ASSUME Inv, NEW v \in VMs, setting' = setting, latest' = latest, Appended,
         gave_up \subseteq gave_up',
         ran' = ran \/ \E r, s : ran' = ran \cup {<<v, r, s>>},
         Form(v), pos'[v] \in [id: Nat, popped: Nat],
         at'[v] \in {"pop", "scripts", "commit"}, todo'[v] \in Seq(ScriptIds),
         tnx'[v] \in Seq(Writes), sent'[v] \in Nat
  PROVE  Others(v)
<1>1. VMType
  BY DEF Inv, TypeInv
<1>2. VMType' /\ \A w \in VMs \ {v} : Still(w)
  BY <1>1, ZenonT(30) DEF VMType, Still, Form
<1>4. ran \subseteq ran'
  OBVIOUS
<1>5. ASSUME NEW w \in VMs \ {v}, NEW q \in Parts, NEW n \in Nat, NEW s \in ScriptIds,
             <<w, <<q, n>>, s>> \in ran'
      PROVE  <<w, <<q, n>>, s>> \in ran
  BY <1>5
<1> QED
  BY <1>2, <1>4, <1>5 DEF Others

\* What a process has before a step.
LEMMA Unmoved ==
  ASSUME Inv, NEW v \in VMs
  PROVE  /\ VMType /\ pos[v] \in [id: Nat, popped: Nat] /\ at[v] \in {"pop", "scripts", "commit"}
         /\ todo[v] \in Seq(ScriptIds) /\ tnx[v] \in Seq(Writes) /\ sent[v] \in Nat
         /\ pos[v].id \in Nat /\ pos[v].popped \in Nat
         /\ [pos[v] EXCEPT !.popped = @ + 1] \in [id: Nat, popped: Nat]
         /\ <<>> \in Seq(Writes) /\ <<>> \in Seq(ScriptIds)
         /\ at[v] # "commit" => tnx[v] = <<>> /\ sent[v] = 0
<1>1. VMType /\ InOrder(v)
  BY DEF Inv, TypeInv
<1>2. /\ pos[v] \in [id: Nat, popped: Nat] /\ at[v] \in {"pop", "scripts", "commit"}
      /\ todo[v] \in Seq(ScriptIds) /\ tnx[v] \in Seq(Writes) /\ sent[v] \in Nat
  BY <1>1 DEF VMType
<1>3. /\ pos[v].id \in Nat /\ pos[v].popped \in Nat
      /\ [pos[v] EXCEPT !.popped = @ + 1] \in [id: Nat, popped: Nat]
  BY <1>2
<1> QED
  BY <1>1, <1>2, <1>3 DEF InOrder
-----------------------------------------------------------------------------
(***************************************************************************)
(* The steps.                                                              *)
(***************************************************************************)

\* The next part of the queue: all of this one is passed.
LEMMA NextPartStep ==
  ASSUME Inv, setting' = setting, NEW v \in VMs, NextPart(v)
  PROVE  Inv'
<1>1. /\ at[v] = "pop" /\ pos[v].popped = Len(queue[pos[v].id]) /\ pos[v].id < latest
      /\ pos' = [pos EXCEPT ![v] = [id |-> pos[v].id + 1, popped |-> 0]]
      /\ UNCHANGED <<queue, latest, todo, at, tnx, sent, ran, gave_up>>
  BY DEF NextPart
<1>2. /\ pos[v].id \in Nat /\ pos[v].id \in Parts /\ pos[v].id <= latest
      /\ latest \in Nat /\ latest \in Parts /\ \A p \in Parts : Len(queue[p]) \in Nat
      /\ Good(v)
  BY VMFacts DEF Inv, TypeInv, QueueType
<1>3. Appended
  BY <1>1, SameQueue DEF Inv, TypeInv
<1>4. [id |-> pos[v].id + 1, popped |-> 0] \in [id: Nat, popped: Nat]
  BY <1>2
<1>5. /\ Others(v) /\ pos'[v] = [id |-> pos[v].id + 1, popped |-> 0]
      /\ at'[v] = "pop" /\ todo'[v] = todo[v] /\ tnx'[v] = tnx[v] /\ sent'[v] = sent[v]
  <2>1. /\ Form(v) /\ pos'[v] = [id |-> pos[v].id + 1, popped |-> 0]
        /\ at'[v] = "pop" /\ todo'[v] = todo[v] /\ tnx'[v] = tnx[v] /\ sent'[v] = sent[v]
    BY <1>1, Unmoved DEF VMType, Form
  <2> QED
    BY <1>1, <1>3, <1>4, <2>1, Unmoved, StepForm
<1>6. pos'[v].id = pos[v].id + 1 /\ pos'[v].popped = 0
  BY <1>5
<1>7. pos[v].id + 1 \in Parts
  BY <1>1, <1>2, ScriptsAssumption DEF Parts
<1>8. Placed(v)'
  BY <1>1, <1>2, <1>5, <1>6, <1>7 DEF Placed
<1>9. Finished(v)'
  <2>1. ASSUME NEW p \in Parts, NEW n \in 1 .. Len(queue[p]), Passed(v, <<p, n>>)'
        PROVE  Passed(v, <<p, n>>)
    <3>1. p \in Nat
      BY ScriptsAssumption DEF Parts
    <3>2. p < pos[v].id + 1
      BY <1>2, <1>6, <2>1 DEF Passed
    <3>3. p < pos[v].id \/ (p = pos[v].id /\ n <= pos[v].popped)
      BY <1>1, <1>2, <3>1, <3>2
    <3> QED
      BY <3>3 DEF Passed
  <2>2. pos'[v].id <= latest
    BY <1>1, <1>2, <1>6
  <2>3. pos'[v].popped <= Len(queue[pos'[v].id])
    BY <1>2, <1>6, <1>7
  <2> QED
    BY <1>1, <1>2, <1>3, <1>6, <2>1, <2>2, <2>3, FinishedStays
<1>10. RanHere(v)'
  BY <1>1, <1>3, RanStays
<1>11. InOrder(v)' /\ Tried(v)'
  BY <1>1, <1>2, <1>5 DEF Good, InOrder, Tried
<1> QED
  BY <1>5, <1>8, <1>9, <1>10, <1>11, OneMoves DEF Good

\* A record is passed over, or taken.
LEMMA PrepareStep ==
  ASSUME Inv, setting' = setting, NEW v \in VMs, Prepare(v)
  PROVE  Inv'
<1>1. /\ at[v] = "pop" /\ pos[v].popped < Len(queue[pos[v].id])
      /\ UNCHANGED <<queue, latest, tnx, sent, ran, gave_up>>
  BY DEF Prepare
<1>2. Appended
  BY <1>1, SameQueue DEF Inv, TypeInv
<1>3. tnx[v] = <<>> /\ sent[v] = 0
  BY <1>1, Unmoved
<1>4. CASE Foreign(v)
  <2>1. /\ pos' = [pos EXCEPT ![v] = [pos[v] EXCEPT !.popped = @ + 1]]
        /\ at' = [at EXCEPT ![v] = "pop"] /\ todo' = todo
    <3>1. CommitAndNext(v) /\ todo' = todo
      BY <1>4 DEF Prepare
    <3> QED
      BY <3>1 DEF CommitAndNext
  <2>2. /\ Others(v) /\ pos'[v] = [pos[v] EXCEPT !.popped = @ + 1]
        /\ at'[v] = "pop" /\ todo'[v] = todo[v] /\ tnx'[v] = tnx[v] /\ sent'[v] = sent[v]
    <3>1. /\ Form(v) /\ pos'[v] = [pos[v] EXCEPT !.popped = @ + 1]
          /\ at'[v] = "pop" /\ todo'[v] = todo[v] /\ tnx'[v] = tnx[v] /\ sent'[v] = sent[v]
      BY <1>1, <2>1, Unmoved DEF VMType, Form
    <3> QED
      BY <1>1, <1>2, <3>1, Unmoved, StepForm
  <2>3. ~Mine(v, InHand(v))
    BY <1>4 DEF Foreign, Mine
  <2>4. Good(v)'
    BY <1>1, <1>3, <2>2, <2>3, MovesOn
  <2> QED
    BY <2>2, <2>4, OneMoves
<1>5. CASE ~Foreign(v)
  <2>1. /\ at' = [at EXCEPT ![v] = "scripts"] /\ todo' = [todo EXCEPT ![v] = Order]
        /\ pos' = pos
    BY <1>5 DEF Prepare
  <2>2. Order \in Seq(ScriptIds)
    BY ScriptsAssumption DEF ScriptIds
  <2>3. /\ Others(v) /\ pos'[v] = pos[v] /\ at'[v] = "scripts" /\ todo'[v] = Order
        /\ tnx'[v] = tnx[v] /\ sent'[v] = sent[v]
    <3>1. /\ Form(v) /\ pos'[v] = pos[v] /\ at'[v] = "scripts" /\ todo'[v] = Order
          /\ tnx'[v] = tnx[v] /\ sent'[v] = sent[v]
      BY <1>1, <2>1, Unmoved DEF VMType, Form
    <3> QED
      BY <1>1, <1>2, <2>2, <3>1, Unmoved, StepForm
  <2>4. /\ Good(v) /\ pos[v].id \in Nat /\ pos[v].popped \in Nat /\ pos[v].id <= latest
        /\ pos[v].id \in Parts /\ queue \in [Parts -> Seq(Record)]
        /\ Len(queue[pos[v].id]) \in Nat
    BY VMFacts
  <2>5. Placed(v)'
    BY <1>1, <2>3, <2>4 DEF Placed, Good
  <2>6. \A p \in Parts : \A n \in 1 .. Len(queue[p]) :
          Passed(v, <<p, n>>)' => Passed(v, <<p, n>>)
    BY <2>3 DEF Passed
  <2>7. Finished(v)' /\ RanHere(v)'
    BY <1>1, <1>2, <2>3, <2>4, <2>6, FinishedStays, RanStays
  <2>8. InOrder(v)'
    <3>1. Len(<<>>) = 0 /\ sent'[v] <= Len(tnx'[v])
      BY <1>3, <2>3, EmptySeq
    <3> QED
      BY <1>3, <2>3, <3>1, NoneLeft DEF InOrder
  <2>9. InHand(v)' = InHand(v)
    BY <1>1, <2>3 DEF InHand
  <2>10. Mine(v, InHand(v))
    <3>1. pos[v].popped + 1 \in 1 .. Len(queue[pos[v].id])
      BY <1>1, <2>4
    <3>2. InHand(v) \in Record
      BY <2>4, <3>1 DEF InHand
    <3> QED
      BY <1>5, <3>2 DEF Foreign, Mine, Record
  <2>11. \A s \in ScriptIds : s \in ToSet(todo'[v])
    BY <2>3 DEF ScriptIds
  <2>12. Tried(v)'
    BY <2>3, <2>9, <2>10, <2>11 DEF Tried
  <2> QED
    BY <2>3, <2>5, <2>7, <2>8, <2>12, OneMoves DEF Good
<1> QED
  BY <1>4, <1>5

\* A script is not run, throws, or has its writes stored: on to the next one.
LEMMA ScriptStep ==
  ASSUME Inv, setting' = setting, NEW v \in VMs,
         SkipScript(v) \/ ScriptThrows(v) \/ Committed(v)
  PROVE  Inv'
<1>1. /\ UNCHANGED <<queue, latest, pos, gave_up>> /\ at[v] # "pop" /\ todo[v] # <<>>
      /\ todo' = [todo EXCEPT ![v] = Tail(todo[v])]
  <2>1. at[v] = "commit" => todo[v] # <<>>
    BY VMFacts DEF Good, InOrder
  <2>2. NextScript(v)
    BY DEF SkipScript, ScriptThrows, Committed
  <2> QED
    BY <2>1, <2>2 DEF NextScript, SkipScript, ScriptThrows, Committed
<1>2. Appended
  BY <1>1, SameQueue DEF Inv, TypeInv
<1>3. /\ todo[v] \in Seq(ScriptIds) /\ Tail(todo[v]) \in Seq(ScriptIds) /\ Good(v)
  BY <1>1, VMFacts, TailSet
<1>4. /\ at'[v] = "scripts" /\ tnx'[v] = <<>> /\ sent'[v] = 0 /\ Form(v)
      /\ pos'[v] = pos[v] /\ todo'[v] = Tail(todo[v])
  <2>1. CASE SkipScript(v) \/ ScriptThrows(v)
    <3>1. at[v] = "scripts" /\ at' = at /\ tnx' = tnx /\ sent' = sent
      BY <2>1 DEF SkipScript, ScriptThrows
    <3> QED
      BY <1>1, <3>1, Unmoved DEF VMType, Form
  <2>2. CASE Committed(v)
    <3>1. /\ at' = [at EXCEPT ![v] = "scripts"] /\ tnx' = [tnx EXCEPT ![v] = <<>>]
          /\ sent' = [sent EXCEPT ![v] = 0]
      BY <2>2 DEF Committed, Forget
    <3> QED
      BY <1>1, <3>1, Unmoved DEF VMType, Form
  <2> QED
    BY <2>1, <2>2
<1>5. \/ ran' = ran /\ ~Runs(v, InHand(v), Head(todo[v]))
      \/ /\ ran' = ran \cup {<<v, Here(v), Head(todo[v])>>}
         /\ Runs(v, InHand(v), Head(todo[v]))
  <2>1. CASE SkipScript(v)
    BY <2>1 DEF SkipScript
  <2>2. CASE ScriptThrows(v)
    BY <2>2 DEF ScriptThrows
  <2>3. CASE Committed(v)
    <3>1. at[v] = "commit" /\ ran' = ran \cup {<<v, Here(v), Head(todo[v])>>}
      BY <2>3 DEF Committed
    <3>2. Runs(v, InHand(v), Head(todo[v]))
      BY <1>3, <3>1 DEF Good, Tried
    <3> QED
      BY <3>1, <3>2
  <2> QED
    BY <2>1, <2>2, <2>3
<1>6. Others(v)
  <2>1. ran' = ran \/ \E r, s : ran' = ran \cup {<<v, r, s>>}
    BY <1>5
  <2>2. /\ pos'[v] \in [id: Nat, popped: Nat] /\ at'[v] \in {"pop", "scripts", "commit"}
        /\ todo'[v] \in Seq(ScriptIds) /\ tnx'[v] \in Seq(Writes) /\ sent'[v] \in Nat
    <3>1. <<>> \in Seq(Writes) /\ pos[v] \in [id: Nat, popped: Nat]
      BY Unmoved
    <3>2. tnx'[v] \in Seq(Writes)
      BY <1>4, <3>1, Zenon
    <3> QED
      BY <1>3, <1>4, <3>1, <3>2
  <2> QED
    BY <1>1, <1>2, <1>4, <2>1, <2>2, StepForm
<1>7. Good(v)'
  BY <1>1, <1>4, <1>5, <1>6, ScriptDone
<1> QED
  BY <1>6, <1>7, OneMoves

\* A script is run, and what it writes is sent.
LEMMA CommitStep ==
  ASSUME Inv, setting' = setting, NEW v \in VMs, Others(v), at[v] # "pop",
         at'[v] = "commit", pos'[v] = pos[v], todo'[v] = todo[v], todo[v] # <<>>,
         ran' = ran, sent'[v] <= Len(tnx'[v]), Runs(v, InHand(v), Head(todo[v]))
  PROVE  Inv'
<1>1. /\ Placed(v)' /\ Finished(v)' /\ InHand(v)' = InHand(v) /\ Here(v)' = Here(v)
  BY HandStays
<1>2. Good(v)
  BY VMFacts
<1>3. RanHere(v)'
  BY RanStays DEF Others
<1>4. InOrder(v)'
  BY <1>2 DEF Good, InOrder
<1>5. PICK h, y : h = InHand(v) /\ y = Here(v) /\ h = InHand(v)' /\ y = Here(v)'
  BY <1>1
<1>6. Tried(v)'
  BY <1>2, <1>5 DEF Good, Tried
<1> QED
  BY <1>1, <1>3, <1>4, <1>6, OneMoves DEF Good

\* What a script writes.
LEMMA OutputFacts ==
  ASSUME NEW us \in Outputs
  PROVE  us \in Seq(Writes)
  BY ScriptsAssumption DEF Outputs

\* The script is run: it was designated to this process.
LEMMA RunScriptStep ==
  ASSUME Inv, setting' = setting, NEW v \in VMs, NEW us \in Outputs, RunScript(v, us)
  PROVE  Inv'
<1>1. /\ at[v] = "scripts" /\ todo[v] # <<>> /\ Runs(v, InHand(v), Head(todo[v]))
      /\ at' = [at EXCEPT ![v] = "commit"] /\ tnx' = [tnx EXCEPT ![v] = us]
      /\ UNCHANGED <<queue, latest, pos, todo, sent, ran, gave_up>>
  BY DEF RunScript
<1>2. Appended
  BY <1>1, SameQueue DEF Inv, TypeInv
<1>3. us \in Seq(Writes) /\ Len(us) \in Nat
  BY OutputFacts
<1>4. /\ Form(v) /\ at'[v] = "commit" /\ pos'[v] = pos[v] /\ todo'[v] = todo[v]
      /\ tnx'[v] = us /\ sent'[v] = sent[v]
  BY <1>1, Unmoved DEF VMType, Form
<1>5. Others(v)
  BY <1>1, <1>2, <1>3, <1>4, Unmoved, StepForm
<1>6. sent'[v] <= Len(tnx'[v])
  <2>1. sent[v] = 0
    BY <1>1, Unmoved
  <2> QED
    BY <1>3, <1>4, <2>1
<1> QED
  BY <1>1, <1>4, <1>5, <1>6, CommitStep

\* What the storage queues for an item is a record.
LEMMA StoreFacts ==
  ASSUME Inv, NEW v \in VMs, NEW ra \in setting.run_at, Sending(v), Store(v, ra)
  PROVE  Appended
<1>1. /\ at[v] = "commit" /\ sent[v] < Len(tnx[v]) /\ todo[v] # <<>>
      /\ todo[v] \in Seq(ScriptIds) /\ tnx[v] \in Seq(Writes) /\ sent[v] \in Nat
      /\ pos[v].id \in Parts /\ pos[v].popped \in Nat
      /\ pos[v].popped < Len(queue[pos[v].id]) /\ Len(queue[pos[v].id]) \in Nat
      /\ queue \in [Parts -> Seq(Record)]
  BY VMFacts DEF Sending, Good, InOrder, Placed
<1>2. PICK r, s, w, h : /\ r = InHand(v) /\ s = Head(todo[v]) /\ w = tnx[v][sent[v] + 1]
                        /\ h = Here(v)
  OBVIOUS
<1>3. r \in Record /\ s \in ScriptIds /\ w \in Writes /\ h \in Parts \X Nat
  <2>1. pos[v].popped + 1 \in 1 .. Len(queue[pos[v].id])
    BY <1>1
  <2>2. sent[v] + 1 \in 1 .. Len(tnx[v])
    BY <1>1
  <2>3. r \in Record /\ w \in Writes
    BY <1>1, <1>2, <2>1, <2>2 DEF InHand
  <2>4. s \in ScriptIds
    BY <1>1, <1>2, TailSet
  <2> QED
    BY <1>1, <1>2, <2>3, <2>4 DEF Here
<1>4. PICK x : /\ Put(x)
               /\ x = [cmd |-> w[1], uri |-> w[2], run_at |-> ra,
                       src |-> IF s \in setting.keep THEN r.src ELSE v,
                       path |-> <<<<r.uri, s>>>> \o r.path, parent |-> h]
  BY <1>2 DEF Store
<1>5. w[1] \in {"put", "remove"} /\ w[2] \in Uris
  BY <1>3 DEF Writes
<1>6. ra \in VMs \cup {NoRunAt}
  BY SettingFacts DEF Inv, TypeInv
<1>7. r.src \in VMs \cup {AnySrc} /\ r.uri \in Uris
      /\ r.path \in Seq((Uris \X ScriptIds) \cup {Ignore})
  BY <1>3 DEF Record
<1>8. <<<<r.uri, s>>>> \o r.path \in Seq((Uris \X ScriptIds) \cup {Ignore})
  <2>1. <<r.uri, s>> \in (Uris \X ScriptIds) \cup {Ignore}
    BY <1>3, <1>7
  <2>2. <<<<r.uri, s>>>> \in Seq((Uris \X ScriptIds) \cup {Ignore})
    BY <2>1
  <2> QED
    BY <1>7, <2>2
<1>9. x \in Record
  BY <1>3, <1>4, <1>5, <1>6, <1>7, <1>8 DEF Record
<1> QED
  BY <1>4, <1>9, PutFacts DEF Inv, TypeInv

\* An item of the transaction is stored, or its answer is lost.
LEMMA ItemStep ==
  ASSUME Inv, setting' = setting, NEW v \in VMs, NEW ra \in setting.run_at,
         CommitItem(v, ra) \/ AnswerLost(v, ra)
  PROVE  Inv'
<1>1. /\ Sending(v) /\ UNCHANGED <<latest, pos, todo, at, tnx, ran, gave_up>>
      /\ sent' = sent \/ sent' = [sent EXCEPT ![v] = sent[v] + 1]
      /\ queue' = queue \/ Store(v, ra)
  <2>1. CASE CommitItem(v, ra)
    BY <2>1 DEF CommitItem, ItemSent
  <2>2. CASE AnswerLost(v, ra)
    <3>1. (ItemSent(v) /\ queue' = queue) \/ (Store(v, ra) /\ sent' = sent)
      BY <2>2 DEF AnswerLost
    <3> QED
      BY <2>2, <3>1 DEF AnswerLost, ItemSent
  <2> QED
    BY <2>1, <2>2
<1>2. Appended
  BY <1>1, SameQueue, StoreFacts DEF Inv, TypeInv
<1>3. /\ at[v] = "commit" /\ sent[v] < Len(tnx[v]) /\ Len(tnx[v]) \in Nat /\ sent[v] \in Nat
      /\ todo[v] # <<>> /\ Runs(v, InHand(v), Head(todo[v]))
  <2>1. at[v] = "commit" /\ sent[v] < Len(tnx[v])
    BY <1>1 DEF Sending
  <2>2. tnx[v] \in Seq(Writes) /\ sent[v] \in Nat /\ Good(v)
    BY VMFacts
  <2> QED
    BY <2>1, <2>2 DEF Good, InOrder, Tried
<1>4. /\ Form(v) /\ at'[v] = "commit" /\ pos'[v] = pos[v] /\ todo'[v] = todo[v]
      /\ tnx'[v] = tnx[v] /\ sent'[v] \in {sent[v], sent[v] + 1}
  BY <1>1, <1>3, Unmoved DEF VMType, Form
<1>5. sent'[v] \in Nat /\ sent'[v] <= Len(tnx'[v])
  BY <1>3, <1>4
<1>6. Others(v)
  BY <1>1, <1>2, <1>4, <1>5, Unmoved, StepForm
<1> QED
  BY <1>1, <1>3, <1>4, <1>5, <1>6, CommitStep

\* The record is repeated or given up after an error, the process dies, or all
\* scripts are tried.
LEMMA LeaveStep ==
  ASSUME Inv, setting' = setting, NEW v \in VMs,
         CommitFails(v) \/ Prepared(v) \/ Dies(v)
  PROVE  Inv'
<1>1. /\ UNCHANGED <<queue, latest, ran>> /\ at[v] # "pop"
      /\ at' = [at EXCEPT ![v] = "pop"]
  BY DEF CommitFails, Prepared, Dies, Sending, CommitAndNext
<1>2. /\ todo' = todo \/ todo' = [todo EXCEPT ![v] = <<>>]
      /\ pos' = pos \/ pos' = [pos EXCEPT ![v] = [pos[v] EXCEPT !.popped = @ + 1]]
  BY DEF CommitFails, Prepared, Dies, CommitAndNext
<1>3. \/ tnx' = tnx /\ sent' = sent /\ at[v] = "scripts"
      \/ tnx' = [tnx EXCEPT ![v] = <<>>] /\ sent' = [sent EXCEPT ![v] = 0]
  BY DEF CommitFails, Prepared, Dies, Forget
<1>4. gave_up \subseteq gave_up'
  BY DEF CommitFails, Prepared, Dies
<1>5. Appended
  BY <1>1, SameQueue DEF Inv, TypeInv
<1>6. /\ Form(v) /\ at'[v] = "pop" /\ tnx'[v] = <<>> /\ sent'[v] = 0
      /\ todo'[v] = <<>> \/ todo'[v] = todo[v]
      /\ pos'[v] \in {pos[v], [pos[v] EXCEPT !.popped = @ + 1]}
  <2>1. VMType /\ (at[v] = "scripts" => tnx[v] = <<>> /\ sent[v] = 0)
    BY Unmoved
  <2>2. /\ at' = [at EXCEPT ![v] = at'[v]] /\ at'[v] = "pop"
        /\ tnx' = [tnx EXCEPT ![v] = tnx'[v]] /\ tnx'[v] = <<>>
        /\ sent' = [sent EXCEPT ![v] = sent'[v]] /\ sent'[v] = 0
    BY <1>1, <1>3, <2>1 DEF VMType
  <2>3. /\ todo' = [todo EXCEPT ![v] = todo'[v]] /\ (todo'[v] = <<>> \/ todo'[v] = todo[v])
    BY <1>2, <2>1 DEF VMType
  <2>4. /\ pos' = [pos EXCEPT ![v] = pos'[v]]
        /\ pos'[v] \in {pos[v], [pos[v] EXCEPT !.popped = @ + 1]}
    BY <1>2, <2>1 DEF VMType
  <2> QED
    BY <2>2, <2>3, <2>4 DEF Form
<1>7. Others(v)
  <2>1. /\ pos'[v] \in [id: Nat, popped: Nat] /\ at'[v] \in {"pop", "scripts", "commit"}
        /\ todo'[v] \in Seq(ScriptIds) /\ tnx'[v] \in Seq(Writes) /\ sent'[v] \in Nat
    <3>1. /\ <<>> \in Seq(Writes) /\ <<>> \in Seq(ScriptIds) /\ todo[v] \in Seq(ScriptIds)
          /\ pos[v] \in [id: Nat, popped: Nat]
          /\ [pos[v] EXCEPT !.popped = @ + 1] \in [id: Nat, popped: Nat]
      BY Unmoved
    <3>2. tnx'[v] \in Seq(Writes) /\ todo'[v] \in Seq(ScriptIds)
      BY <1>6, <3>1, Zenon
    <3> QED
      BY <1>6, <3>1, <3>2
  <2> QED
    BY <1>1, <1>4, <1>5, <1>6, <2>1, StepForm
<1>8. CASE pos'[v] = pos[v]
  <2>1. Good(v)'
    BY <1>1, <1>6, <1>7, <1>8, BackToPop
  <2> QED
    BY <1>7, <2>1, OneMoves
<1>9. CASE pos'[v] # pos[v]
  <2>1. \/ Prepared(v)
        \/ CommitFails(v) /\ <<v, Here(v)>> \in gave_up'
    BY <1>9 DEF CommitFails, Dies
  <2>2. /\ Good(v) /\ pos[v].popped < Len(queue[pos[v].id])
    BY <1>1, VMFacts DEF Good, Placed
  <2>3. \/ <<v, Here(v)>> \in gave_up'
        \/ \A s \in ScriptIds : Runs(v, InHand(v), s) => <<v, Here(v), s>> \in ran
    <3> SUFFICES ASSUME Prepared(v), NEW s \in ScriptIds, Runs(v, InHand(v), s)
                 PROVE  <<v, Here(v), s>> \in ran
      BY <2>1
    <3>1. ToSet(todo[v]) = {}
      BY DEF Prepared, ToSet
    <3> QED
      BY <1>1, <2>2, <3>1 DEF Good, Tried
  <2>4. Good(v)'
    BY <1>1, <1>6, <1>7, <1>9, <2>2, <2>3, MovesOn
  <2> QED
    BY <1>7, <2>4, OneMoves
<1> QED
  BY <1>8, <1>9

\* A user writes an individual.
LEMMA UserStep ==
  ASSUME Inv, setting' = setting, NEW u \in Uris, NEW c \in {"put", "remove"},
         NEW ra \in setting.run_at, NEW path \in UserPaths, UserPut(u, c, ra, path)
  PROVE  Inv'
<1>1. UNCHANGED <<latest, pos, todo, at, tnx, sent, ran, gave_up>>
  BY DEF UserPut
<1>2. PICK x : /\ Put(x)
               /\ x = [uri |-> u, cmd |-> c, run_at |-> ra, src |-> AnySrc, path |-> path,
                       parent |-> NoParent]
  BY DEF UserPut
<1>3. ra \in VMs \cup {NoRunAt}
  BY SettingFacts DEF Inv, TypeInv
<1>4. path \in Seq((Uris \X ScriptIds) \cup {Ignore})
  <2>1. path = <<>> \/ path = <<Ignore>>
    BY ScriptsAssumption
  <2>2. Ignore \in (Uris \X ScriptIds) \cup {Ignore}
    OBVIOUS
  <2>3. ASSUME NEW S, NEW i \in S PROVE <<>> \in Seq(S) /\ <<i>> \in Seq(S)
    OBVIOUS
  <2> QED
    BY <2>1, <2>2, <2>3, Zenon
<1>5. x \in Record
  BY <1>2, <1>3, <1>4 DEF Record
<1>6. Appended
  BY <1>2, <1>5, PutFacts DEF Inv, TypeInv
<1>7. latest \in Parts /\ latest' \in Parts /\ latest <= latest'
  BY <1>1, ScriptsAssumption DEF Inv, TypeInv, QueueType, Parts
<1>8. ASSUME NEW w \in VMs PROVE Good(w)'
  BY <1>1, <1>6, <1>7, GoodFrame DEF Still
<1>9. QueueType' /\ setting' \in Settings /\ VMType'
  BY <1>1, <1>6, <1>7 DEF Appended, QueueType, Inv, TypeInv, VMType
<1> QED
  BY <1>8, <1>9 DEF Inv, TypeInv, RunInv, Good

\* All processes are started again, with a new part of the queue.
LEMMA RestartStep ==
  ASSUME Inv, setting' = setting, StorageRestarts
  PROVE  Inv'
<1>1. /\ latest < setting.parts /\ latest' = latest + 1
      /\ todo' = [v \in VMs |-> <<>>] /\ at' = [v \in VMs |-> "pop"]
      /\ tnx' = [v \in VMs |-> <<>>] /\ sent' = [v \in VMs |-> 0]
      /\ UNCHANGED <<queue, pos, ran, gave_up>>
  BY DEF StorageRestarts
<1>2. Appended
  BY <1>1, SameQueue DEF Inv, TypeInv
<1>3. latest \in Parts /\ latest \in Nat /\ latest' \in Parts /\ latest <= latest'
  BY <1>1, SettingFacts DEF Inv, TypeInv, QueueType, Parts
<1>4. /\ <<>> \in Seq(Writes) /\ <<>> \in Seq(ScriptIds) /\ Len(<<>>) = 0
  BY EmptySeq
<1>5. VMType'
  <2>1. pos' \in [VMs -> [id: Nat, popped: Nat]]
    BY <1>1 DEF Inv, TypeInv, VMType
  <2> QED
    BY <1>1, <1>4, <2>1 DEF VMType
<1>6. ASSUME NEW v \in VMs PROVE Good(v)'
  <2>1. /\ at'[v] = "pop" /\ todo'[v] = <<>> /\ tnx'[v] = <<>> /\ sent'[v] = 0
        /\ pos'[v] = pos[v]
    BY <1>1
  <2>2. /\ pos[v].id \in Nat /\ pos[v].popped \in Nat /\ pos[v].id \in Parts
        /\ pos[v].id <= latest /\ pos[v].popped <= Len(queue[pos[v].id]) /\ Good(v)
    BY VMFacts
  <2>3. Placed(v)'
    BY <1>1, <1>3, <2>1, <2>2 DEF Placed
  <2>4. InOrder(v)'
    <3>1. sent'[v] <= Len(tnx'[v])
      BY <1>4, <2>1
    <3> QED
      BY <2>1, <3>1, NoneLeft DEF InOrder
  <2>5. \A p \in Parts : \A n \in 1 .. Len(queue[p]) :
          Passed(v, <<p, n>>)' => Passed(v, <<p, n>>)
    BY <1>1 DEF Passed
  <2>6. Finished(v)' /\ RanHere(v)'
    BY <1>1, <1>2, <2>1, <2>2, <2>5, FinishedStays, RanStays
  <2> QED
    BY <2>1, <2>3, <2>4, <2>6 DEF Good, Tried
<1>7. QueueType' /\ setting' \in Settings
  BY <1>1, <1>3 DEF QueueType, Inv, TypeInv
<1> QED
  BY <1>5, <1>6, <1>7 DEF Inv, TypeInv, RunInv, Good

\* All steps.
LEMMA InvStep ==
  ASSUME Inv, [Next]_vars
  PROVE  Inv'
<1>1. CASE UNCHANGED vars
  <2>1. UNCHANGED <<setting, queue, latest, pos, todo, at, tnx, sent, ran, gave_up>>
    BY <1>1 DEF vars
  <2> QED
    BY <2>1 DEF Inv, TypeInv, RunInv, QueueType, VMType, Placed, InOrder, Tried, Finished,
                RanHere, Passed, InHand, Here
<1>2. ASSUME NEW v \in VMs, Process(v) PROVE Inv'
  <2>1. setting' = setting
    BY <1>2 DEF Process
  <2>2. CASE NextPart(v)
    BY <2>1, <2>2, NextPartStep
  <2>3. CASE Prepare(v)
    BY <2>1, <2>3, PrepareStep
  <2>4. CASE SkipScript(v) \/ Committed(v)
    BY <2>1, <2>4, ScriptStep
  <2>5. CASE \E us \in Outputs : RunScript(v, us)
    BY <2>1, <2>5, RunScriptStep
  <2>6. CASE \E ra \in setting.run_at : CommitItem(v, ra)
    BY <2>1, <2>6, ItemStep
  <2>7. CASE Prepared(v)
    BY <2>1, <2>7, LeaveStep
  <2> QED
    BY <1>2, <2>2, <2>3, <2>4, <2>5, <2>6, <2>7 DEF Process
<1>3. CASE Other /\ UNCHANGED setting
  <2>1. CASE \E u \in Uris, c \in {"put", "remove"}, ra \in setting.run_at, p \in UserPaths :
               UserPut(u, c, ra, p)
    BY <1>3, <2>1, UserStep
  <2>2. CASE StorageRestarts
    BY <1>3, <2>2, RestartStep
  <2>3. ASSUME NEW v \in VMs, \/ ScriptThrows(v) \/ CommitFails(v) \/ Dies(v)
                              \/ \E ra \in setting.run_at : AnswerLost(v, ra)
        PROVE  Inv'
    BY <1>3, <2>3, ScriptStep, LeaveStep, ItemStep
  <2> QED
    BY <1>3, <2>1, <2>2, <2>3 DEF Other
<1> QED
  BY <1>1, <1>2, <1>3 DEF Next

\* The first state.
LEMMA InvInit ==
  ASSUME Init
  PROVE  Inv
<1>1. /\ queue = [p \in Parts |-> <<>>] /\ latest = 0 /\ ran = {}
      /\ pos = [v \in VMs |-> [id |-> 0, popped |-> 0]]
      /\ todo = [v \in VMs |-> <<>>] /\ at = [v \in VMs |-> "pop"]
      /\ tnx = [v \in VMs |-> <<>>] /\ sent = [v \in VMs |-> 0] /\ setting \in Settings
  BY DEF Init
<1>2. /\ <<>> \in Seq(Writes) /\ <<>> \in Seq(ScriptIds) /\ <<>> \in Seq(Record)
      /\ Len(<<>>) = 0
  BY EmptySeq
<1>3. 0 \in Parts
  BY ScriptsAssumption DEF Parts
<1>4. QueueType /\ VMType
  BY <1>1, <1>2, <1>3 DEF QueueType, VMType
<1>5. \A p \in Parts : Len(queue[p]) = 0
  BY <1>1, <1>2
<1>6. ASSUME NEW v \in VMs PROVE Good(v)
  <2>1. /\ at[v] = "pop" /\ todo[v] = <<>> /\ tnx[v] = <<>> /\ sent[v] = 0
        /\ pos[v].id = 0 /\ pos[v].popped = 0
    BY <1>1
  <2>2. Placed(v)
    BY <1>1, <1>3, <1>5, <2>1 DEF Placed
  <2>3. InOrder(v)
    <3>1. sent[v] <= Len(tnx[v])
      BY <1>2, <2>1
    <3> QED
      BY <2>1, <3>1, NoneLeft DEF InOrder
  <2>4. Finished(v)
    BY <1>5 DEF Finished
  <2> QED
    BY <1>1, <2>1, <2>2, <2>3, <2>4 DEF Good, Tried, RanHere
<1> QED
  BY <1>1, <1>4, <1>6 DEF Inv, TypeInv, RunInv, Good
-----------------------------------------------------------------------------
(***************************************************************************)
(* The theorems.                                                           *)
(***************************************************************************)

\* The positions of the processes are in the queue, what they do for a record
\* they do for one that is there, and the scripts still to try are the end of
\* the order, whatever the processes, the storage and the users do.
THEOREM TypeTheorem == Spec => []TypeOK
<1>1. Inv => TypeOK
  <2> SUFFICES ASSUME Inv PROVE TypeOK
    OBVIOUS
  <2>1. /\ setting \in Settings /\ latest \in Parts /\ queue \in [Parts -> Seq(Record)]
    BY DEF Inv, TypeInv, QueueType
  <2>2. \A p \in Parts : \A n \in DOMAIN queue[p] : queue[p][n] \in Record
    BY <2>1
  <2>3. ASSUME NEW v \in VMs
        PROVE  /\ pos[v].id \in 0 .. latest
               /\ pos[v].popped \in 0 .. Len(queue[pos[v].id])
               /\ at[v] # "pop" => pos[v].popped < Len(queue[pos[v].id])
               /\ \E k \in 1 .. Len(Order) + 1 : todo[v] = SubSeq(Order, k, Len(Order))
               /\ at[v] = "commit" => todo[v] # <<>>
               /\ sent[v] \in 0 .. Len(tnx[v])
    <3>1. /\ pos[v].id \in Nat /\ pos[v].popped \in Nat /\ pos[v].id \in Parts
          /\ latest \in Nat /\ pos[v].id <= latest
          /\ pos[v].popped <= Len(queue[pos[v].id]) /\ Len(queue[pos[v].id]) \in Nat
          /\ tnx[v] \in Seq(Writes) /\ sent[v] \in Nat /\ Placed(v) /\ InOrder(v)
      BY VMFacts DEF Good
    <3>2. Len(tnx[v]) \in Nat
      BY <3>1
    <3> QED
      BY <3>1, <3>2 DEF Placed, InOrder
  <2> QED
    BY <2>1, <2>2, <2>3 DEF TypeOK
<1> QED
  BY <1>1, InvInit, InvStep, PTL DEF Spec

\* The process that has to run the script s for a record.
Designated(r, s) ==
  IF r.src # AnySrc THEN r.src ELSE IF r.run_at # NoRunAt THEN r.run_at ELSE RunAt(s)

\* It is a process, and the only one that runs the script.
LEMMA OneIsDesignated ==
  ASSUME NEW r \in Record, NEW s \in ScriptIds, r.cmd = "put"
  PROVE  /\ Designated(r, s) \in VMs
         /\ \A v \in VMs : Mine(v, r) /\ RunsAt(v, r, s) <=> v = Designated(r, s)
<1>1. r.src \in VMs \cup {AnySrc} /\ r.run_at \in VMs \cup {NoRunAt}
  BY DEF Record
<1>2. RunAt(s) \in VMs
  BY ScriptsAssumption DEF RunAt
<1>3. AnySrc \notin VMs
  BY ScriptsAssumption DEF AnySrc
<1> QED
  BY <1>1, <1>2, <1>3 DEF Designated, Mine, RunsAt

\* Every script that a change triggers runs for it in exactly one process,
\* once all have passed it: for every order and filter of scripts, any number
\* of processes' deaths, failing commits, exceptions and restarts, unless a
\* process gave the record up for an error that is not worth a retry.
THEOREM OneProcessRunsTheorem == Spec => []OneProcessRuns
<1>1. Inv => OneProcessRuns
  <2> SUFFICES ASSUME Inv, NEW x \in Positions, NEW s \in ScriptIds,
                      At(x).cmd = "put", <<At(x).uri, s>> \in Triggers, ~Looped(At(x), s),
                      \A v \in VMs : Passed(v, x),
                      \A v \in VMs : <<v, x>> \notin gave_up
               PROVE  Cardinality({v \in VMs : <<v, x, s>> \in ran}) = 1
    BY DEF OneProcessRuns
  <2>1. PICK p \in Parts, n \in Nat : x = <<p, n>> /\ n \in 1 .. Len(queue[p])
    BY ScriptsAssumption DEF Positions
  <2>2. PICK r : r = queue[p][n] /\ r = At(x) /\ r \in Record
    BY <2>1 DEF At, Inv, TypeInv, QueueType
  <2>3. PICK d \in VMs : /\ d = Designated(r, s)
                         /\ \A v \in VMs : Mine(v, r) /\ RunsAt(v, r, s) <=> v = d
    BY <2>2, OneIsDesignated
  <2>4. <<d, x, s>> \in ran
    <3>1. Finished(d) /\ Passed(d, <<p, n>>) /\ <<d, <<p, n>>>> \notin gave_up
      BY <2>1 DEF Inv, RunInv
    <3>2. Mine(d, r) /\ Runs(d, r, s)
      BY <2>2, <2>3 DEF Runs
    <3> QED
      BY <2>1, <2>2, <3>1, <3>2 DEF Finished
  <2>5. ASSUME NEW v \in VMs, <<v, x, s>> \in ran PROVE v = d
    <3>1. RanHere(v)
      BY DEF Inv, RunInv
    <3>2. Mine(v, r) /\ RunsAt(v, r, s)
      BY <2>1, <2>2, <2>5, <3>1 DEF RanHere
    <3> QED
      BY <2>3, <3>2
  <2>6. {v \in VMs : <<v, x, s>> \in ran} = {d}
    BY <2>4, <2>5
  <2> QED
    BY <2>6, FS_Singleton
<1> QED
  BY <1>1, InvInit, InvStep, PTL DEF Spec
=============================================================================
