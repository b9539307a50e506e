------------------------------ MODULE Numerator -----------------------------
(***************************************************************************)
(* Automatic numeration of documents (public/js/common/numerator.js),      *)
(* started by the event script v-s:NumerationEvent for what users write.   *)
(*                                                                         *)
(* Users save documents; every save is a record of the queue with the      *)
(* state it replaced.  The process of scripts takes the records in order.  *)
(* numerate() works on the actual state of the document and the previous   *)
(* state of the record, reads the scope and its committed intervals, and   *)
(* collects its writes in a transaction, which is sent item by item when   *)
(* the script has ended.  What it has written it reads back from the       *)
(* transaction: t_interval and t_scope are the database as the script sees *)
(* it.  A crash drops what is not sent and repeats the record.             *)
(*                                                                         *)
(* The list of intervals of a scope is a set here: its order only chooses  *)
(* between overlapping intervals, which exist after a crash alone.  Labels,*)
(* the mark v-s:deleted of an interval that left its list, and what is     *)
(* printed are left out.                                                   *)
(***************************************************************************)
EXTENDS Integers, Sequences, FiniteSets

CONSTANTS
  Docs,       \* documents of a class with v-s:hasNumeration
  Scopes,     \* v-s:numerationScope of a document, by class, year or date
  Ids,        \* uris of intervals, as genUri gives them
  FirstValue, \* FIRST_VALUE of the rule
  Settings,   \* the settings of which a behaviour has one:
              \*   typed    numbers that users write themselves
              \*   scopes   scopes of the documents that users write
              \*   moves    users change what the scope depends on
              \*   recover  users save a deleted document as not deleted
              \*   hasty    users save a document that is not numerated yet
              \*   saves    bound: saves of users
              \*   crashes  bound: crashes
  MaxSave     \* bound of all saves

ASSUME NumeratorAssumption ==
  /\ FirstValue \in Nat \ {0}
  /\ MaxSave \in Nat
  /\ IsFiniteSet(Ids)
  /\ Settings \subseteq
       [typed: SUBSET (Nat \ {0}), scopes: SUBSET Scopes, moves: BOOLEAN,
        recover: BOOLEAN, hasty: BOOLEAN, saves: 0 .. MaxSave, crashes: Nat]

Interval == [b: Nat, e: Nat]   \* v-s:numerationCommitedIntervalBegin and End
Document == [there: BOOLEAN, num: Nat, deleted: BOOLEAN, scope: Scopes]

VARIABLES
  setting,    \* the setting of this behaviour
  docs,       \* the documents in the database; num = 0: no number
  queue,      \* records [doc, prev] of users' saves
  interval,   \* the intervals in the database
  scope,      \* v-s:numerationCommitedInterval of each scope, in the database
  t_interval, t_scope,  \* the same with the writes of the transaction
  todo,       \* writes of the transaction that are still to be sent
  running,    \* the script has run for the first record
  saves, crashes,
  whole       \* history: no transaction was cut in half by a crash

numeration == <<interval, scope, t_interval, t_scope, todo>>
vars == <<setting, docs, queue, numeration, running, saves, crashes, whole>>

PutInterval(i)   == [kind |-> "interval", id |-> i]
PutScope(s)      == [kind |-> "scope", id |-> s]
PutDocument(d, v) == [kind |-> "document", id |-> d, value |-> v]
Write == [kind: {"interval"}, id: Ids] \cup [kind: {"scope"}, id: Scopes]
         \cup [kind: {"document"}, id: Docs, value: Document]

TypeOK ==
  /\ setting \in Settings
  /\ docs \in [Docs -> Document]
  /\ queue \in Seq([doc: Docs, prev: Document])
  /\ interval \in [Ids -> Interval] /\ t_interval \in [Ids -> Interval]
  /\ scope \in [Scopes -> SUBSET Ids] /\ t_scope \in [Scopes -> SUBSET Ids]
  /\ todo \in Seq(Write)
  /\ running \in BOOLEAN
  /\ running => queue # <<>>
  /\ saves \in 0 .. MaxSave
  /\ crashes \in Nat
  /\ whole \in BOOLEAN

NoDocument(s) == [there |-> FALSE, num |-> 0, deleted |-> FALSE, scope |-> s]

Init ==
  /\ setting \in Settings
  /\ \E s \in Scopes : docs = [d \in Docs |-> NoDocument(s)]
  /\ queue = <<>>
  /\ interval = [i \in Ids |-> [b |-> 0, e |-> 0]] /\ t_interval = interval
  /\ scope = [s \in Scopes |-> {}] /\ t_scope = scope
  /\ todo = <<>>
  /\ running = FALSE
  /\ saves = 0 /\ crashes = 0 /\ whole = TRUE
-----------------------------------------------------------------------------
(* The interval list.  st has the intervals iv, the lists sc and the       *)
(* writes todo made so far.                                                *)

Holds(st, i, n) == st.iv[i].b <= n /\ n <= st.iv[i].e
Covered(st, s)  == UNION {st.iv[i].b .. st.iv[i].e : i \in st.sc[s]}

\* A uri that no list has.
Unused(st) == Ids \ UNION {st.sc[s] : s \in Scopes}

\* commitValue().  A committed value changes nothing; else the value joins the
\* interval before it, the one after it or both, or becomes an interval.
Before(st, s, n) == {i \in st.sc[s] : st.iv[i].e = n - 1}

\* Mutant of After: the next interval is not looked for.
AfterNone(st, s, n) == {}

After(st, s, n)  == {i \in st.sc[s] : st.iv[i].b = n + 1}
Taken(st, s, n)  == \E i \in st.sc[s] : Holds(st, i, n)

JoinBoth(st, s, p, q) ==
  [iv |-> [st.iv EXCEPT ![p] = [b |-> @.b, e |-> st.iv[q].e]],
   sc |-> [st.sc EXCEPT ![s] = @ \ {q}],
   todo |-> st.todo \o <<PutInterval(p), PutScope(s)>>]
JoinBefore(st, p, n) ==
  [st EXCEPT !.iv[p] = [b |-> @.b, e |-> n], !.todo = Append(@, PutInterval(p))]
JoinAfter(st, q, n) ==
  [st EXCEPT !.iv[q] = [b |-> n, e |-> @.e], !.todo = Append(@, PutInterval(q))]

\* Mutant of NewInterval: the scope is not put.
NewIntervalUnlisted(st, s, i, n) ==
  [iv |-> [st.iv EXCEPT ![i] = [b |-> n, e |-> n]],
   sc |-> [st.sc EXCEPT ![s] = @ \cup {i}],
   todo |-> st.todo \o <<PutInterval(i)>>]

NewInterval(st, s, i, n) ==
  [iv |-> [st.iv EXCEPT ![i] = [b |-> n, e |-> n]],
   sc |-> [st.sc EXCEPT ![s] = @ \cup {i}],
   todo |-> st.todo \o <<PutInterval(i), PutScope(s)>>]

commitValue(st, s, n) ==
  LET p == CHOOSE i \in Before(st, s, n) : TRUE
      q == CHOOSE i \in After(st, s, n) : TRUE
      u == CHOOSE i \in Unused(st) : TRUE
  IN  IF Taken(st, s, n) THEN st
      ELSE IF Before(st, s, n) # {} /\ After(st, s, n) # {} THEN JoinBoth(st, s, p, q)
      ELSE IF Before(st, s, n) # {} THEN JoinBefore(st, p, n)
      ELSE IF After(st, s, n) # {} THEN JoinAfter(st, q, n)
      ELSE NewInterval(st, s, u, n)

\* Mutant of Single: an interval that begins with the value leaves the list.
SingleAny(st, s, n) == {i \in st.sc[s] : st.iv[i].b = n}

\* revokeValue().  Each interval that holds the value is cut at its begin or
\* its end, leaves the list if it is the value alone, or is cut in two.
Single(st, s, n)  == {i \in st.sc[s] : st.iv[i].b = n /\ st.iv[i].e = n}
AtBegin(st, s, n) == {i \in st.sc[s] : st.iv[i].b = n /\ n < st.iv[i].e}
AtEnd(st, s, n)   == {i \in st.sc[s] : st.iv[i].b < n /\ n = st.iv[i].e}
Inside(st, s, n)  == {i \in st.sc[s] : st.iv[i].b < n /\ n < st.iv[i].e}
\* The uris of the second halves.
Halves(st, s, n) ==
  {f \in [Inside(st, s, n) -> Unused(st)] :
     \A i, j \in Inside(st, s, n) : f[i] = f[j] => i = j}

\* Some order of a finite set.
Listed(S) ==
  CHOOSE q \in [1 .. Cardinality(S) -> S] : \A x \in S : \E k \in DOMAIN q : q[k] = x
Cut(st, s, n) == AtBegin(st, s, n) \cup AtEnd(st, s, n) \cup Inside(st, s, n)
Puts(S)       == [k \in 1 .. Cardinality(S) |-> PutInterval(Listed(S)[k])]

revokeValue(st, s, n) ==
  LET half == CHOOSE f \in Halves(st, s, n) : TRUE
      new  == {half[i] : i \in Inside(st, s, n)}
      whose(j) == CHOOSE i \in Inside(st, s, n) : half[i] = j
  IN  [iv |-> [i \in Ids |->
                 IF i \in new THEN [b |-> n + 1, e |-> st.iv[whose(i)].e]
                 ELSE IF i \in AtBegin(st, s, n) THEN [b |-> n + 1, e |-> st.iv[i].e]
                 ELSE IF i \in AtEnd(st, s, n) \cup Inside(st, s, n)
                 THEN [b |-> st.iv[i].b, e |-> n - 1]
                 ELSE st.iv[i]],
       sc |-> [st.sc EXCEPT ![s] = (@ \ Single(st, s, n)) \cup new],
       todo |-> st.todo \o Puts(Cut(st, s, n)) \o Puts(new) \o <<PutScope(s)>>]

\* getNextValueSimple().  Its result is a string, with which value + 1 in
\* commitValue() is a longer number than any of the scope, where After() is
\* empty as well; stored as an Integer the string is the number.
Ends(st, s) == {st.iv[i].e : i \in st.sc[s]}

\* Mutant of getNextValueSimple: the highest number itself.
getNextValueMax(st, s) ==
  IF st.sc[s] = {} THEN FirstValue
  ELSE CHOOSE m \in Ends(st, s) : \A k \in Ends(st, s) : k <= m

getNextValueSimple(st, s) ==
  IF st.sc[s] = {} THEN FirstValue
  ELSE (CHOOSE m \in Ends(st, s) : \A k \in Ends(st, s) : k <= m) + 1

-----------------------------------------------------------------------------
(* numerate(), for the actual state cur of the document d and the previous *)
(* state prev of the record.                                               *)

NothingChanged(cur, prev) ==
  cur.num # 0 /\ prev.num # 0 /\ cur.num = prev.num /\ cur.deleted = prev.deleted

AddPut(st, d, v) == [st EXCEPT !.todo = Append(@, PutDocument(d, v))]

\* Neither number: a new one is committed and written to the document.
GiveNumber(st, d, cur) ==
  LET n == getNextValueSimple(st, cur.scope)
  IN  AddPut(commitValue(st, cur.scope, n), d, [cur EXCEPT !.num = n])

\* Mutant of Restore: the document is not put.
RestoreNot(st, d, cur, prev) == st

\* The user has cleared the number: it is put back.
Restore(st, d, cur, prev) == AddPut(st, d, [cur EXCEPT !.num = prev.num])

numerate(st, d, cur, prev) ==
  IF NothingChanged(cur, prev) THEN st
  ELSE IF cur.num = 0 /\ prev.num = 0 THEN GiveNumber(st, d, cur)
  ELSE IF cur.num = 0 THEN Restore(st, d, cur, prev)
  ELSE IF ~prev.there THEN commitValue(st, cur.scope, cur.num)
  ELSE IF cur.deleted THEN revokeValue(st, cur.scope, cur.num)
  ELSE IF prev.num # 0 /\ cur.num # prev.num
  THEN revokeValue(commitValue(st, cur.scope, cur.num), prev.scope, prev.num)
  ELSE st

\* There are uris enough, as with genUri: two, and one for each interval of a
\* list, of which all may be cut in two after a crash, beside that of a new one.
Enough(st) ==
  \A s \in Scopes : Cardinality(st.sc[s]) + 2 <= Cardinality(Unused(st))

\* The view that a script begins with: the database.
Now == [iv |-> t_interval, sc |-> t_scope, todo |-> <<>>]
-----------------------------------------------------------------------------
\* A user saves the document d as v, from the browser's copy of it.
Save(d, v) ==
  /\ saves < setting.saves
  /\ setting.hasty \/ \A k \in DOMAIN queue : queue[k].doc # d
  /\ docs[d].deleted /\ ~v.deleted => setting.recover
  /\ docs[d].there /\ v.scope # docs[d].scope => setting.moves
  /\ v.there /\ v.num \in setting.typed \cup {0, docs[d].num}
  /\ docs' = [docs EXCEPT ![d] = v]
  /\ queue' = Append(queue, [doc |-> d, prev |-> docs[d]])
  /\ saves' = saves + 1
  /\ UNCHANGED <<setting, numeration, running, crashes, whole>>

\* v-s:NumerationEvent runs for the first record.
Numerate ==
  /\ queue # <<>> /\ ~running
  /\ Enough(Now)
  /\ LET r  == Head(queue)
         st == numerate(Now, r.doc, docs[r.doc], r.prev)
     IN  /\ t_interval' = st.iv
         /\ t_scope' = st.sc
         /\ todo' = st.todo
  /\ running' = TRUE
  /\ UNCHANGED <<setting, docs, queue, interval, scope, saves, crashes, whole>>

\* The next item of the transaction is stored.
CommitItem ==
  /\ todo # <<>>
  /\ LET w == Head(todo)
     IN  /\ interval' = IF w.kind = "interval"
                        THEN [interval EXCEPT ![w.id] = t_interval[w.id]] ELSE interval
         /\ scope' = IF w.kind = "scope"
                     THEN [scope EXCEPT ![w.id] = t_scope[w.id]] ELSE scope
         /\ docs' = IF w.kind = "document"
                    THEN [docs EXCEPT ![w.id] = w.value] ELSE docs
  /\ todo' = Tail(todo)
  /\ UNCHANGED <<setting, queue, t_interval, t_scope, running, saves, crashes, whole>>

\* Mutant of Finish: the record is kept in hand.
FinishKeepsRunning ==
  /\ running /\ todo = <<>>
  /\ queue' = Tail(queue)
  /\ UNCHANGED <<setting, docs, numeration, running, saves, crashes, whole>>

\* The record is done with.
Finish ==
  /\ running /\ todo = <<>>
  /\ queue' = Tail(queue)
  /\ running' = FALSE
  /\ UNCHANGED <<setting, docs, numeration, saves, crashes, whole>>

\* The process dies while it runs a script or sends its writes.
Crash ==
  /\ running /\ crashes < setting.crashes
  /\ crashes' = crashes + 1
  /\ whole' = FALSE
  /\ t_interval' = interval /\ t_scope' = scope
  /\ todo' = <<>>
  /\ running' = FALSE
  /\ UNCHANGED <<setting, docs, queue, interval, scope, saves>>

Next ==
  \/ \E d \in Docs, del \in BOOLEAN, s \in setting.scopes :
       \E n \in setting.typed \cup {0, docs[d].num} :
         Save(d, [there |-> TRUE, num |-> n, deleted |-> del, scope |-> s])
  \/ Numerate \/ CommitItem \/ Finish \/ Crash

Spec == Init /\ [][Next]_vars
-----------------------------------------------------------------------------
(* Properties                                                              *)

\* The interval lists implement the sets of numbers that the header of
\* numerator.js speaks of: every run of the script commits one number, revokes
\* one, or does both, and no other number of any scope is taken or freed by
\* the merging and cutting of intervals.
committed == [s \in Scopes |-> Covered(Now, s)]
Promise == INSTANCE NumberScope
             WITH Scopes <- Scopes, committed <- committed, whole <- whole
ScopeIsSet == Promise!Spec

\* The intervals of a scope are apart: no number is in two of them and two
\* neighbours are one.
Apart ==
  whole => \A s \in Scopes : \A i, j \in t_scope[s] :
             i # j => \/ t_interval[i].e + 1 < t_interval[j].b
                      \/ t_interval[j].e + 1 < t_interval[i].b

\* The transaction holds every change the script has made: once it is sent,
\* the database is what the script saw.
SentIsSeen ==
  todo = <<>> => scope = t_scope /\
                 \A s \in Scopes : \A i \in scope[s] : interval[i] = t_interval[i]

\* When no event waits every document has a number, also when users clear it,
\* save old copies while the script runs, or the process dies in between.
AllNumbered ==
  queue = <<>> => \A d \in Docs : docs[d].there => docs[d].num # 0

\* No two documents that are not deleted have the same number in a scope.
NumbersUnique ==
  \A c, d \in Docs :
    /\ c # d /\ docs[c].there /\ docs[d].there
    /\ ~docs[c].deleted /\ ~docs[d].deleted
    /\ docs[c].num # 0 /\ docs[c].scope = docs[d].scope
    => docs[c].num # docs[d].num

Gentle(w) == w.typed = {} /\ ~w.moves /\ ~w.recover /\ ~w.hasty

\* The same for users that wait for the number before they save again, type no
\* numbers, recover nothing and leave the scope alone, until a crash cuts a
\* transaction in half.  (When the first half of an interval is stored and the
\* second is not, its numbers are free and are given again.)
UniqueIfGentle == whole /\ Gentle(setting) => NumbersUnique
=============================================================================
