------------------------------- MODULE VQueue -------------------------------
(***************************************************************************)
(* The persistent queue of source/veda/util/queue.d: one writer (the       *)
(* subject manager thread of veda-mstorage) appends to numbered parts, and *)
(* a reader process holds one Queue object and, on it, one or more         *)
(* Consumers, each with its own durable position.                          *)
(*                                                                         *)
(* On disk a queue has                                                     *)
(*   <q>_info_queue          the number of the newest part: latest         *)
(*   <q>-<p>/<q>_queue       the records of part p: log[p]                 *)
(*   <q>-<p>/<q>_info_push   how many records of p are announced           *)
(*   <q>_info_pop_<name>     the position of a consumer: infoPop           *)
(*                                                                         *)
(* Byte offsets are abstracted to record numbers: start_pos_record is the  *)
(* sum of the lengths of the first count_popped records of the part, so    *)
(* one number stands for both.  A record that is only partly on disk reads *)
(* as the end of the file: pop() answers null in both cases.               *)
(***************************************************************************)
EXTENDS Integers, Sequences

CONSTANTS
  NumConsumers,  \* main_cs.length: 1, and 2 in the full text indexer
  MaxPart,       \* bound: highest part number, so writer starts + 1
  MaxPush,       \* bound: records pushed into one part
  Kinds,         \* what a record is to its reader, see VModule
  CrashPoints    \* writer states in which the writer may die

ASSUME QueueAssumption ==
  /\ NumConsumers \in Nat \ {0}
  /\ MaxPart \in Nat
  /\ MaxPush \in Nat \ {0}
  /\ CrashPoints \subseteq {"opening", "fresh", "first", "idle", "half"}

Consumers == 0 .. NumConsumers - 1
Parts     == 0 .. MaxPart

None    == -1   \* no part: a null File handle, an absent _info_queue
Missing == -2   \* _info_push of a part whose files do not exist
NoInfo  == -1   \* _info_push exists and is empty: nothing pushed yet

NoFile == [id |-> 0, popped |-> 0, saved |-> FALSE]
                \* _info_pop absent or empty: get_info() keeps the defaults

VARIABLES
  latest,     \* content of _info_queue
  log,        \* [Parts -> Seq(Kinds)], the records in the part files
  announced,  \* [Parts -> Missing, NoInfo or the count in _info_push]
  writer,     \* "down", "opening", "fresh", "first", "idle" or "half"
  q,          \* the reader's Queue object
  id,         \* Consumer.id of every consumer
  popped,     \* Consumer.count_popped
  fresh,      \* header_buff of the consumer was never filled
  last,       \* the record behind last_read_msg, as <<part, number>>
  infoPop     \* the consumer's _info_pop file

diskVars   == <<latest, log, announced, writer>>
readerVars == <<q, id, popped, fresh, last>>

WriterStates == {"down", "opening", "fresh", "first", "idle", "half"}

Records == Parts \X (1 .. MaxPush)
NoRecord == <<None, 0>>

QueueObject == [ready: BOOLEAN, id: Parts, count_pushed: 0 .. MaxPush,
                info: Parts \cup {None}, data: Parts \cup {None}]

NewQueue == [ready |-> TRUE, id |-> 0, count_pushed |-> 0,
             info |-> None, data |-> None]

QueueTypeOK ==
  /\ latest \in Parts \cup {None}
  /\ log \in [Parts -> Seq(Kinds)]
  /\ announced \in [Parts -> {Missing, NoInfo} \cup (1 .. MaxPush)]
  /\ writer \in WriterStates
  /\ q \in QueueObject
  /\ id \in [Consumers -> Parts]
  /\ popped \in [Consumers -> 0 .. MaxPush]
  /\ fresh \in [Consumers -> BOOLEAN]
  /\ last \in [Consumers -> Records \cup {NoRecord}]
  /\ infoPop \in [Consumers -> [id: Parts, popped: 0 .. MaxPush,
                                saved: BOOLEAN]]

QueueInit ==
  /\ latest = None
  /\ log = [p \in Parts |-> <<>>]
  /\ announced = [p \in Parts |-> Missing]
  /\ writer = "down"
  /\ q = NewQueue
  /\ id = [c \in Consumers |-> 0]
  /\ popped = [c \in Consumers |-> 0]
  /\ fresh = [c \in Consumers |-> TRUE]
  /\ last = [c \in Consumers |-> NoRecord]
  /\ infoPop = [c \in Consumers |-> NoFile]
-----------------------------------------------------------------------------
(***************************************************************************)
(* The writer.  Queue.open(RW) first makes the next part the newest one in *)
(* _info_queue and then creates the part's two files, both empty.          *)
(***************************************************************************)
OpenNextPart ==
  /\ writer = "down"
  /\ latest < MaxPart
  /\ latest' = latest + 1
  /\ writer' = "opening"
  /\ UNCHANGED <<log, announced, infoPop>> /\ UNCHANGED readerVars

CreatePartFiles ==
  /\ writer = "opening"
  /\ announced' = [announced EXCEPT ![latest] = NoInfo]
  /\ writer' = "fresh"
  /\ UNCHANGED <<latest, log, infoPop>> /\ UNCHANGED readerVars

(***************************************************************************)
(* push(): the record and the new count are buffered, then flush() writes  *)
(* the record first and the count second.                                  *)
(***************************************************************************)
PushRecord(k) ==
  /\ writer \in {"fresh", "idle"}
  /\ Len(log[latest]) < MaxPush
  /\ log' = [log EXCEPT ![latest] = Append(@, k)]
  /\ writer' = IF writer = "fresh" THEN "first" ELSE "half"
  /\ UNCHANGED <<latest, announced, infoPop>> /\ UNCHANGED readerVars

\* Mutant: the count is advanced twice for one record.
PushInfoTwice ==
  /\ writer \in {"first", "half"}
  /\ announced' = [announced EXCEPT ![latest] = Len(log[latest]) + 1]
  /\ writer' = "idle"
  /\ UNCHANGED <<latest, log, infoPop>> /\ UNCHANGED readerVars

PushInfo ==
  /\ writer \in {"first", "half"}
  /\ announced' = [announced EXCEPT ![latest] = Len(log[latest])]
  /\ writer' = "idle"
  /\ UNCHANGED <<latest, log, infoPop>> /\ UNCHANGED readerVars
-----------------------------------------------------------------------------
(***************************************************************************)
(* The reader's Queue object.  q.info and q.data are the parts whose files *)
(* ff_info_push_r and ff_queue_r have open, None for a null handle.        *)
(***************************************************************************)

\* get_info_push(p): the handle is reopened only when it is null or the
\* object is on another part, and an empty file leaves count_pushed alone.
GetInfoPush(qq, p) ==
  LET h == IF qq.id # p \/ qq.info = None THEN p ELSE qq.info
  IN  IF announced[h] = Missing
        THEN [qq EXCEPT !.ready = FALSE]
        ELSE [qq EXCEPT !.info = h,
                        !.count_pushed = IF announced[h] = NoInfo
                                           THEN @ ELSE announced[h]]

\* get_r_queue_file(p) moves the object to part p; the handle is reopened
\* under the same condition.
GetQueueFile(qq, p) ==
  IF qq.id # p \/ qq.data = None
    THEN [qq EXCEPT !.id = p, !.data = p]
    ELSE qq

\* Mutant of CloseQueue: the handle of the records stays open.
CloseQueueKeepsData(qq) ==
  IF qq.ready THEN [qq EXCEPT !.info = None, !.ready = FALSE]
              ELSE qq

\* close() drops the read handles of a ready queue and keeps its counters.
CloseQueue(qq) ==
  IF qq.ready THEN [qq EXCEPT !.info = None, !.data = None, !.ready = FALSE]
              ELSE qq

\* Mutant of GetInfoQueue: _info_queue is read when the object is new only.
GetInfoQueueOnce(qq) ==
  IF latest = None THEN [qq EXCEPT !.ready = FALSE]
                   ELSE qq

\* open(R) only marks the queue ready; get_info_queue() reads _info_queue.
OpenQueue(qq) == [qq EXCEPT !.ready = TRUE]

GetInfoQueue(qq) ==
  IF latest = None THEN [qq EXCEPT !.ready = FALSE]
                   ELSE [qq EXCEPT !.id = latest]
-----------------------------------------------------------------------------
(***************************************************************************)
(* Consumer.pop() of consumer c, by its outcomes.  q after the first       *)
(* check is PopCount(c): the count is read again only when the one the     *)
(* object remembers, from whatever part, does not exceed count_popped.     *)
(***************************************************************************)
PopCount(c) ==
  IF popped[c] >= q.count_pushed THEN GetInfoPush(q, id[c]) ELSE q

\* pop() returns null: the queue became not ready.
PopNotReady(c) ==
  /\ ~PopCount(c).ready
  /\ q' = PopCount(c)
  /\ UNCHANGED <<id, popped, fresh, last, infoPop>>

\* The consumer is at the end of what the count announces.
PopAtEnd(c) ==
  /\ PopCount(c).ready
  /\ popped[c] >= PopCount(c).count_pushed
  /\ q' = PopCount(c)
  /\ UNCHANGED <<id, popped, fresh, last, infoPop>>

\* The tail of pop() at the end of a part: _info_queue is read again if the
\* object is on the consumer's part, and the consumer moves to the next part
\* if there is one.  The old _info_pop file is removed here ...
PopSeesQueue(c) == IF q.id = id[c] THEN GetInfoQueue(q) ELSE q

PopNoNextPart(c) ==
  /\ PopSeesQueue(c).id <= id[c]
  /\ q' = PopSeesQueue(c)
  /\ UNCHANGED <<id, popped, fresh, last, infoPop>>

\* Mutant of PopNextPart: count_popped is not reset.
PopNextPartKeepsCount(c) ==
  /\ PopSeesQueue(c).id > id[c]
  /\ q' = GetInfoPush([PopSeesQueue(c) EXCEPT !.id = id[c] + 1], id[c] + 1)
  /\ id' = [id EXCEPT ![c] = @ + 1]
  /\ infoPop' = [infoPop EXCEPT ![c] = NoFile]
  /\ UNCHANGED <<popped, fresh, last>>

PopNextPart(c) ==
  /\ PopSeesQueue(c).id > id[c]
  /\ q' = GetInfoPush([PopSeesQueue(c) EXCEPT !.id = id[c] + 1], id[c] + 1)
  /\ id' = [id EXCEPT ![c] = @ + 1]
  /\ popped' = [popped EXCEPT ![c] = 0]
  /\ infoPop' = [infoPop EXCEPT ![c] = NoFile]
  /\ UNCHANGED <<fresh, last>>

\* ... and put_info() creates the new one here.
PutInfo(c, n) ==
  /\ id' = [id EXCEPT ![c] = q'.id]
  /\ popped' = [popped EXCEPT ![c] = n]
  /\ infoPop' = [infoPop EXCEPT ![c] = [id |-> q'.id, popped |-> n,
                                        saved |-> TRUE]]

PopPutInfo(c) ==
  /\ q' = q
  /\ PutInfo(c, popped[c])
  /\ UNCHANGED <<fresh, last>>

\* pop() goes to read the record after count_popped from the open file.
PopReads(c) ==
  /\ PopCount(c).ready
  /\ popped[c] < PopCount(c).count_pushed

ReadFrom(c) == GetQueueFile(PopCount(c), id[c])

PopRecord(c) ==
  /\ PopReads(c)
  /\ announced[ReadFrom(c).data] # Missing
  /\ popped[c] < Len(log[ReadFrom(c).data])
  /\ q' = ReadFrom(c)
  /\ last' = [last EXCEPT ![c] = <<ReadFrom(c).data, popped[c] + 1>>]
  /\ fresh' = [fresh EXCEPT ![c] = FALSE]
  /\ UNCHANGED <<id, popped, infoPop>>

\* End of file: header_buff still holds the last header that was read, and
\* pop() returns null because its start position or its length is wrong.
PopEndOfFile(c) ==
  /\ PopReads(c)
  /\ announced[ReadFrom(c).data] # Missing
  /\ popped[c] >= Len(log[ReadFrom(c).data])
  /\ ~(fresh[c] /\ popped[c] = 0)
  /\ q' = ReadFrom(c)
  /\ UNCHANGED <<id, popped, fresh, last, infoPop>>

\* Two exceptions nobody catches: the part has no file, or the header is
\* still all zero, matches position 0 and asks for a body of length 0.
PopThrows(c) ==
  /\ PopReads(c)
  /\ \/ announced[ReadFrom(c).data] = Missing
     \/ popped[c] >= Len(log[ReadFrom(c).data]) /\ fresh[c] /\ popped[c] = 0
-----------------------------------------------------------------------------
(***************************************************************************)
(* commit_and_next() of consumer c: refused at the end of the announced    *)
(* records, otherwise the position is advanced and saved, under the part   *)
(* number of the Queue object.                                             *)
(***************************************************************************)
CommitRefused(c) == popped[c] >= GetInfoPush(q, id[c]).count_pushed

CommitAndNext(c) ==
  /\ q' = GetInfoPush(q, id[c])
  /\ IF CommitRefused(c)
       THEN UNCHANGED <<id, popped, infoPop>>
       ELSE PutInfo(c, popped[c] + 1)
  /\ UNCHANGED <<fresh, last>>

\* A reader process starts: a new Queue object, consumers from their files.
ReaderOpen ==
  /\ q' = NewQueue
  /\ id' = [c \in Consumers |-> infoPop[c].id]
  /\ popped' = [c \in Consumers |-> infoPop[c].popped]
  /\ fresh' = [c \in Consumers |-> TRUE]
  /\ last' = [c \in Consumers |-> NoRecord]
  /\ UNCHANGED infoPop
=============================================================================
