------------------------------ MODULE VModule -------------------------------
(***************************************************************************)
(* A queue-driven Veda module (source/veda/vmodule/vmodule.d): the         *)
(* prepare_queue() loop over the consumers main_cs[0 .. N-1], on the queue *)
(* of VQueue, under the watchdog of source/veda/bootstrap/bootstrap.d.     *)
(*                                                                         *)
(* A record's kind is the index of the consumer its user has priority for, *)
(* or Skip when assigned_subsystems excludes this module.                  *)
(***************************************************************************)
EXTENDS VQueue

CONSTANTS
  Skip,          \* kind of the records addressed to other subsystems
  MaxReaderDeath \* bound: deaths of the reader process on its own

ASSUME ModuleAssumption ==
  /\ Kinds \subseteq Consumers \cup {Skip}
  /\ Skip \notin Int
  /\ MaxReaderDeath \in Nat

VARIABLES
  pc,        \* where prepare_queue() is, "down" if there is no process
  i,         \* the loop's index into main_cs
  deaths,    \* deaths of the reader so far
  handled,   \* history: records each consumer has committed
  prepared   \* history: records prepare() has answered for good

loopVars == <<pc, i, deaths, handled, prepared>>
vars == <<diskVars, readerVars, infoPop, loopVars>>

TypeOK ==
  /\ QueueTypeOK
  /\ pc \in {"down", "round", "poll", "roll", "rolled", "handle"}
  /\ i \in Consumers
  /\ deaths \in 0 .. MaxReaderDeath
  /\ handled \in [Consumers -> SUBSET Records]
  /\ prepared \in SUBSET Records

Init ==
  /\ QueueInit
  /\ pc = "down"
  /\ i = 0
  /\ deaths = 0
  /\ handled = [c \in Consumers |-> {}]
  /\ prepared = {}
-----------------------------------------------------------------------------
\* The writer's steps leave the loop alone.
Write ==
  /\ OpenNextPart \/ CreatePartFiles \/ PushInfo \/ \E k \in Kinds : PushRecord(k)
  /\ UNCHANGED loopVars

\* mstorage dies.  It is a main module: the watchdog kills every other
\* process before it starts anything again.
WriterDies ==
  /\ writer \in CrashPoints
  /\ latest < MaxPart
  /\ writer' = "down"
  /\ pc' = "down"
  /\ UNCHANGED <<latest, log, announced, infoPop, i, deaths, handled, prepared>>
  /\ UNCHANGED readerVars

\* The watchdog starts the module (run()), after mstorage.
Start ==
  /\ pc = "down"
  /\ writer \notin {"down", "opening"}
  /\ ReaderOpen
  /\ pc' = "round"
  /\ UNCHANGED <<i, deaths, handled, prepared>> /\ UNCHANGED diskVars

ReaderDies ==
  /\ pc # "down"
  /\ deaths < MaxReaderDeath
  /\ pc' = "down"
  /\ deaths' = deaths + 1
  /\ UNCHANGED <<infoPop, i, handled, prepared>>
  /\ UNCHANGED diskVars /\ UNCHANGED readerVars
-----------------------------------------------------------------------------
\* prepare_queue() starts: close, open and get_info_queue until ready.
Round ==
  /\ pc = "round"
  /\ q' = GetInfoQueue(OpenQueue(CloseQueue(q)))
  /\ IF q'.ready THEN pc' = "poll" /\ i' = 0
                 ELSE UNCHANGED <<pc, i>>
  /\ UNCHANGED <<id, popped, fresh, last, infoPop, deaths, handled, prepared>>
  /\ UNCHANGED diskVars

\* pop() returned null: the next consumer, or the end of this round.
GotNull ==
  IF i + 1 < NumConsumers THEN pc' = "poll" /\ i' = i + 1
                          ELSE pc' = "round" /\ UNCHANGED i

Poll ==
  /\ pc = "poll"
  /\ \/ PopNotReady(i) /\ GotNull
     \/ PopAtEnd(i) /\ pc' = "roll" /\ UNCHANGED i
     \/ PopEndOfFile(i) /\ GotNull
     \/ PopRecord(i) /\ pc' = "handle" /\ UNCHANGED i
     \/ PopThrows(i) /\ pc' = "down"
          /\ UNCHANGED <<i, infoPop>> /\ UNCHANGED readerVars
  /\ UNCHANGED <<deaths, handled, prepared>> /\ UNCHANGED diskVars

EndOfPart ==
  /\ \/ pc = "roll" /\ PopNoNextPart(i) /\ GotNull
     \/ pc = "roll" /\ PopNextPart(i) /\ pc' = "rolled" /\ UNCHANGED i
     \/ pc = "rolled" /\ PopPutInfo(i) /\ GotNull
  /\ UNCHANGED <<deaths, handled, prepared>> /\ UNCHANGED diskVars
-----------------------------------------------------------------------------
\* The record pop() returned.
Kind == log[last[i][1]][last[i][2]]

\* commit_and_next() of the current consumer.
Commit ==
  /\ CommitAndNext(i)
  /\ handled' = IF CommitRefused(i) THEN handled
                ELSE [handled EXCEPT ![i] = @ \cup {last[i]}]

\* Mutant of SkipRecord: a consumer skips the records of its own priority.
SkipAnyRecord ==
  /\ pc = "handle"
  /\ Commit
  /\ pc' = "poll" /\ i' = IF Kind = Skip THEN i ELSE 0
  /\ UNCHANGED <<deaths, prepared>> /\ UNCHANGED diskVars

\* Not for this module: committed.  After a record of another subsystem the
\* same consumer goes on, after one of a user with another priority the first.
SkipRecord ==
  /\ pc = "handle" /\ Kind # i
  /\ Commit
  /\ pc' = "poll" /\ i' = IF Kind = Skip THEN i ELSE 0
  /\ UNCHANGED <<deaths, prepared>> /\ UNCHANGED diskVars

\* prepare() answered Ok, or an error that is not worth a retry.
PrepareDone ==
  /\ pc = "handle" /\ Kind = i
  /\ Commit
  /\ prepared' = prepared \cup {last[i]}
  /\ pc' = "poll" /\ i' = 0
  /\ UNCHANGED deaths /\ UNCHANGED diskVars

\* ConnectError, InternalServerError, NotReady, ServiceUnavailable or
\* TooManyRequests (the loop restarts at consumer 0), or an exception (it
\* does not): no commit, the record is popped again.
PrepareRetry ==
  /\ pc = "handle" /\ Kind = i
  /\ pc' = "poll" /\ i' \in {0, i}
  /\ UNCHANGED <<infoPop, deaths, handled, prepared>>
  /\ UNCHANGED diskVars /\ UNCHANGED readerVars
-----------------------------------------------------------------------------
Reader == Start \/ Round \/ Poll \/ EndOfPart
            \/ SkipRecord \/ PrepareDone \/ PrepareRetry

Next == Write \/ WriterDies \/ ReaderDies \/ Reader

Spec == Init /\ [][Next]_vars

\* Every process that runs makes progress: the writer finishes what it has
\* begun and the watchdog restarts what is dead (OpenNextPart, Start); the
\* module polls at least ten times a second whether or not a notification
\* arrives (Round); and prepare() does not fail with a retryable error for
\* ever (the strong fairness of PrepareDone).
WriteFinishes ==
  /\ OpenNextPart \/ CreatePartFiles \/ PushInfo
  /\ UNCHANGED loopVars

Fairness ==
  /\ WF_vars(WriteFinishes)
  /\ WF_vars(Start) /\ WF_vars(Round) /\ WF_vars(Poll) /\ WF_vars(EndOfPart)
  /\ WF_vars(SkipRecord) /\ SF_vars(PrepareDone)

FairSpec == Spec /\ Fairness
-----------------------------------------------------------------------------
\* Record r lies before the position (part p, n records consumed).
Before(r, p, n) == r[1] < p \/ (r[1] = p /\ r[2] <= n)

\* pop() hands out the record that the consumer's own position names, never
\* one of a file that was left open on another part.  This takes one consumer:
\* of two, the one that changes part moves the shared Queue object to a part
\* number whose file it has not opened yet, and the other one, if it is on
\* that part, goes on with the open file of the part before (queue.d:789).
PopsOwnRecord ==
  pc = "handle" => last[i] = <<id[i], popped[i] + 1>>

\* Every announced record before a saved position was committed by that
\* consumer: neither a restart nor a change of part skips one.
NothingSkipped ==
  \A c \in Consumers : \A r \in Records :
    (r[2] <= announced[r[1]] /\ Before(r, infoPop[c].id, infoPop[c].popped))
      => r \in handled[c]

\* A record that all consumers have left behind was prepared, unless it was
\* for another subsystem: nothing falls between two priorities.
NoneBetweenConsumers ==
  \A r \in Records :
    (\A c \in Consumers : r \in handled[c]) =>
      r \in prepared \/ log[r[1]][r[2]] = Skip

\* Each consumer eventually commits every announced record.
EveryRecordRead ==
  \A c \in Consumers : \A r \in Records :
    (announced[r[1]] >= r[2]) ~> (r \in handled[c])
-----------------------------------------------------------------------------
(***************************************************************************)
(* The inductive invariants behind TypeOK and, for a module with a single  *)
(* consumer, behind NothingSkipped and PopsOwnRecord.                      *)
(***************************************************************************)

\* What the writer keeps to.
WriterInv ==
  /\ writer # "down" => latest # None
  /\ \A p \in Parts : Len(log[p]) <= MaxPush
  /\ writer \in {"first", "half"} => Len(log[latest]) >= 1

TypeInv ==
  /\ TypeOK
  /\ WriterInv
  /\ pc # "down" => latest # None
  /\ pc = "handle" => last[i] \in Records

\* While a round runs the queue is ready, and its read handles are null or
\* on the consumer's own part, except right after a change of part.
HandlesInv ==
  /\ pc \in {"poll", "roll", "rolled", "handle"} => q.ready
  /\ pc \in {"poll", "roll", "handle"} =>
       q.info \in {None, id[0]} /\ q.data \in {None, id[0]}
  /\ pc = "roll" => q.info = id[0]
  /\ pc = "handle" => q.data = id[0]
  /\ pc = "round" /\ ~q.ready => q.info = None /\ q.data = None
  /\ q.info # None => announced[q.info] # Missing
  /\ q.data # None => announced[q.data] # Missing

\* No reader outlives its writer, and neither the Queue object nor a
\* position is past the newest part.
PartInv ==
  /\ writer \in {"down", "opening"} => pc = "down"
  /\ pc # "down" => q.id <= latest /\ id[0] <= latest
  /\ infoPop[0].id = 0 \/ infoPop[0].id <= latest
  /\ pc \in {"rolled", "handle"} => q.id = id[0]
  /\ pc = "handle" => last[0] = <<id[0], popped[0] + 1>>
  /\ pc = "roll" => id[0] = latest \/ popped[0] >= announced[id[0]]

\* All announced records of the parts before p, and the first n records of
\* p, are committed.
HandledUpTo(p, n) ==
  \A r \in Records :
    \/ r[1] < p /\ r[2] <= announced[r[1]]
    \/ r[1] = p /\ r[2] <= n
    => r \in handled[0]

HandledInv ==
  /\ pc # "down" => HandledUpTo(id[0], popped[0])
  /\ HandledUpTo(infoPop[0].id, infoPop[0].popped)

OneConsumerInv == TypeInv /\ HandlesInv /\ PartInv /\ HandledInv

\* Behind NoneBetweenConsumers, for any number of consumers.  The record in
\* hand is on disk, and what a consumer has committed was prepared or was for
\* somebody else.
Excused(c, r) == log[r[1]][r[2]] \in (Consumers \cup {Skip}) \ {c}

PriorityInv ==
  /\ pc = "handle" => last[i][2] <= Len(log[last[i][1]])
  /\ \A c \in Consumers : \A r \in handled[c] :
       r[2] <= Len(log[r[1]]) /\ (r \in prepared \/ Excused(c, r))

ManyConsumersInv == TypeInv /\ PriorityInv
=============================================================================
