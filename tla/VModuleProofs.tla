--------------------------- MODULE VModuleProofs ----------------------------
(***************************************************************************)
(* Machine-checked proofs about VModule, for any number of parts, records  *)
(* and deaths.                                                             *)
(***************************************************************************)
EXTENDS VModule, TLAPS

USE QueueAssumption, ModuleAssumption
    DEF Consumers, Parts, None, Missing, NoInfo

-----------------------------------------------------------------------------
(* What the operations of the Queue object return. *)

\* get_info_push() keeps the object well formed.
LEMMA GetInfoPushType ==
  ASSUME announced \in [Parts -> {Missing, NoInfo} \cup (1 .. MaxPush)],
         NEW qq \in QueueObject, NEW p \in Parts
  PROVE  GetInfoPush(qq, p) \in QueueObject
<1> DEFINE h == IF qq.id # p \/ qq.info = None THEN p ELSE qq.info
<1>1. h \in Parts
  BY DEF QueueObject
<1>2. announced[h] \in {Missing, NoInfo} \cup (1 .. MaxPush)
  BY <1>1
<1> HIDE DEF h
<1>3. [qq EXCEPT !.ready = FALSE] \in QueueObject
  BY DEF QueueObject
<1>4. ASSUME announced[h] # Missing
      PROVE  [qq EXCEPT !.info = h,
                        !.count_pushed = IF announced[h] = NoInfo
                                           THEN @ ELSE announced[h]]
               \in QueueObject
  <2> DEFINE n == IF announced[h] = NoInfo
                    THEN qq.count_pushed ELSE announced[h]
  <2>1. n \in 0 .. MaxPush
    BY <1>2, <1>4 DEF QueueObject
  <2> HIDE DEF n
  <2>2. [qq EXCEPT !.info = h, !.count_pushed = n] \in QueueObject
    BY <1>1, <2>1 DEF QueueObject
  <2> QED
    BY <2>2 DEF n
<1> QED
  BY <1>3, <1>4 DEF GetInfoPush, h

\* get_r_queue_file() does too.
LEMMA GetQueueFileType ==
  ASSUME NEW qq \in QueueObject, NEW p \in Parts
  PROVE  GetQueueFile(qq, p) \in QueueObject
BY DEF GetQueueFile, QueueObject

\* And so do close(), open() and get_info_queue().
LEMMA GetInfoQueueType ==
  ASSUME latest \in Parts \cup {None}, NEW qq \in QueueObject
  PROVE  /\ GetInfoQueue(qq) \in QueueObject
         /\ GetInfoQueue(OpenQueue(CloseQueue(qq))) \in QueueObject
BY DEF GetInfoQueue, OpenQueue, CloseQueue, QueueObject

\* The first check of pop() leaves a well formed object, and a count above
\* count_popped bounds count_popped.
LEMMA PopCountType ==
  ASSUME TypeOK, NEW c \in Consumers
  PROVE  /\ PopCount(c) \in QueueObject
         /\ ReadFrom(c) \in QueueObject
         /\ PopReads(c) => popped[c] + 1 \in 1 .. MaxPush
<1>1. id[c] \in Parts /\ popped[c] \in 0 .. MaxPush /\ q \in QueueObject
  BY DEF TypeOK, QueueTypeOK
<1>2. PopCount(c) \in QueueObject
  BY <1>1, GetInfoPushType DEF PopCount, TypeOK, QueueTypeOK
<1>3. ReadFrom(c) \in QueueObject
  BY <1>1, <1>2, GetQueueFileType DEF ReadFrom
<1>4. PopReads(c) => popped[c] + 1 \in 1 .. MaxPush
  BY <1>1, <1>2 DEF PopReads, QueueObject
<1> QED
  BY <1>2, <1>3, <1>4
-----------------------------------------------------------------------------
(* Type correctness. *)

\* The types of the first state.
LEMMA TypeInit == Init => TypeInv
<1> SUFFICES ASSUME Init PROVE TypeInv
  OBVIOUS
<1>1. 0 \in Parts /\ 0 \in Consumers
  OBVIOUS
<1>2. NewQueue \in QueueObject
  BY DEF NewQueue, QueueObject
<1>3. NoFile \in [id: Parts, popped: 0 .. MaxPush, saved: BOOLEAN]
  BY DEF NoFile
<1>4. QueueTypeOK
  BY <1>1, <1>2, <1>3 DEF Init, QueueInit, QueueTypeOK, WriterStates, NoRecord
<1>5. TypeOK
  BY <1>1, <1>4 DEF Init, TypeOK
<1>6. WriterInv /\ pc = "down"
  BY DEF Init, QueueInit, WriterInv
<1> QED
  BY <1>5, <1>6 DEF TypeInv

\* The writer's own steps.
LEMMA TypeWrite ==
  ASSUME TypeInv, Write
  PROVE  TypeInv'
<1> USE DEF TypeInv, TypeOK, Write, loopVars, readerVars
<1>0. SUFFICES /\ latest' \in Parts
               /\ log' \in [Parts -> Seq(Kinds)]
               /\ announced' \in [Parts -> {Missing, NoInfo} \cup (1 .. MaxPush)]
               /\ writer' \in WriterStates
               /\ WriterInv'
  <2>1. UNCHANGED <<q, id, popped, fresh, last, infoPop, loopVars>>
    BY DEF OpenNextPart, CreatePartFiles, PushInfo, PushRecord
  <2>2. QueueTypeOK'
    BY <2>1 DEF QueueTypeOK
  <2>3. TypeOK'
    BY <2>1, <2>2
  <2> QED
    BY <2>1, <2>3
<1> USE DEF QueueTypeOK, WriterInv, WriterStates
<1>1. CASE OpenNextPart
  <2>1. latest' \in Parts
    BY <1>1 DEF OpenNextPart
  <2> QED
    BY <1>1, <2>1, SMTT(30) DEF OpenNextPart
<1>2. CASE CreatePartFiles
  <2>1. latest \in Parts
    BY <1>2 DEF CreatePartFiles
  <2> QED
    BY <1>2, <2>1 DEF CreatePartFiles
<1>3. CASE PushInfo
  <2>1. latest \in Parts /\ log[latest] \in Seq(Kinds)
    BY <1>3 DEF PushInfo
  <2>2. Len(log[latest]) \in 1 .. MaxPush
    BY <1>3, <2>1 DEF PushInfo
  <2> QED
    BY <1>3, <2>1, <2>2 DEF PushInfo
<1>4. ASSUME NEW k \in Kinds, PushRecord(k)
      PROVE  /\ latest' \in Parts
             /\ log' \in [Parts -> Seq(Kinds)]
             /\ announced' \in [Parts -> {Missing, NoInfo} \cup (1 .. MaxPush)]
             /\ writer' \in WriterStates
             /\ WriterInv'
  <2>1. latest \in Parts /\ log[latest] \in Seq(Kinds)
    BY <1>4 DEF PushRecord
  <2>2. /\ Append(log[latest], k) \in Seq(Kinds)
        /\ Len(Append(log[latest], k)) = Len(log[latest]) + 1
        /\ Len(log[latest]) \in Nat
    BY <2>1
  <2>3. /\ log' \in [Parts -> Seq(Kinds)]
        /\ log'[latest] = Append(log[latest], k)
        /\ \A p \in Parts \ {latest} : log'[p] = log[p]
    BY <1>4, <2>1, <2>2 DEF PushRecord
  <2>4. Len(log[latest]) < MaxPush
    BY <1>4 DEF PushRecord
  <2>5. Len(log'[latest]) >= 1 /\ Len(log'[latest]) <= MaxPush
    <3>1. Len(log'[latest]) = Len(log[latest]) + 1
      BY <2>2, <2>3
    <3>2. MaxPush \in Nat
      OBVIOUS
    <3> HIDE DEF WriterInv, QueueTypeOK, TypeInv, TypeOK
    <3> QED
      BY <2>2, <2>4, <3>1, <3>2
  <2>6. \A p \in Parts : Len(log'[p]) <= MaxPush
    BY <2>3, <2>5
  <2> QED
    BY <1>4, <2>1, <2>3, <2>5, <2>6 DEF PushRecord
<1> QED
  BY <1>1, <1>2, <1>3, <1>4

\* put_info() writes a well formed position.
LEMMA PutInfoType ==
  ASSUME TypeOK, q' \in QueueObject, NEW c \in Consumers,
         NEW n \in 0 .. MaxPush, PutInfo(c, n)
  PROVE  /\ id' \in [Consumers -> Parts]
         /\ popped' \in [Consumers -> 0 .. MaxPush]
         /\ infoPop' \in [Consumers -> [id: Parts, popped: 0 .. MaxPush,
                                        saved: BOOLEAN]]
BY DEF PutInfo, TypeOK, QueueTypeOK, QueueObject

\* The steps of the reader that concern pop().
LEMMA TypePoll ==
  ASSUME TypeInv, Poll \/ EndOfPart
  PROVE  TypeInv'
<1> USE DEF TypeInv, TypeOK, WriterInv
<1>0. i \in Consumers /\ id[i] \in Parts /\ popped[i] \in 0 .. MaxPush
      /\ q \in QueueObject
  BY DEF QueueTypeOK
<1>1. i' \in Consumers /\ pc' \in {"down", "round", "poll", "roll", "rolled", "handle"}
  BY DEF Poll, EndOfPart, GotNull
<1>2. WriterInv' /\ UNCHANGED <<diskVars, deaths, handled, prepared>>
  BY DEF Poll, EndOfPart, diskVars
<1>3. pc # "down" /\ latest # None
  BY DEF Poll, EndOfPart
<1> SUFFICES QueueTypeOK'
  <2>1. pc' = "handle" => PopRecord(i) /\ i' = i
    BY DEF Poll, EndOfPart, GotNull
  <2>2. PopRecord(i) => last'[i] \in Records
    <3>1. ReadFrom(i).data \in Parts
      BY <1>0, PopCountType DEF ReadFrom, GetQueueFile, QueueObject
    <3>2. PopRecord(i) => <<ReadFrom(i).data, popped[i] + 1>> \in Records
      BY <1>0, <3>1, PopCountType DEF PopRecord, Records
    <3>3. PopRecord(i) => last'[i] = <<ReadFrom(i).data, popped[i] + 1>>
      BY <1>0 DEF PopRecord, QueueTypeOK
    <3> QED
      BY <3>2, <3>3
  <2> QED
    BY <1>1, <1>2, <1>3, <2>1, <2>2 DEF diskVars
<1>4. CASE Poll
  <2>1. CASE PopNotReady(i) \/ PopAtEnd(i)
    BY <1>0, <1>2, <2>1, PopCountType, ZenonT(30)
       DEF PopNotReady, PopAtEnd, QueueTypeOK, diskVars
  <2>2. CASE PopEndOfFile(i)
    BY <1>0, <1>2, <2>2, PopCountType DEF PopEndOfFile, QueueTypeOK, diskVars
  <2>3. CASE PopRecord(i)
    <3>1. ReadFrom(i).data \in Parts
      BY <1>0, PopCountType DEF ReadFrom, GetQueueFile, QueueObject
    <3>2. <<ReadFrom(i).data, popped[i] + 1>> \in Records
      BY <1>0, <2>3, <3>1, PopCountType DEF PopRecord, Records
    <3> QED
      BY <1>0, <1>2, <2>3, <3>2, PopCountType
         DEF PopRecord, QueueTypeOK, diskVars
  <2>4. CASE PopThrows(i) /\ UNCHANGED infoPop /\ UNCHANGED readerVars
    BY <1>2, <2>4 DEF QueueTypeOK, diskVars, readerVars
  <2> QED
    BY <1>4, <2>1, <2>2, <2>3, <2>4 DEF Poll
<1>5. PopSeesQueue(i) \in QueueObject
  BY <1>0, GetInfoQueueType DEF PopSeesQueue, QueueTypeOK
<1>6. CASE EndOfPart
  <2>1. CASE PopNoNextPart(i)
    BY <1>0, <1>2, <1>5, <2>1 DEF PopNoNextPart, QueueTypeOK, diskVars
  <2>2. CASE PopNextPart(i)
    <3>1. id[i] + 1 \in Parts
      <4>1. PopSeesQueue(i).id > id[i]
        BY <2>2 DEF PopNextPart
      <4>2. PopSeesQueue(i).id \in Parts
        BY <1>5 DEF QueueObject
      <4>3. id[i] \in Parts
        BY <1>0 DEF QueueTypeOK
      <4> QED
        BY <4>1, <4>2, <4>3, QueueAssumption DEF Parts
    <3>2. [PopSeesQueue(i) EXCEPT !.id = id[i] + 1] \in QueueObject
      BY <1>5, <3>1 DEF QueueObject
    <3>3. q' \in QueueObject
      BY <2>2, <3>1, <3>2, GetInfoPushType DEF PopNextPart, QueueTypeOK
    <3>4. NoFile \in [id: Parts, popped: 0 .. MaxPush, saved: BOOLEAN]
      BY DEF NoFile
    <3>5. 0 \in 0 .. MaxPush
      OBVIOUS
    <3> QED
      BY <1>2, <2>2, <3>1, <3>3, <3>4, <3>5
         DEF PopNextPart, QueueTypeOK, diskVars
  <2>3. CASE PopPutInfo(i)
    <3>1. PutInfo(i, popped[i]) /\ q' \in QueueObject
      BY <1>0, <2>3 DEF PopPutInfo
    <3> QED
      BY <1>0, <1>2, <2>3, <3>1, PutInfoType DEF PopPutInfo, QueueTypeOK, diskVars
  <2> QED
    BY <1>6, <2>1, <2>2, <2>3 DEF EndOfPart
<1> QED
  BY <1>4, <1>6

\* The steps of the reader that concern a record.
LEMMA TypeRecord ==
  ASSUME TypeInv, SkipRecord \/ PrepareDone \/ PrepareRetry
  PROVE  TypeInv'
<1> USE DEF TypeInv, TypeOK, WriterInv
<1>0. i \in Consumers /\ 0 \in Consumers /\ id[i] \in Parts
      /\ popped[i] \in 0 .. MaxPush /\ q \in QueueObject
  BY SMTT(30) DEF QueueTypeOK
<1>1. pc = "handle" /\ pc' = "poll" /\ i' \in Consumers
      /\ UNCHANGED <<diskVars, deaths>>
  BY <1>0 DEF SkipRecord, PrepareDone, PrepareRetry
<1>2. last[i] \in Records
  BY <1>1
<1>3. handled' \in [Consumers -> SUBSET Records] /\ prepared' \in SUBSET Records
  BY <1>0, <1>2 DEF SkipRecord, PrepareDone, PrepareRetry, Commit
<1> SUFFICES QueueTypeOK'
  BY <1>1, <1>3 DEF diskVars
<1>4. CASE UNCHANGED <<infoPop, readerVars>>
  BY <1>1, <1>4 DEF QueueTypeOK, diskVars, readerVars
<1>5. CASE CommitAndNext(i)
  <2>1. q' \in QueueObject
    BY <1>0, <1>5, GetInfoPushType DEF CommitAndNext, QueueTypeOK
  <2>2. CASE CommitRefused(i)
    BY <1>1, <1>5, <2>1, <2>2 DEF CommitAndNext, QueueTypeOK, diskVars
  <2>3. CASE ~CommitRefused(i)
    <3>1. popped[i] + 1 \in 0 .. MaxPush
      BY <1>0, <1>5, <2>1, <2>3 DEF CommitAndNext, CommitRefused, QueueObject
    <3>2. PutInfo(i, popped[i] + 1)
      BY <1>5, <2>3 DEF CommitAndNext
    <3> QED
      BY <1>0, <1>1, <1>5, <2>1, <3>1, <3>2, PutInfoType
         DEF CommitAndNext, QueueTypeOK, diskVars
  <2> QED
    BY <2>2, <2>3
<1> QED
  BY <1>4, <1>5 DEF SkipRecord, PrepareDone, PrepareRetry, Commit

\* The starts and ends of processes and rounds.
LEMMA TypeProcess ==
  ASSUME TypeInv, WriterDies \/ ReaderDies \/ Start \/ Round
  PROVE  TypeInv'
<1> USE DEF TypeInv, TypeOK, WriterInv
<1>1. CASE WriterDies
  BY <1>1 DEF WriterDies, QueueTypeOK, WriterStates, readerVars
<1>2. CASE ReaderDies
  <2>1. deaths' \in 0 .. MaxReaderDeath
    BY <1>2 DEF ReaderDies
  <2>2. QueueTypeOK' /\ WriterInv'
    BY <1>2 DEF ReaderDies, QueueTypeOK, diskVars, readerVars
  <2> QED
    BY <1>2, <2>1, <2>2 DEF ReaderDies
<1>3. CASE Start
  <2>1. NewQueue \in QueueObject
    BY DEF NewQueue, QueueObject
  <2> QED
    BY <1>3, <2>1 DEF Start, ReaderOpen, QueueTypeOK, diskVars
<1>4. CASE Round
  <2>1. q' \in QueueObject
    BY <1>4, GetInfoQueueType DEF Round, QueueTypeOK
  <2>2. i' \in Consumers /\ pc' \in {"round", "poll"}
    BY <1>4 DEF Round
  <2> QED
    BY <1>4, <2>1, <2>2 DEF Round, QueueTypeOK, diskVars
<1> QED
  BY <1>1, <1>2, <1>3, <1>4

\* Every step keeps the types.
LEMMA TypeStep == TypeInv /\ [Next]_vars => TypeInv'
<1> SUFFICES ASSUME TypeInv, [Next]_vars PROVE TypeInv'
  OBVIOUS
<1>1. CASE Next
  BY <1>1, TypeWrite, TypePoll, TypeRecord, TypeProcess DEF Next, Reader
<1>2. CASE UNCHANGED vars
  BY <1>2 DEF vars, diskVars, readerVars, loopVars, TypeInv, TypeOK,
              QueueTypeOK, WriterInv
<1> QED
  BY <1>1, <1>2

\* Every variable of the writer, the reader and the loop keeps its type,
\* whatever the number of consumers: in particular no record number leaves
\* the part it counts in.
THEOREM TypeCorrect == Spec => []TypeOK
<1>1. TypeInv => TypeOK
  BY DEF TypeInv
<1> QED
  BY <1>1, TypeInit, TypeStep, PTL DEF Spec
-----------------------------------------------------------------------------
(* One consumer on the queue. *)

\* Where the types put the values of the only consumer.
LEMMA OneTypes ==
  ASSUME NumConsumers = 1, TypeInv
  PROVE  /\ Consumers = {0} /\ i = 0
         /\ id[0] \in Parts /\ popped[0] \in 0 .. MaxPush
         /\ q \in QueueObject
         /\ q.id \in Parts /\ q.count_pushed \in 0 .. MaxPush
         /\ q.info \in Parts \cup {None} /\ q.data \in Parts \cup {None}
         /\ q.ready \in BOOLEAN
         /\ infoPop[0].id \in Parts /\ infoPop[0].popped \in 0 .. MaxPush
         /\ latest \in Parts \cup {None}
         /\ \A p \in Parts : announced[p] \in {Missing, NoInfo} \cup (1 .. MaxPush)
<1>1. Consumers = {0} /\ i = 0 /\ 0 \in Consumers
  BY DEF TypeInv, TypeOK
<1>2. /\ id[0] \in Parts /\ popped[0] \in 0 .. MaxPush /\ q \in QueueObject
      /\ infoPop[0] \in [id: Parts, popped: 0 .. MaxPush, saved: BOOLEAN]
      /\ latest \in Parts \cup {None}
      /\ \A p \in Parts : announced[p] \in {Missing, NoInfo} \cup (1 .. MaxPush)
  BY <1>1 DEF TypeInv, TypeOK, QueueTypeOK
<1> QED
  BY <1>1, <1>2 DEF QueueObject

\* With the handles on the consumer's own part, get_info_push() reads the
\* count of that part.
LEMMA OwnCount ==
  ASSUME NumConsumers = 1, TypeInv, HandlesInv,
         pc \in {"poll", "handle"}
  PROVE  LET g == GetInfoPush(q, id[0])
         IN  IF announced[id[0]] = Missing
               THEN ~g.ready /\ g.info = None /\ g.data = None /\ g.id = q.id
               ELSE /\ g.ready /\ g.info = id[0]
                    /\ g.data = q.data /\ g.id = q.id
                    /\ announced[id[0]] # NoInfo =>
                         g.count_pushed = announced[id[0]]
<1>1. /\ id[0] \in Parts /\ q \in QueueObject /\ q.ready
      /\ q.info \in {None, id[0]} /\ q.data \in {None, id[0]}
  BY OneTypes DEF HandlesInv
<1>2. GetInfoPush(q, id[0]) =
        IF announced[id[0]] = Missing
          THEN [q EXCEPT !.ready = FALSE]
          ELSE [q EXCEPT !.info = id[0],
                         !.count_pushed = IF announced[id[0]] = NoInfo
                                            THEN @ ELSE announced[id[0]]]
  BY <1>1 DEF GetInfoPush
<1>3. announced[id[0]] = Missing => q.info = None /\ q.data = None
  BY <1>1 DEF HandlesInv
<1> QED
  BY <1>1, <1>2, <1>3 DEF QueueObject

\* The saved and the remembered position stay behind what is handled when
\* only the newest part gets new counts.
LEMMA OneWrite ==
  ASSUME NumConsumers = 1, OneConsumerInv, Write
  PROVE  HandlesInv' /\ PartInv' /\ HandledInv'
<1>1. TypeInv /\ UNCHANGED <<readerVars, infoPop, loopVars>>
  BY DEF OneConsumerInv, Write, OpenNextPart, CreatePartFiles, PushInfo, PushRecord
<1>2. UNCHANGED <<q, id, popped, last, infoPop, pc, handled>>
  BY <1>1 DEF readerVars, loopVars
<1>3. \/ OpenNextPart
      \/ /\ writer \notin {"down"} /\ latest' = latest /\ latest \in Parts
         /\ writer' \notin {"down", "opening"}
         /\ writer = "opening" => pc = "down"
         /\ \A p \in Parts : \/ announced'[p] = announced[p]
                             \/ p = latest /\ announced'[p] # Missing
  <2>1. latest \in Parts \cup {None} /\ (writer # "down" => latest \in Parts)
    BY <1>1, OneTypes DEF TypeInv, WriterInv
  <2>2. CASE CreatePartFiles
    BY <1>1, <2>1, <2>2
       DEF CreatePartFiles, OneConsumerInv, PartInv, TypeInv, TypeOK, QueueTypeOK
  <2>3. CASE PushInfo
    <3>1. Len(log[latest]) \in 1 .. MaxPush
      BY <1>1, <2>1, <2>3 DEF PushInfo, TypeInv, WriterInv, TypeOK, QueueTypeOK
    <3> QED
      BY <1>1, <2>1, <2>3, <3>1 DEF PushInfo, TypeInv, TypeOK, QueueTypeOK
  <2>4. ASSUME NEW kk \in Kinds, PushRecord(kk)
        PROVE  /\ writer \notin {"down"} /\ latest' = latest /\ latest \in Parts
               /\ writer' \notin {"down", "opening"} /\ writer # "opening"
               /\ announced' = announced
    BY <2>1, <2>4 DEF PushRecord
  <2> QED
    BY <2>2, <2>3, <2>4 DEF Write
<1>4. CASE OpenNextPart
  <2>1. /\ pc = "down" /\ latest' = latest + 1 /\ announced' = announced
        /\ latest \in Parts \cup {None} /\ infoPop[0].id \in Parts
    BY <1>1, <1>4, OneTypes DEF OpenNextPart, OneConsumerInv, PartInv
  <2>2. HandlesInv'
    BY <1>2, <2>1 DEF HandlesInv, OneConsumerInv
  <2>3. PartInv'
    BY <1>2, <2>1 DEF PartInv, OneConsumerInv
  <2>4. HandledInv'
    BY <1>2, <2>1 DEF HandledInv, HandledUpTo, OneConsumerInv
  <2> QED
    BY <2>2, <2>3, <2>4
<1>5. CASE ~OpenNextPart
  <2>1. HandlesInv'
    BY <1>1, <1>2, <1>3, <1>5, OneTypes DEF HandlesInv, OneConsumerInv
  <2>2. PartInv'
    BY <1>1, <1>2, <1>3, <1>5, OneTypes DEF PartInv, OneConsumerInv
  <2>3. ASSUME NEW p \in Parts, NEW n, p = 0 \/ p <= latest, HandledUpTo(p, n)
        PROVE  HandledUpTo(p, n)'
    <3>1. \A r \in Records : r[1] \in Parts /\ r[2] \in Nat
      BY DEF Records
    <3>2. \A r \in Records : r[1] < p => announced'[r[1]] = announced[r[1]]
      BY <1>3, <1>5, <2>3, <3>1
    <3> QED
      BY <1>2, <2>3, <3>2 DEF HandledUpTo
  <2>4. HandledInv'
    BY <1>1, <1>2, <2>3, OneTypes DEF HandledInv, OneConsumerInv, PartInv
  <2> QED
    BY <2>1, <2>2, <2>4
<1> QED
  BY <1>4, <1>5

\* Starts, deaths and the beginning of a round.
LEMMA OneProcess ==
  ASSUME NumConsumers = 1, OneConsumerInv, WriterDies \/ ReaderDies \/ Start \/ Round
  PROVE  HandlesInv' /\ PartInv' /\ HandledInv'
<1>0. TypeInv
  BY DEF OneConsumerInv
<1>1. CASE WriterDies \/ ReaderDies
  BY <1>1 DEF WriterDies, ReaderDies, diskVars, readerVars, OneConsumerInv,
              HandlesInv, PartInv, HandledInv, HandledUpTo
<1>2. CASE Start
  <2>1. /\ q' = NewQueue /\ id'[0] = infoPop[0].id /\ popped'[0] = infoPop[0].popped
        /\ UNCHANGED <<latest, announced, writer, infoPop, handled>>
        /\ pc' = "round" /\ writer \notin {"down", "opening"}
    BY <1>0, <1>2, OneTypes DEF Start, ReaderOpen, diskVars
  <2>2. latest \in Parts /\ infoPop[0].id \in Parts
    BY <1>0, <2>1, OneTypes DEF TypeInv, WriterInv
  <2>3. HandlesInv'
    BY <2>1 DEF HandlesInv, NewQueue
  <2>4. PartInv'
    BY <2>1, <2>2 DEF PartInv, NewQueue, OneConsumerInv
  <2>5. HandledInv'
    BY <2>1 DEF HandledInv, HandledUpTo, OneConsumerInv
  <2> QED
    BY <2>3, <2>4, <2>5
<1>3. CASE Round
  <2>1. /\ UNCHANGED <<latest, announced, writer, infoPop, handled, id, popped, last>>
        /\ pc = "round" /\ pc' \in {"round", "poll"} /\ q \in QueueObject
        /\ latest \in Parts
    BY <1>0, <1>3, OneTypes DEF Round, diskVars, TypeInv
  <2>2. /\ q'.info = None /\ q'.data = None /\ q'.ready /\ q'.id = latest
    BY <1>3, <2>1 DEF Round, GetInfoQueue, OpenQueue, CloseQueue, QueueObject,
                      HandlesInv, OneConsumerInv
  <2>3. HandlesInv'
    BY <2>1, <2>2 DEF HandlesInv
  <2>4. PartInv'
    BY <2>1, <2>2 DEF PartInv, OneConsumerInv
  <2>5. HandledInv'
    BY <2>1 DEF HandledInv, HandledUpTo, OneConsumerInv
  <2> QED
    BY <2>3, <2>4, <2>5
<1> QED
  BY <1>1, <1>2, <1>3

\* A call of pop() up to its end of part or its record.
LEMMA OnePoll ==
  ASSUME NumConsumers = 1, OneConsumerInv, Poll
  PROVE  HandlesInv' /\ PartInv' /\ HandledInv'
<1>0. /\ TypeInv /\ i = 0 /\ pc = "poll" /\ latest \in Parts
      /\ id[0] \in Parts /\ popped[0] \in 0 .. MaxPush /\ q \in QueueObject
      /\ q.ready /\ q.info \in {None, id[0]} /\ q.data \in {None, id[0]}
      /\ q.id <= latest /\ id[0] <= latest
  BY OneTypes DEF OneConsumerInv, Poll, TypeInv, HandlesInv, PartInv
<1>1. UNCHANGED <<latest, announced, writer, infoPop, handled, id, popped>>
  BY DEF Poll, diskVars, readerVars, PopNotReady, PopAtEnd, PopEndOfFile, PopRecord
<1>2. HandledInv'
  BY <1>0, <1>1 DEF HandledInv, HandledUpTo, OneConsumerInv
<1> DEFINE g == GetInfoPush(q, id[0])
<1>3. IF announced[id[0]] = Missing
        THEN ~g.ready /\ g.info = None /\ g.data = None /\ g.id = q.id
        ELSE /\ g.ready /\ g.info = id[0] /\ g.data = q.data /\ g.id = q.id
             /\ announced[id[0]] # NoInfo => g.count_pushed = announced[id[0]]
  BY <1>0, OwnCount DEF OneConsumerInv
<1>4. g \in QueueObject
  BY <1>0, GetInfoPushType DEF TypeInv, TypeOK, QueueTypeOK
<1>5. PopCount(0) = IF popped[0] >= q.count_pushed THEN g ELSE q
  BY DEF PopCount
<1> HIDE DEF g
<1>6. CASE PopNotReady(0) /\ GotNull
  <2>1. q' = g /\ announced[id[0]] = Missing /\ pc' = "round"
    BY <1>0, <1>3, <1>5, <1>6 DEF PopNotReady, GotNull
  <2> QED
    BY <1>0, <1>1, <1>2, <1>3, <1>6, <2>1 DEF HandlesInv, PartInv, OneConsumerInv
<1>7. CASE PopAtEnd(0) /\ pc' = "roll"
  <2>1. q' = g /\ announced[id[0]] # Missing /\ popped[0] >= g.count_pushed
    BY <1>0, <1>3, <1>4, <1>5, <1>7 DEF PopAtEnd, QueueObject
  <2>2. popped[0] >= announced[id[0]]
    BY <1>0, <1>3, <2>1, OneTypes
  <2>3. HandlesInv'
    BY <1>0, <1>1, <1>3, <1>7, <2>1 DEF HandlesInv, OneConsumerInv
  <2>4. PartInv'
    BY <1>0, <1>1, <1>3, <1>7, <2>1, <2>2 DEF PartInv, OneConsumerInv
  <2> QED
    BY <1>2, <2>3, <2>4
<1>8. CASE PopThrows(0) /\ pc' = "down" /\ UNCHANGED readerVars
  BY <1>0, <1>1, <1>2, <1>8
     DEF readerVars, HandlesInv, PartInv, OneConsumerInv
<1>9. ASSUME PopReads(0), announced[ReadFrom(0).data] # Missing, q' = ReadFrom(0)
      PROVE  /\ q'.id = id[0] /\ q'.data = id[0] /\ q'.info \in {None, id[0]}
             /\ q'.ready /\ announced[id[0]] # Missing
             /\ q'.info # None => announced[q'.info] # Missing
  <2>1. PopCount(0) \in {g, q} /\ PopCount(0).ready
    BY <1>5, <1>9 DEF PopReads
  <2>2. /\ PopCount(0) \in QueueObject /\ PopCount(0).data \in {None, id[0]}
        /\ PopCount(0).info \in {None, id[0]}
    BY <1>0, <1>3, <1>4, <2>1
  <2>3. /\ ReadFrom(0).id = id[0] /\ ReadFrom(0).data = id[0]
        /\ ReadFrom(0).info = PopCount(0).info /\ ReadFrom(0).ready
    BY <1>0, <2>1, <2>2 DEF ReadFrom, GetQueueFile, QueueObject
  <2> QED
    BY <1>9, <2>2, <2>3
<1>10. CASE PopEndOfFile(0) /\ GotNull
  <2>1. pc' = "round" /\ PopReads(0) /\ announced[ReadFrom(0).data] # Missing
        /\ q' = ReadFrom(0)
    BY <1>0, <1>10 DEF GotNull, PopEndOfFile
  <2> QED
    BY <1>0, <1>1, <1>2, <1>9, <2>1 DEF HandlesInv, PartInv, OneConsumerInv
<1>11. CASE PopRecord(0) /\ pc' = "handle"
  <2>1. PopReads(0) /\ announced[ReadFrom(0).data] # Missing /\ q' = ReadFrom(0)
    BY <1>11 DEF PopRecord
  <2>2. last'[0] = <<id[0], popped[0] + 1>>
    <3>1. last \in [Consumers -> Records \cup {NoRecord}] /\ 0 \in Consumers
      BY <1>0, OneTypes DEF TypeInv, TypeOK, QueueTypeOK
    <3> QED
      BY <1>9, <1>11, <2>1, <3>1 DEF PopRecord
  <2> QED
    BY <1>0, <1>1, <1>2, <1>9, <1>11, <2>1, <2>2
       DEF HandlesInv, PartInv, OneConsumerInv
<1> QED
  BY <1>0, <1>6, <1>7, <1>8, <1>10, <1>11 DEF Poll

\* The change of part: the part that is left is closed and all its announced
\* records are handled.
LEMMA OneEndOfPart ==
  ASSUME NumConsumers = 1, OneConsumerInv, EndOfPart
  PROVE  HandlesInv' /\ PartInv' /\ HandledInv'
<1>0. /\ TypeInv /\ i = 0 /\ pc \in {"roll", "rolled"} /\ latest \in Parts
      /\ id[0] \in Parts /\ popped[0] \in 0 .. MaxPush /\ q \in QueueObject
      /\ q.id \in Parts /\ q.ready /\ q.id <= latest /\ id[0] <= latest
      /\ Consumers = {0}
      /\ id \in [Consumers -> Parts] /\ popped \in [Consumers -> 0 .. MaxPush]
      /\ infoPop \in [Consumers -> [id: Parts, popped: 0 .. MaxPush,
                                    saved: BOOLEAN]]
  BY OneTypes DEF OneConsumerInv, EndOfPart, TypeInv, TypeOK, QueueTypeOK,
                  HandlesInv, PartInv
<1>1. UNCHANGED <<latest, announced, writer, handled>>
  BY DEF EndOfPart, diskVars
<1> DEFINE s == PopSeesQueue(0)
<1>2. s \in QueueObject /\ s.ready /\ s.info = q.info /\ s.data = q.data
      /\ s.id <= latest /\ s.id \in Parts
  BY <1>0 DEF PopSeesQueue, GetInfoQueue, QueueObject
<1>3. CASE pc = "roll" /\ PopNoNextPart(0) /\ GotNull
  <2>1. q' = s /\ pc' = "round" /\ UNCHANGED <<id, popped, infoPop, last>>
    BY <1>0, <1>3 DEF PopNoNextPart, GotNull
  <2> QED
    BY <1>0, <1>1, <1>2, <1>3, <2>1
       DEF HandlesInv, PartInv, HandledInv, HandledUpTo, OneConsumerInv
<1>4. CASE pc = "roll" /\ PopNextPart(0) /\ pc' = "rolled"
  <2>1. /\ s.id > id[0] /\ id'[0] = id[0] + 1 /\ popped'[0] = 0
        /\ infoPop'[0] = NoFile
        /\ q' = GetInfoPush([s EXCEPT !.id = id[0] + 1], id[0] + 1)
    BY <1>0, <1>4 DEF PopNextPart
  <2>2. id[0] + 1 <= latest /\ id[0] + 1 \in Parts
    BY <1>0, <1>2, <2>1
  <2>3. q.info = id[0] /\ announced[id[0]] # Missing
    BY <1>0, <1>4 DEF HandlesInv, OneConsumerInv
  <2>4. /\ q'.id = id[0] + 1 /\ q'.ready /\ q'.info = id[0] /\ q'.data = q.data
    BY <1>0, <1>2, <2>1, <2>2, <2>3 DEF GetInfoPush, QueueObject
  <2>5. popped[0] >= announced[id[0]]
    BY <1>0, <1>4, <2>2 DEF PartInv, OneConsumerInv
  <2>6. HandledUpTo(id[0], popped[0])
    BY <1>0 DEF HandledInv, OneConsumerInv
  <2>7. ASSUME NEW r \in Records,
               \/ r[1] < id[0] + 1 /\ r[2] <= announced[r[1]]
               \/ r[1] = id[0] + 1 /\ r[2] <= 0
        PROVE  r \in handled[0]
    <3>1. r[1] \in Parts /\ r[2] \in 1 .. MaxPush
      BY DEF Records
    <3>2. r[1] < id[0] + 1 /\ r[2] <= announced[r[1]]
      BY <2>7, <3>1
    <3>3. CASE r[1] = id[0]
      <4>1. announced[id[0]] \in Int
        BY <1>0, OneTypes
      <4>2. r[2] <= popped[0]
        BY <1>0, <2>5, <3>1, <3>2, <3>3, <4>1
      <4> QED
        BY <2>6, <3>3, <4>2 DEF HandledUpTo
    <3>4. CASE r[1] < id[0]
      BY <2>6, <3>2, <3>4 DEF HandledUpTo
    <3> QED
      BY <1>0, <3>1, <3>2, <3>3, <3>4
  <2>8. \A r \in Records : ~(r[1] < 0) /\ ~(r[1] = 0 /\ r[2] <= 0)
    BY DEF Records
  <2>9. HandledInv'
    <3>1. HandledUpTo(id[0], popped[0])'
      BY <1>1, <2>1, <2>7 DEF HandledUpTo
    <3>2. HandledUpTo(infoPop[0].id, infoPop[0].popped)'
      BY <2>1, <2>8 DEF HandledUpTo, NoFile
    <3> QED
      BY <3>1, <3>2 DEF HandledInv
  <2>10. HandlesInv'
    BY <1>0, <1>1, <1>4, <2>3, <2>4 DEF HandlesInv, OneConsumerInv
  <2>11. PartInv'
    BY <1>0, <1>1, <1>4, <2>1, <2>2, <2>4 DEF PartInv, OneConsumerInv, NoFile
  <2> QED
    BY <2>9, <2>10, <2>11
<1>5. CASE pc = "rolled" /\ PopPutInfo(0) /\ GotNull
  <2>1. /\ q' = q /\ q.id = id[0] /\ pc' = "round" /\ id'[0] = id[0]
        /\ popped'[0] = popped[0]
        /\ infoPop'[0].id = id[0] /\ infoPop'[0].popped = popped[0]
    BY <1>0, <1>5 DEF PopPutInfo, PutInfo, GotNull, PartInv, OneConsumerInv
  <2>2. HandledUpTo(id[0], popped[0])
    BY <1>0 DEF HandledInv, OneConsumerInv
  <2>3. HandledInv'
    BY <1>0, <1>1, <2>1, <2>2 DEF HandledInv, HandledUpTo
  <2> QED
    BY <1>0, <1>1, <1>5, <2>1, <2>3 DEF HandlesInv, PartInv, OneConsumerInv
<1> QED
  BY <1>0, <1>3, <1>4, <1>5 DEF EndOfPart

\* What is done with a record: a commit advances the position over the record
\* that was handled, and nothing else.
LEMMA OneRecord ==
  ASSUME NumConsumers = 1, OneConsumerInv,
         SkipRecord \/ PrepareDone \/ PrepareRetry
  PROVE  HandlesInv' /\ PartInv' /\ HandledInv'
<1>0. /\ TypeInv /\ i = 0 /\ pc = "handle" /\ pc' = "poll" /\ latest \in Parts
      /\ id[0] \in Parts /\ popped[0] \in 0 .. MaxPush /\ q \in QueueObject
      /\ q.id = id[0] /\ q.ready /\ id[0] <= latest /\ q.data = id[0]
      /\ announced[id[0]] # Missing
      /\ last[0] = <<id[0], popped[0] + 1>>
      /\ Consumers = {0}
      /\ id \in [Consumers -> Parts] /\ popped \in [Consumers -> 0 .. MaxPush]
      /\ infoPop \in [Consumers -> [id: Parts, popped: 0 .. MaxPush,
                                    saved: BOOLEAN]]
      /\ handled \in [Consumers -> SUBSET Records]
  <2>1. pc = "handle" /\ pc' = "poll"
    BY DEF SkipRecord, PrepareDone, PrepareRetry
  <2>2. /\ TypeInv /\ i = 0 /\ Consumers = {0}
        /\ id[0] \in Parts /\ popped[0] \in 0 .. MaxPush /\ q \in QueueObject
    BY OneTypes DEF OneConsumerInv
  <2>7. latest \in Parts
    BY <2>1, <2>2 DEF TypeInv, TypeOK, QueueTypeOK
  <2>3. /\ id \in [Consumers -> Parts] /\ popped \in [Consumers -> 0 .. MaxPush]
        /\ infoPop \in [Consumers -> [id: Parts, popped: 0 .. MaxPush,
                                      saved: BOOLEAN]]
        /\ handled \in [Consumers -> SUBSET Records]
    BY <2>2 DEF TypeInv, TypeOK, QueueTypeOK
  <2>4. q.ready /\ q.data = id[0]
    BY <2>1 DEF OneConsumerInv, HandlesInv
  <2>5. announced[id[0]] # Missing
    BY <2>2, <2>4 DEF OneConsumerInv, HandlesInv, Parts, None
  <2>6. /\ q.id = id[0] /\ id[0] <= latest
        /\ last[0] = <<id[0], popped[0] + 1>>
    BY <2>1 DEF OneConsumerInv, PartInv
  <2> QED
    BY <2>1, <2>2, <2>3, <2>4, <2>5, <2>6, <2>7
<1>1. UNCHANGED <<latest, announced, writer>>
  BY DEF SkipRecord, PrepareDone, PrepareRetry, diskVars
<1>2. CASE UNCHANGED <<q, id, popped, last, infoPop, handled>>
  BY <1>0, <1>1, <1>2
     DEF HandlesInv, PartInv, HandledInv, HandledUpTo, OneConsumerInv
<1>3. CASE Commit
  <2>1. CommitAndNext(0)
    BY <1>0, <1>3 DEF Commit
  <2>2. /\ q'.ready /\ q'.info = id[0] /\ q'.data = id[0] /\ q'.id = id[0]
        /\ last' = last
    BY <1>0, <2>1, OwnCount DEF CommitAndNext, OneConsumerInv
  <2>3. /\ HandledUpTo(id[0], popped[0])
        /\ HandledUpTo(infoPop[0].id, infoPop[0].popped)
    BY <1>0 DEF HandledInv, OneConsumerInv
  <2>4. CASE CommitRefused(0)
    <3>1. UNCHANGED <<id, popped, infoPop, handled>>
      BY <1>0, <1>3, <2>1, <2>4 DEF Commit, CommitAndNext
    <3> QED
      BY <1>0, <1>1, <2>2, <2>3, <3>1
         DEF HandlesInv, PartInv, HandledInv, HandledUpTo, OneConsumerInv
  <2>5. CASE ~CommitRefused(0)
    <3>1. /\ id'[0] = id[0] /\ popped'[0] = popped[0] + 1
          /\ infoPop'[0].id = id[0] /\ infoPop'[0].popped = popped[0] + 1
      BY <1>0, <2>1, <2>2, <2>5 DEF CommitAndNext, PutInfo
    <3>2. handled'[0] = handled[0] \cup {<<id[0], popped[0] + 1>>}
      BY <1>0, <1>3, <2>5 DEF Commit
    <3>3. ASSUME NEW r \in Records,
                 \/ r[1] < id[0] /\ r[2] <= announced[r[1]]
                 \/ r[1] = id[0] /\ r[2] <= popped[0] + 1
          PROVE  r \in handled'[0]
      <4>1. r[1] \in Parts /\ r[2] \in 1 .. MaxPush /\ r = <<r[1], r[2]>>
        BY DEF Records
      <4>2. CASE r[1] = id[0] /\ r[2] = popped[0] + 1
        BY <3>2, <4>1, <4>2
      <4>3. CASE ~(r[1] = id[0] /\ r[2] = popped[0] + 1)
        BY <1>0, <2>3, <3>2, <3>3, <4>1, <4>3 DEF HandledUpTo
      <4> QED
        BY <4>2, <4>3
    <3>4. HandledInv'
      BY <1>1, <3>1, <3>3 DEF HandledInv, HandledUpTo
    <3> QED
      BY <1>0, <1>1, <2>2, <3>1, <3>4 DEF HandlesInv, PartInv, OneConsumerInv
  <2> QED
    BY <2>4, <2>5
<1> QED
  BY <1>2, <1>3 DEF SkipRecord, PrepareDone, PrepareRetry, readerVars

\* The steps together: the invariant of a module with one consumer.
LEMMA OneConsumerInductive ==
  ASSUME NumConsumers = 1
  PROVE  /\ Init => OneConsumerInv
         /\ OneConsumerInv /\ [Next]_vars => OneConsumerInv'
<1>1. Init => OneConsumerInv
  <2> SUFFICES ASSUME Init PROVE OneConsumerInv
    OBVIOUS
  <2>1. TypeInv /\ Consumers = {0}
    BY TypeInit
  <2>2. HandlesInv /\ PartInv
    BY <2>1 DEF Init, QueueInit, NewQueue, NoFile, HandlesInv, PartInv
  <2>3. HandledInv
    BY <2>1 DEF Init, QueueInit, NoFile, HandledInv, HandledUpTo, Records
  <2> QED
    BY <2>1, <2>2, <2>3 DEF OneConsumerInv
<1>2. OneConsumerInv /\ [Next]_vars => OneConsumerInv'
  <2> SUFFICES ASSUME OneConsumerInv, [Next]_vars PROVE OneConsumerInv'
    OBVIOUS
  <2>1. TypeInv'
    BY TypeStep DEF OneConsumerInv
  <2>2. CASE Next
    BY <2>1, <2>2, OneWrite, OneProcess, OnePoll, OneEndOfPart, OneRecord
       DEF Next, Reader, OneConsumerInv
  <2>3. CASE UNCHANGED vars
    BY <2>1, <2>3 DEF vars, diskVars, readerVars, loopVars, OneConsumerInv,
                      HandlesInv, PartInv, HandledInv, HandledUpTo
  <2> QED
    BY <2>2, <2>3
<1> QED
  BY <1>1, <1>2

\* A module with one consumer (every module but the full text indexer) never
\* moves its saved position past an announced record that it has not
\* committed: not by a restart of the module, not by a restart of mstorage,
\* not by the change of part, whatever the number of parts and records.
THEOREM OneConsumerSkipsNothing ==
  ASSUME NumConsumers = 1
  PROVE  Spec => []NothingSkipped
<1>1. OneConsumerInv => NothingSkipped
  <2> SUFFICES ASSUME OneConsumerInv, NEW r \in Records, r[2] <= announced[r[1]],
                      Before(r, infoPop[0].id, infoPop[0].popped)
               PROVE  r \in handled[0]
    BY DEF NothingSkipped
  <2> QED
    BY DEF OneConsumerInv, HandledInv, HandledUpTo, Before
<1> QED
  BY <1>1, OneConsumerInductive, PTL DEF Spec

\* What pop() hands to such a module is the record that the position of its
\* consumer names, although the handles of the Queue object stay open over
\* many calls and are reopened by a comparison of part numbers only.
THEOREM OneConsumerPopsOwnRecord ==
  ASSUME NumConsumers = 1
  PROVE  Spec => []PopsOwnRecord
<1>1. OneConsumerInv => PopsOwnRecord
  BY OneTypes DEF OneConsumerInv, PartInv, PopsOwnRecord
<1> QED
  BY <1>1, OneConsumerInductive, PTL DEF Spec
-----------------------------------------------------------------------------
(* Any number of consumers on the queue. *)

\* A part file only grows, so what was known of its records stays known.
LEMMA LogGrows ==
  ASSUME TypeInv, Write, NEW r \in Records, r[2] <= Len(log[r[1]])
  PROVE  r[2] <= Len(log'[r[1]]) /\ log'[r[1]][r[2]] = log[r[1]][r[2]]
<1>1. r[1] \in Parts /\ r[2] \in 1 .. MaxPush /\ log[r[1]] \in Seq(Kinds)
      /\ latest \in Parts \cup {None} /\ log \in [Parts -> Seq(Kinds)]
  BY DEF Records, TypeInv, TypeOK, QueueTypeOK
<1>2. CASE UNCHANGED log
  BY <1>2
<1>3. ASSUME NEW k \in Kinds, PushRecord(k)
      PROVE  r[2] <= Len(log'[r[1]]) /\ log'[r[1]][r[2]] = log[r[1]][r[2]]
  <2>1. log' = [log EXCEPT ![latest] = Append(@, k)]
    BY <1>3 DEF PushRecord
  <2>2. CASE r[1] # latest
    BY <1>1, <2>1, <2>2
  <2>3. CASE r[1] = latest
    <3>1. log'[r[1]] = Append(log[r[1]], k)
      BY <1>1, <2>1, <2>3
    <3>2. /\ Len(Append(log[r[1]], k)) = Len(log[r[1]]) + 1
          /\ Append(log[r[1]], k)[r[2]] = log[r[1]][r[2]]
          /\ Len(log[r[1]]) \in Nat
      BY <1>1
    <3> QED
      BY <1>1, <3>1, <3>2
  <2> QED
    BY <2>2, <2>3
<1> QED
  BY <1>2, <1>3 DEF Write, OpenNextPart, CreatePartFiles, PushInfo

\* The writer appends only, and leaves the loop alone.
LEMMA PriorityWrite ==
  ASSUME ManyConsumersInv, Write
  PROVE  PriorityInv'
<1>1. UNCHANGED <<pc, i, handled, prepared, last>>
  BY DEF Write, loopVars, readerVars, OpenNextPart, CreatePartFiles, PushInfo,
         PushRecord
<1>2. TypeInv /\ PriorityInv
  BY DEF ManyConsumersInv
<1>3. pc = "handle" => last[i] \in Records
  BY <1>2 DEF TypeInv
<1>4. \A c \in Consumers : handled[c] \subseteq Records
  BY <1>2 DEF TypeInv, TypeOK
<1>5. ASSUME pc' = "handle"
      PROVE  last'[i'][2] <= Len(log'[last'[i'][1]])
  BY <1>1, <1>2, <1>3, <1>5, LogGrows DEF PriorityInv
<1>6. ASSUME NEW c \in Consumers, NEW r \in handled'[c]
      PROVE  r[2] <= Len(log'[r[1]]) /\ (r \in prepared' \/ Excused(c, r)')
  <2>1. r \in Records /\ r \in handled[c]
    BY <1>1, <1>4, <1>6
  <2>2. r[2] <= Len(log[r[1]]) /\ (r \in prepared \/ Excused(c, r))
    BY <1>2, <2>1 DEF PriorityInv
  <2>3. r[2] <= Len(log'[r[1]]) /\ log'[r[1]][r[2]] = log[r[1]][r[2]]
    BY <1>2, <2>1, <2>2, LogGrows
  <2> QED
    BY <1>1, <2>2, <2>3 DEF Excused
<1> QED
  BY <1>5, <1>6 DEF PriorityInv

\* A step that commits nothing keeps the second part, and the first one if
\* pop() does not hand out a record.
LEMMA PriorityKept ==
  ASSUME ManyConsumersInv, UNCHANGED <<log, handled, prepared>>,
         pc' = "handle" => last'[i'][2] <= Len(log[last'[i'][1]])
  PROVE  PriorityInv'
BY DEF ManyConsumersInv, PriorityInv, Excused

\* pop() hands out a record only if it is on disk.
LEMMA PriorityPoll ==
  ASSUME ManyConsumersInv, Poll \/ EndOfPart
  PROVE  PriorityInv'
<1>1. TypeInv /\ i \in Consumers /\ popped[i] \in 0 .. MaxPush
      /\ last \in [Consumers -> Records \cup {NoRecord}]
  BY DEF ManyConsumersInv, TypeInv, TypeOK, QueueTypeOK
<1>2. UNCHANGED <<log, handled, prepared>>
  BY DEF Poll, EndOfPart, diskVars
<1>3. ASSUME pc' = "handle"
      PROVE  last'[i'][2] <= Len(log[last'[i'][1]])
  <2>1. PopRecord(i) /\ i' = i
    BY <1>3 DEF Poll, EndOfPart, GotNull
  <2>2. ReadFrom(i).data \in Parts
    BY <1>1, PopCountType DEF ReadFrom, GetQueueFile, QueueObject, TypeInv,
                              TypeOK, QueueTypeOK
  <2>3. last'[i] = <<ReadFrom(i).data, popped[i] + 1>>
    BY <1>1, <2>1 DEF PopRecord
  <2>4. popped[i] < Len(log[ReadFrom(i).data])
    BY <2>1 DEF PopRecord
  <2>5. Len(log[ReadFrom(i).data]) \in Nat
    <3>1. log \in [Parts -> Seq(Kinds)]
      BY <1>1 DEF TypeInv, TypeOK, QueueTypeOK
    <3>2. log[ReadFrom(i).data] \in Seq(Kinds)
      BY <2>2, <3>1
    <3> QED
      BY <3>2
  <2> QED
    BY <1>1, <2>1, <2>3, <2>4, <2>5
<1> QED
  BY <1>2, <1>3, PriorityKept

\* A consumer commits a record of its own priority only once it is prepared.
LEMMA PriorityRecord ==
  ASSUME ManyConsumersInv,
         SkipRecord \/ PrepareDone \/ PrepareRetry
  PROVE  PriorityInv'
<1>1. /\ pc = "handle" /\ pc' = "poll" /\ UNCHANGED log /\ i \in Consumers
      /\ TypeInv /\ PriorityInv /\ handled \in [Consumers -> SUBSET Records]
      /\ last[i] \in Records
  BY DEF ManyConsumersInv, TypeInv, TypeOK, diskVars,
         SkipRecord, PrepareDone, PrepareRetry
<1>2. prepared \subseteq prepared'
  BY DEF SkipRecord, PrepareDone, PrepareRetry
<1>3. \/ handled' = handled
      \/ /\ handled' = [handled EXCEPT ![i] = @ \cup {last[i]}]
         /\ last[i] \in prepared' \/ Kind \in (Consumers \cup {Skip}) \ {i}
  <2>1. CASE SkipRecord
    <3>1. last[i][1] \in Parts /\ last[i][2] \in Nat /\ last[i][2] >= 1
      BY <1>1 DEF Records
    <3>2. log[last[i][1]] \in Seq(Kinds)
      BY <1>1, <3>1 DEF TypeInv, TypeOK, QueueTypeOK
    <3>3. Kind \in Kinds
      BY <1>1, <3>1, <3>2 DEF Kind, PriorityInv
    <3>4. Kind \in Consumers \cup {Skip}
      BY <3>3, ModuleAssumption
    <3> QED
      BY <2>1, <3>4 DEF SkipRecord, Commit
  <2>2. CASE PrepareDone
    BY <2>2 DEF PrepareDone, Commit
  <2>3. CASE PrepareRetry
    BY <2>3 DEF PrepareRetry
  <2> QED
    BY <2>1, <2>2, <2>3
<1>4. ASSUME NEW c \in Consumers, NEW r \in handled'[c]
      PROVE  r[2] <= Len(log[r[1]]) /\ (r \in prepared' \/ Excused(c, r))
  <2>1. CASE r \in handled[c]
    BY <1>1, <1>2, <2>1 DEF PriorityInv
  <2>2. CASE r \notin handled[c]
    <3>1. c = i /\ r = last[i]
      BY <1>1, <1>3, <1>4, <2>2
    <3>2. last[i] \in prepared' \/ Kind \in (Consumers \cup {Skip}) \ {i}
      BY <1>3, <1>4, <2>2
    <3> QED
      BY <1>1, <3>1, <3>2 DEF PriorityInv, Excused, Kind
  <2> QED
    BY <2>1, <2>2
<1> QED
  BY <1>1, <1>4 DEF PriorityInv, Excused

\* A record that every consumer has left behind was prepared by one of them,
\* or was for another subsystem, for any number of consumers: the priorities
\* divide the records, although the consumers share a Queue object, die in
\* the middle and may skip records of their own.
THEOREM PrioritiesCover == Spec => []NoneBetweenConsumers
<1>1. Init => ManyConsumersInv
  BY TypeInit DEF Init, ManyConsumersInv, PriorityInv
<1>2. ManyConsumersInv /\ [Next]_vars => ManyConsumersInv'
  <2> SUFFICES ASSUME ManyConsumersInv, [Next]_vars PROVE ManyConsumersInv'
    OBVIOUS
  <2>1. TypeInv'
    BY TypeStep DEF ManyConsumersInv
  <2>2. CASE WriterDies \/ ReaderDies \/ Start \/ Round
    <3>1. UNCHANGED <<log, handled, prepared>> /\ pc' # "handle"
      BY <2>2 DEF WriterDies, ReaderDies, Start, Round, diskVars
    <3> QED
      BY <2>1, <3>1, PriorityKept DEF ManyConsumersInv
  <2>3. CASE UNCHANGED vars
    BY <2>1, <2>3 DEF vars, diskVars, readerVars, loopVars, ManyConsumersInv,
                      PriorityInv, Excused
  <2> QED
    BY <2>1, <2>2, <2>3, PriorityWrite, PriorityPoll, PriorityRecord
       DEF Next, Reader, ManyConsumersInv
<1>3. ManyConsumersInv => NoneBetweenConsumers
  <2> SUFFICES ASSUME ManyConsumersInv, NEW r \in Records,
                      \A c \in Consumers : r \in handled[c],
                      r \notin prepared
               PROVE  log[r[1]][r[2]] = Skip
    BY DEF NoneBetweenConsumers
  <2>1. \A c \in Consumers : Excused(c, r)
    BY DEF ManyConsumersInv, PriorityInv
  <2>2. 0 \in Consumers
    OBVIOUS
  <2> QED
    BY <2>1, <2>2 DEF Excused
<1> QED
  BY <1>1, <1>2, <1>3, PTL DEF Spec
=============================================================================
