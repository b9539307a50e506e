--------------------------- MODULE MStorageProofs ---------------------------
(***************************************************************************)
(* Machine-checked proofs about MStorage: for any individuals, requests of *)
(* any length, both client threads, any number of crashes and failures.    *)
(***************************************************************************)
EXTENDS MStorage, SequenceTheorems, FiniteSetTheorems, TLAPS

-----------------------------------------------------------------------------
(***************************************************************************)
(* Types.                                                                  *)
(***************************************************************************)

\* The individuals a thread may write: no individual has two writers.
Mine(t) == IF t = "init" THEN InitUris ELSE Uris

Places == {"idle", "item", "find", "found", "save", "remove", "ticket"}
Jobs == [cmd: {"none", "put", "remove"}, uris: Seq(AllUris),
         target: {"all", "other"}, no: Nat, req: Nat]
Codes == [rc: {"Ok", "FailStore", "FailCommit"}, from: Managers]
FindMsg == [kind: {"find"}, from: {"n_channel", "init"}, uri: AllUris]
SaveMsg == [kind: {"save"}, from: {"n_channel", "init"}, item: Item]
Rec == [item: Item, op: Nat, part: Nat]

ClientType ==
  /\ pc \in [Threads -> Places]
  /\ job \in [Threads -> Jobs]
  /\ tnx \in [Threads -> Int]
  /\ prev \in [Threads -> State]
  /\ todo \in Seq({0, 1, 2})

\* A thread that works on an individual has one, and it is its own.
JobType ==
  \A t \in Threads :
    /\ job[t].uris \in Seq(Mine(t))
    /\ pc[t] \notin {"idle", "ticket"} => job[t].uris # <<>>

\* A message that manager m may have in its mailbox.
MsgOK(m, msg) ==
  /\ msg.from \in Threads
  /\ m = "ticket" => msg.kind = "save"
  /\ m = "subject" => IF msg.kind = "find" THEN msg.uri \in Mine(msg.from)
                                           ELSE msg.item.uri \in Mine(msg.from)

MailType ==
  /\ mbox \in [Threads -> Seq(Codes)]
  /\ inbox \in [Managers -> Seq(FindMsg \cup SaveMsg)]
  /\ \A m \in Managers : \A k \in 1 .. Len(inbox[m]) : MsgOK(m, inbox[m][k])

ManagerType ==
  /\ at \in [Managers -> {"loop", "replied", "informed"}]
  /\ cur \in [Managers -> SaveMsg \cup {<<>>}]
  /\ \A m \in Managers : at[m] # "loop" => cur[m] \in SaveMsg /\ cur[m].from \in Threads
  /\ at["subject"] # "loop" => cur["subject"].item.uri \in AllUris
  /\ op_id \in [Managers -> Nat]
  /\ committed_op_id \in [Managers -> Nat]
  /\ info \in [Managers -> [op: Nat, committed: Nat]]
  /\ \A m \in Managers : /\ committed_op_id[m] <= op_id[m]
                         /\ info[m].committed <= info[m].op
  /\ subject_manager_op_id \in Nat

DataType ==
  /\ store \in [AllUris -> State]
  /\ queue \in Seq(Rec)
  /\ \A k \in 1 .. Len(queue) : queue[k].item.uri \in AllUris
  /\ life \in 0 .. MaxCrash
  /\ requests \in Nat
  /\ saves \in Nat

TypeInv ==
  /\ setting \in Settings
  /\ ClientType /\ JobType /\ MailType /\ ManagerType /\ DataType
-----------------------------------------------------------------------------
(***************************************************************************)
(* Versions: behind NoLostUpdate, also when the queue throws and a client  *)
(* goes on before its write is done.                                       *)
(***************************************************************************)
Box == inbox["subject"]

\* A write on its way was made from the version that is stored.
SavesAreFresh ==
  \A k \in 1 .. Len(Box) :
    Box[k].kind = "save" => Box[k].item.prev.ctr = store[Box[k].item.uri].ctr

\* Behind a find() of a thread nothing of that thread is on its way, and
\* behind a save() another save() only if the first is the mark v-s:deleted.
OrderOfThread ==
  \A j, k \in 1 .. Len(Box) :
    j < k /\ Box[j].from = Box[k].from =>
      /\ Box[j].kind = "save"
      /\ Box[k].kind = "save" => Box[j].item.new.ctr = Box[j].item.prev.ctr

\* What the thread is doing while a message of it is on its way.
ThreadOfMessage ==
  \A k \in 1 .. Len(Box) :
    LET t == Box[k].from IN
      /\ Box[k].kind = "find" => pc[t] = "find" /\ Box[k].uri = Uri(t)
      /\ pc[t] # "found"
      /\ pc[t] = "remove" /\ Box[k].kind = "save" =>
           Box[k].item.new.ctr = Box[k].item.prev.ctr

\* What find() has answered is still the stored version.
FoundIsFresh ==
  \A t \in Threads :
    pc[t] \in {"found", "remove"} => prev[t].ctr = store[Uri(t)].ctr

VersionInv == SavesAreFresh /\ OrderOfThread /\ ThreadOfMessage /\ FoundIsFresh
-----------------------------------------------------------------------------
(***************************************************************************)
(* Calls: while the queue does not throw, a thread has one call under way. *)
(***************************************************************************)
Calm == "push" \notin setting.failures

\* Thread t has no message on its way.
Free(t) == \A m \in Managers : \A k \in 1 .. Len(inbox[m]) : inbox[m][k].from # t

\* A message on its way is the call its thread waits in, and no result is in
\* the thread's mailbox yet.
PendingFits(m, msg) ==
  /\ mbox[msg.from] = <<>>
  /\ IF msg.kind = "find" THEN pc[msg.from] = "find"
     ELSE IF m = "ticket" THEN pc[msg.from] = "ticket"
     ELSE pc[msg.from] \in {"save", "remove"} /\ msg.item.req = job[msg.from].req

CallPending ==
  \A m \in Managers : \A k \in 1 .. Len(inbox[m]) : PendingFits(m, inbox[m][k])

OneCall ==
  \A m \in Managers : \A j, k \in 1 .. Len(inbox[m]) :
    inbox[m][j].from = inbox[m][k].from => j = k

\* A result in a mailbox is the one its thread waits for.
AnswerFits(t) ==
  mbox[t] # <<>> =>
    /\ Len(mbox[t]) = 1
    /\ pc[t] \in {"save", "remove", "ticket"}
    /\ mbox[t][1].from = IF pc[t] = "ticket" THEN "ticket" ELSE "subject"

CallAnswered == \A t \in Threads : AnswerFits(t)

CallBody == CallPending /\ OneCall /\ CallAnswered
CallInv  == Calm => CallBody

\* The mailbox holds an Ok for a change of an individual.
OkArrived(t) == mbox[t] # <<>> /\ pc[t] \in {"save", "remove"} /\ mbox[t][1].rc = "Ok"

OkIsDone == \A t \in Threads : OkArrived(t) => \E d \in done : d.req = job[t].req

DoneInv == Calm => OkIsDone /\ AnswerIsOwn
-----------------------------------------------------------------------------
(***************************************************************************)
(* The flow of records: the queue with the record in hand.                 *)
(***************************************************************************)

\* The newest record of an individual in this part has left it as it is
\* stored; and the records link up.
IsLast(f, j) ==
  /\ f[j].part = life /\ f[j].item.target = "all"
  /\ \A n \in j + 1 .. Len(f) :
       f[n].item.uri # f[j].item.uri \/ f[n].item.target # "all"

Links(f) ==
  \A k \in 1 .. Len(f) : \A j \in 1 .. k - 1 :
    /\ f[j].item.uri = f[k].item.uri
    /\ f[j].part = f[k].part
    /\ f[j].item.target = "all"
    /\ \A n \in j + 1 .. k - 1 : f[n].item.uri # f[k].item.uri
                                   \/ f[n].item.target # "all"
    => f[k].item.prev.ctr = f[j].item.new.ctr

PartsSoFar(f) == \A k \in 1 .. Len(f) : f[k].part <= life

StoredIsLast(f) ==
  \A j \in 1 .. Len(f) : IsLast(f, j) =>
    store[f[j].item.uri].ctr = f[j].item.new.ctr

HistoryInv == Calm => PartsSoFar(Flow) /\ StoredIsLast(Flow) /\ Links(Flow)
-----------------------------------------------------------------------------
(***************************************************************************)
(* Answered changes: behind QueuedButLast.                                 *)
(***************************************************************************)
InFlow(r) == \E k \in 1 .. Len(Flow) : Flow[k].item.req = r
OkAnswers == {a \in answers : a.rc = "Ok"}

\* Every Ok of this start, taken or still in a mailbox, has its record.
OkIsInFlow ==
  /\ \A t \in Threads : OkArrived(t) => InFlow(job[t].req)
  /\ \A a \in OkAnswers : a.life = life => InFlow(a.req)

\* The calls of save() have different numbers, each is answered once.
Numbers ==
  /\ \A t \in Threads : job[t].req <= saves
  /\ \A a \in answers : a.req \in 0 .. saves /\ a.life \in 0 .. life
  /\ \A t \in Threads : pc[t] \in {"save", "remove"} =>
       /\ \A a \in OkAnswers : a.req # job[t].req
       /\ \A w \in Threads \ {t} :
            pc[w] \in {"save", "remove"} => job[w].req # job[t].req
  /\ \A a, b \in OkAnswers : a.req = b.req => a = b

\* An earlier start has left at most one.
OldUnqueued == \A l \in 0 .. life - 1 : \A a, b \in Unqueued(l) : a = b

AnswersInv == Calm => OkIsInFlow /\ Numbers /\ OldUnqueued
-----------------------------------------------------------------------------
(***************************************************************************)
(* Transactions: behind TransactionIsRequest.                              *)
(***************************************************************************)
PutsOnly == setting.commands = {"put"} /\ setting.failures = {} /\ ~Starting
Works(t) == pc[t] \notin {"idle", "ticket"}

\* transaction_id of the request once its first individual is answered.
RequestTnx == IF tnx["n_channel"] > 0 THEN tnx["n_channel"] ELSE op_id["subject"]

\* The records of requests in this part: numbered by request, and no later
\* request has the transaction_id of an earlier one.
TnxOfRecords(f) ==
  /\ \A k \in 1 .. Len(f) :
       /\ f[k].part <= life
       /\ f[k].item.no <= requests
       /\ f[k].part = life => f[k].item.tnx \in 1 .. op_id["subject"]
  /\ \A j, k \in 1 .. Len(f) :
       f[j].part = f[k].part /\ f[j].item.no # 0 /\ f[k].item.no # 0 =>
         (f[j].item.tnx = f[k].item.tnx <=> f[j].item.no = f[k].item.no)

\* The request at work: the message of it that is on its way, its records,
\* and the op_id that its answer will carry.
TnxOfRequest(f) ==
  Works("n_channel") =>
    /\ job["n_channel"].no = requests /\ requests > 0
    /\ pc["n_channel"] # "remove"
    /\ tnx["n_channel"] <= op_id["subject"]
    /\ \A k \in 1 .. Len(Box) : Box[k].kind = "save" =>
         /\ Box[k].item.no = requests /\ Box[k].item.tnx = tnx["n_channel"]
         /\ Box[k].item.cmd = "put"
    /\ mbox["n_channel"] # <<>> => subject_manager_op_id = op_id["subject"]
                                      /\ op_id["subject"] > 0
    /\ \A k \in 1 .. Len(f) :
         f[k].part = life /\ f[k].item.no = requests =>
           /\ f[k].item.tnx = RequestTnx
           /\ tnx["n_channel"] <= 0 => mbox["n_channel"] # <<>>
    /\ tnx["n_channel"] > 0 \/ mbox["n_channel"] # <<>> =>
         \E k \in 1 .. Len(f) : f[k].part = life /\ f[k].item.no = requests

JobIsPut == Works("n_channel") => job["n_channel"].cmd = "put"

TnxBody == JobIsPut /\ TnxOfRecords(Flow) /\ TnxOfRequest(Flow)
TnxInv  == PutsOnly => TnxBody
-----------------------------------------------------------------------------
(***************************************************************************)
(* The access index: behind WaitedIsApplied.                               *)
(***************************************************************************)
Steady == ~Crash /\ ~Starting /\ setting.failures = {}

\* An Ok that has arrived carries the newest op_id of the subject manager.
OpOfAnswer ==
  OkArrived("n_channel") =>
    /\ subject_manager_op_id = op_id["subject"]
    /\ acl.l_op_id < op_id["subject"]
    /\ \A k \in 1 .. Len(acl.inbox) : acl.inbox[k].op < op_id["subject"]

\* Events are on their way in the order of their numbers.
EventsInOrder ==
  /\ acl.info = acl.l_op_id
  /\ acl.l_op_id <= op_id["subject"]
  /\ \A k \in 1 .. Len(acl.inbox) : /\ acl.inbox[k].op > acl.l_op_id
                                    /\ acl.inbox[k].op <= op_id["subject"]
  /\ \A j, k \in 1 .. Len(acl.inbox) : j < k => acl.inbox[j].op < acl.inbox[k].op

\* An access individual that was answered is applied or on its way.
EventOfAnswer ==
  \A a \in OkAnswers : a.acl =>
    \/ a.req \in acl.applied
    \/ \E k \in 1 .. Len(acl.inbox) : acl.inbox[k] = [req |-> a.req, op |-> a.op]

Event == [req: Nat, op: Nat]
AclType == acl \in [inbox: Seq(Event), l_op_id: Nat, committed: Nat, info: Nat,
                    applied: SUBSET Nat]

AclBody == AclType /\ OpOfAnswer /\ EventsInOrder /\ EventOfAnswer
AclInv  == Steady => AclBody
-----------------------------------------------------------------------------
(***************************************************************************)
(* Facts about sequences and types.                                        *)
(***************************************************************************)

\* What a mailbox is after a message was put into it.
LEMMA AppendFacts ==
  ASSUME NEW S, NEW s \in Seq(S), NEW x \in S
  PROVE  /\ Append(s, x) \in Seq(S) /\ Append(s, x) # <<>>
         /\ Len(s) \in Nat /\ Len(Append(s, x)) = Len(s) + 1
         /\ \A k \in 1 .. Len(s) : Append(s, x)[k] = s[k]
         /\ Append(s, x)[Len(s) + 1] = x
OBVIOUS

\* What a mailbox is after a message was taken from it.
LEMMA TailFacts ==
  ASSUME NEW S, NEW s \in Seq(S), s # <<>>
  PROVE  /\ Tail(s) \in Seq(S)
         /\ Len(s) \in Nat \ {0} /\ Len(Tail(s)) = Len(s) - 1
         /\ \A k \in 1 .. Len(Tail(s)) : k + 1 \in 1 .. Len(s) /\ Tail(s)[k] = s[k + 1]
         /\ Head(s) = s[1] /\ Head(s) \in S /\ 1 \in 1 .. Len(s)
         /\ Len(s) = 1 <=> Tail(s) = <<>>
<1>1. Len(s) \in Nat \ {0} /\ Tail(s) \in Seq(S) /\ Len(Tail(s)) = Len(s) - 1
  OBVIOUS
<1>2. Tail(s) # <<>> => Len(Tail(s)) \in Nat \ {0}
  BY <1>1, EmptySeq
<1>3. Len(s) = 1 => Tail(s) = <<>>
  BY <1>1, <1>2
<1>4. Tail(s) = <<>> => Len(s) = 1
  <2> SUFFICES ASSUME Tail(s) = <<>> PROVE Len(s) = 1
    OBVIOUS
  <2>1. Len(Tail(s)) = 0
    BY EmptySeq
  <2> QED
    BY <1>1, <2>1
<1> QED
  BY <1>1, <1>3, <1>4

\* The settings.
LEMMA SettingFacts ==
  ASSUME setting \in Settings
  PROVE  /\ Threads \in {{"n_channel"}, {"n_channel", "init"}}
         /\ "n_channel" \in Threads
         /\ setting.uris \subseteq Uris
         /\ setting.crashes \in 0 .. MaxCrash
         /\ setting.items \in Nat /\ setting.requests \in Nat
         /\ setting.commands \subseteq {"put", "remove"}
         /\ setting.targets \subseteq {"all", "other"}
BY MStorageAssumption DEF Threads

\* No individual has two writers.
LEMMA MineFacts ==
  /\ \A t : Mine(t) \subseteq AllUris
  /\ Mine("n_channel") = Uris /\ Mine("init") = InitUris
  /\ Uris \cap InitUris = {}
BY MStorageAssumption DEF Mine, AllUris, InitUris

\* The list of individuals of a request.
LEMMA ListFacts ==
  ASSUME setting \in Settings, NEW us \in Lists
  PROVE  us \in Seq(Uris) /\ us # <<>>
<1>1. PICK n \in 1 .. setting.items : us \in [1 .. n -> setting.uris]
  BY DEF Lists
<1>2. n \in Nat \ {0} /\ setting.uris \subseteq Uris
  BY <1>1, SettingFacts
<1>3. us \in [1 .. n -> Uris]
  BY <1>1, <1>2
<1>4. us \in Seq(Uris) /\ Len(us) = n
  BY <1>2, <1>3
<1> QED
  BY <1>2, <1>4

\* The initial states have the types.
LEMMA TypeInit == Init => TypeInv
<1> SUFFICES ASSUME Init PROVE TypeInv
  OBVIOUS
<1>1. setting \in Settings
  BY DEF Init
<1>2. Null \in State /\ NoJob \in Jobs
  BY DEF Null, State, NoJob, Jobs
<1>3. todo \in Seq({0, 1, 2})
  <2> DEFINE S == Seq({0, 1, 2})
  <2>1. <<0, 0, 1, 0, 0, 2, 0>> \in S /\ <<>> \in S
    OBVIOUS
  <2>2. todo \in {<<0, 0, 1, 0, 0, 2, 0>>, <<>>}
    BY Zenon DEF Init, InitTodo
  <2> HIDE DEF S
  <2>3. todo \in S
    BY <2>1, <2>2, Zenon
  <2> QED
    BY <2>3 DEF S
<1>4. ClientType
  BY <1>1, <1>2, <1>3 DEF Init, ClientType, Places
<1>5. JobType
  <2>1. \A t \in Threads : job[t].uris = <<>> /\ pc[t] = "idle"
    BY DEF Init, NoJob
  <2>2. \A t : <<>> \in Seq(Mine(t))
    BY EmptySeq
  <2> QED
    BY <2>1, <2>2 DEF JobType
<1>6. MailType
  BY DEF Init, MailType, Managers
<1>7. ManagerType
  BY DEF Init, ManagerType, Managers
<1>8. DataType
  BY <1>2, MStorageAssumption DEF Init, DataType
<1> QED
  BY <1>1, <1>4, <1>5, <1>6, <1>7, <1>8 DEF TypeInv

\* The individual a thread works on.
LEMMA UriFacts ==
  ASSUME TypeInv, NEW t \in Threads, pc[t] \notin {"idle", "ticket"}
  PROVE  /\ Uri(t) \in Mine(t) /\ Uri(t) \in AllUris
         /\ Tail(job[t].uris) \in Seq(Mine(t)) /\ Tail(job[t].uris) \in Seq(AllUris)
         /\ Len(job[t].uris) # 1 => Tail(job[t].uris) # <<>>
<1>1. job[t].uris \in Seq(Mine(t)) /\ job[t].uris # <<>>
  BY DEF TypeInv, JobType
<1>2. job[t].uris \in Seq(AllUris)
  BY <1>1, SeqMonotonic, MineFacts
<1>3. Head(job[t].uris) \in Mine(t) /\ Tail(job[t].uris) \in Seq(Mine(t))
  BY <1>1, TailFacts
<1>4. Tail(job[t].uris) \in Seq(AllUris)
  BY <1>1, <1>2, TailFacts
<1>5. Len(job[t].uris) # 1 => Tail(job[t].uris) # <<>>
  BY <1>1, TailFacts
<1> QED
  BY <1>3, <1>4, <1>5, MineFacts DEF Uri

\* Items that add_to_transaction() makes.
LEMMA ItemFacts ==
  ASSUME TypeInv, NEW t \in Threads, pc[t] \notin {"idle", "ticket"},
         NEW c \in {"put", "remove"}, NEW s \in State
  PROVE  LET it == TransactionItem(t, c, s) IN
           /\ it \in Item /\ it.uri = Uri(t) /\ it.prev = prev[t] /\ it.new = s
           /\ it.tnx = tnx[t] /\ it.no = job[t].no /\ it.req = saves + 1
           /\ it.cmd = c /\ it.target = job[t].target
<1>1. Uri(t) \in AllUris
  BY UriFacts
<1>2. /\ prev[t] \in State /\ tnx[t] \in Int /\ saves + 1 \in Nat
      /\ job[t].target \in {"all", "other"} /\ job[t].no \in Nat
  BY DEF TypeInv, ClientType, DataType, Jobs
<1> QED
  BY <1>1, <1>2 DEF TransactionItem, Item

\* The first of them is a new version, the mark, or a removal of nothing.
LEMMA FirstItemFacts ==
  ASSUME TypeInv, NEW t \in Threads, pc[t] = "found"
  PROVE  LET it == FirstItem(t) IN
           /\ it \in Item /\ it.uri = Uri(t) /\ it.prev = prev[t]
           /\ it.tnx = tnx[t] /\ it.no = job[t].no /\ it.req = saves + 1
           /\ it.target = job[t].target
           /\ job[t].cmd = "remove" /\ prev[t] # Null => it.new.ctr = prev[t].ctr
           /\ job[t].cmd = "put" => it.cmd = "put"
<1>1. prev[t] \in State /\ Null \in State
  BY DEF TypeInv, ClientType, State, Null
<1>2. /\ [ctr |-> prev[t].ctr + 1, deleted |-> FALSE] \in State
      /\ [ctr |-> prev[t].ctr, deleted |-> TRUE] \in State
  BY <1>1 DEF State
<1>3. CASE job[t].cmd = "put"
  <2>1. FirstItem(t) = TransactionItem(t, "put", [ctr |-> prev[t].ctr + 1,
                                                  deleted |-> FALSE])
    BY <1>3 DEF FirstItem
  <2> QED
    BY <1>2, <1>3, <2>1, ItemFacts
<1>4. CASE job[t].cmd # "put" /\ prev[t] # Null
  <2>1. FirstItem(t) = TransactionItem(t, "put", [ctr |-> prev[t].ctr, deleted |-> TRUE])
    BY <1>4 DEF FirstItem
  <2> QED
    BY <1>2, <1>4, <2>1, ItemFacts
<1>5. CASE job[t].cmd # "put" /\ prev[t] = Null
  BY <1>1, <1>5, ItemFacts DEF FirstItem
<1> QED
  BY <1>3, <1>4, <1>5

\* The end of an individual.
LEMMA TypeAnswer ==
  ASSUME TypeInv, UNCHANGED setting, NEW t \in Threads,
         pc[t] \notin {"idle", "ticket"}, NEW rc, NEW op \in Int, Answer(t, rc, op)
  PROVE  ClientType' /\ JobType'
<1>1. /\ Tail(job[t].uris) \in Seq(Mine(t)) /\ Tail(job[t].uris) \in Seq(AllUris)
      /\ Len(job[t].uris) # 1 => Tail(job[t].uris) # <<>>
  BY UriFacts
<1>2. ClientType /\ JobType /\ Threads' = Threads
  BY DEF TypeInv, Threads
<1>3. /\ job' = [job EXCEPT ![t].uris = Tail(@)]
      /\ tnx' = [tnx EXCEPT ![t] = IF @ <= 0 THEN op ELSE @]
      /\ pc' = [pc EXCEPT ![t] = IF Len(job[t].uris) = 1 THEN "idle" ELSE "item"]
      /\ UNCHANGED <<prev, todo>>
  BY DEF Answer
<1>4. job' \in [Threads -> Jobs]
  BY <1>1, <1>2, <1>3 DEF ClientType, Jobs
<1>5. pc' \in [Threads -> Places] /\ tnx' \in [Threads -> Int]
  BY <1>2, <1>3 DEF ClientType, Places
<1>6. ASSUME NEW w \in Threads
      PROVE  /\ job'[w].uris \in Seq(Mine(w))
             /\ pc'[w] \notin {"idle", "ticket"} => job'[w].uris # <<>>
  <2>1. CASE w = t
    BY <1>1, <1>2, <1>3, <2>1 DEF ClientType, Jobs
  <2>2. CASE w # t
    BY <1>2, <1>3, <2>2 DEF ClientType, JobType
  <2> QED
    BY <2>1, <2>2
<1> QED
  BY <1>2, <1>3, <1>4, <1>5, <1>6 DEF ClientType, JobType

\* Steps that change nothing of the clients but where one of them is.
LEMMA TypeMove ==
  ASSUME TypeInv, UNCHANGED setting, todo' \in Seq({0, 1, 2}),
         NEW t \in Threads, NEW p \in Places,
         pc' = [pc EXCEPT ![t] = p], p \in {"idle", "ticket"} \/ Works(t),
         job' = job \/ \E n \in Nat : job' = [job EXCEPT ![t].req = n],
         tnx' = tnx, prev' = prev \/ \E s \in State, w \in Threads : prev' = [prev EXCEPT ![w] = s]
  PROVE  ClientType' /\ JobType'
<1>1. ClientType /\ JobType /\ Threads' = Threads
  BY DEF TypeInv, Threads
<1>2. pc' \in [Threads -> Places] /\ prev' \in [Threads -> State]
  BY <1>1 DEF ClientType
<1>3. job' \in [Threads -> Jobs] /\ \A w \in Threads : job'[w].uris = job[w].uris
  <2>1. ASSUME NEW n \in Nat, job' = [job EXCEPT ![t].req = n]
        PROVE  job' \in [Threads -> Jobs]
               /\ \A w \in Threads : job'[w].uris = job[w].uris
    <3>1. job[t] \in Jobs
      BY <1>1 DEF ClientType
    <3>3. [job[t] EXCEPT !.req = n].uris = job[t].uris
      BY <3>1 DEF Jobs
    <3>4. [job[t] EXCEPT !.req = n] \in Jobs
      BY <3>1 DEF Jobs
    <3>2. job' = [job EXCEPT ![t] = [job[t] EXCEPT !.req = n]]
      BY <2>1
    <3> QED
      BY <1>1, <3>1, <3>2, <3>3, <3>4 DEF ClientType
  <2> QED
    BY <1>1, <2>1 DEF ClientType
<1>4. JobType'
  BY <1>1, <1>3 DEF JobType, ClientType, Works
<1> QED
  BY <1>1, <1>2, <1>3, <1>4 DEF ClientType

\* The steps of the clients and the answer to find().
LEMMA TypeClient ==
  ASSUME TypeInv, VersionInv, Next
  PROVE  ClientType' /\ JobType'
<1>1. /\ ClientType /\ JobType /\ MailType /\ setting \in Settings
      /\ UNCHANGED setting /\ Threads' = Threads /\ "n_channel" \in Threads
      /\ subject_manager_op_id \in Int /\ saves + 1 \in Nat
      /\ life \in 0 .. MaxCrash /\ requests \in Nat
  BY SettingFacts DEF TypeInv, Next, Threads, ManagerType, DataType
<1>2. todo \in Seq({0, 1, 2})
  BY <1>1 DEF ClientType
<1>3. ASSUME NEW c \in setting.commands, NEW us \in Lists, NEW tg \in setting.targets,
             Request(c, us, tg)
      PROVE  ClientType' /\ JobType'
  <2> DEFINE j == [cmd |-> c, uris |-> us, target |-> tg, no |-> requests + 1,
                   req |-> 0]
  <2>1. us \in Seq(Uris) /\ us # <<>> /\ us \in Seq(AllUris)
    BY <1>1, ListFacts, SeqMonotonic, MineFacts
  <2>2. j \in Jobs /\ j.uris = us
    BY <1>1, <2>1, SettingFacts DEF Jobs
  <2> HIDE DEF j
  <2>3. /\ job' = [job EXCEPT !["n_channel"] = j]
        /\ pc' = [pc EXCEPT !["n_channel"] = "item"]
        /\ tnx' = [tnx EXCEPT !["n_channel"] = 0]
        /\ UNCHANGED <<prev, todo>>
    BY <1>3 DEF Request, j
  <2>4. ClientType'
    BY <1>1, <2>2, <2>3 DEF ClientType, Places
  <2>5. JobType'
    BY <1>1, <2>1, <2>2, <2>3, MineFacts DEF JobType, ClientType
  <2> QED
    BY <2>4, <2>5
<1>4. CASE Authenticate
  BY <1>1, <1>2, <1>4, TypeMove DEF Authenticate, SaveTicket, Places
<1>5. CASE InitTicket
  <2>1. todo' \in Seq({0, 1, 2})
    BY <1>2, <1>5, TailFacts DEF InitTicket
  <2> QED
    BY <1>1, <1>5, <2>1, TypeMove DEF InitTicket, SaveTicket, Places
<1>6. CASE InitPermission
  <2>1. todo' \in Seq({0, 1, 2}) /\ Head(todo) \in {1, 2}
    BY <1>2, <1>6, TailFacts DEF InitPermission
  <2> DEFINE u == <<life, Head(todo)>>
             j == [cmd |-> "put", uris |-> <<u>>, target |-> "all", no |-> 0,
                   req |-> 0]
  <2>2. u \in InitUris /\ u \in AllUris
    BY <1>1, <2>1 DEF InitUris, AllUris
  <2>7. /\ job' = [job EXCEPT !["init"] = j]
        /\ pc' = [pc EXCEPT !["init"] = "item"]
        /\ tnx' = [tnx EXCEPT !["init"] = -1]
        /\ UNCHANGED prev /\ "init" \in Threads
    BY <1>6 DEF InitPermission
  <2> HIDE DEF u
  <2>3. <<u>> \in Seq(InitUris) /\ <<u>> # <<>> /\ <<u>> \in Seq(AllUris)
    BY <2>2
  <2>4. j \in Jobs /\ j.uris = <<u>>
    BY <2>3 DEF Jobs
  <2> HIDE DEF j
  <2>5. ClientType'
    BY <1>1, <2>1, <2>4, <2>7 DEF ClientType, Places
  <2>6. JobType'
    BY <1>1, <2>3, <2>4, <2>7, MineFacts DEF JobType, ClientType
  <2> QED
    BY <2>5, <2>6
<1>7. ASSUME NEW t \in Threads, CallFind(t)
      PROVE  ClientType' /\ JobType'
  BY <1>1, <1>2, <1>7, TypeMove DEF CallFind, Places, Works
<1>8. ASSUME NEW t \in Threads, AddToTransaction(t)
      PROVE  ClientType' /\ JobType'
  <2>1. PICK p \in {"remove", "save"} : pc' = [pc EXCEPT ![t] = p]
    BY <1>8 DEF AddToTransaction
  <2>2. job' = [job EXCEPT ![t].req = saves + 1] /\ UNCHANGED <<tnx, prev, todo>>
        /\ Works(t) /\ p \in Places
    BY <1>8 DEF AddToTransaction, Works, Places
  <2> QED
    BY <1>1, <1>2, <2>1, <2>2, TypeMove
<1>9. ASSUME NEW t \in Threads, Refuse(t) \/ SaveAnswered(t)
      PROVE  ClientType' /\ JobType'
  <2>1. pc[t] \notin {"idle", "ticket"}
        /\ \E rc, op : op \in Int /\ Answer(t, rc, op)
    BY <1>1, <1>9 DEF Refuse, SaveAnswered
  <2> QED
    BY <1>1, <2>1, TypeAnswer
<1>10. ASSUME NEW t \in Threads, SaveRemove(t)
       PROVE  ClientType' /\ JobType'
  <2>1. pc[t] = "remove"
    BY <1>10 DEF SaveRemove
  <2>2. CASE Received(t, "subject") = "Ok"
    <3>1. /\ job' = [job EXCEPT ![t].req = saves + 1]
          /\ pc' = [pc EXCEPT ![t] = "save"]
          /\ UNCHANGED <<tnx, prev, todo>>
      BY <1>10, <2>2 DEF SaveRemove
    <3> QED
      BY <1>1, <1>2, <2>1, <3>1, TypeMove DEF Works, Places
  <2>3. CASE Received(t, "subject") # "Ok"
    <3>1. Answer(t, Received(t, "subject"), subject_manager_op_id)
      BY <1>10, <2>3 DEF SaveRemove
    <3> QED
      BY <1>1, <2>1, <3>1, TypeAnswer
  <2> QED
    BY <2>2, <2>3
<1>11. ASSUME NEW t \in Threads, TicketAnswered(t)
       PROVE  ClientType' /\ JobType'
  BY <1>1, <1>2, <1>11, TypeMove DEF TicketAnswered, Places
<1>12. CASE HandleFind
  <2> DEFINE msg == Head(inbox["subject"])
  <2>1. inbox["subject"] # <<>> /\ msg.kind = "find"
    BY <1>12 DEF HandleFind, Handles
  <2>2. inbox["subject"] \in Seq(FindMsg \cup SaveMsg)
    BY <1>1 DEF MailType, Managers
  <2>3. msg = Box[1] /\ msg \in FindMsg /\ 1 \in 1 .. Len(Box)
    BY <2>1, <2>2, TailFacts DEF Box, FindMsg, SaveMsg
  <2>4. msg.from \in Threads /\ pc[msg.from] = "find"
    BY <1>1, <2>1, <2>3 DEF VersionInv, ThreadOfMessage, MailType, MsgOK, Box, Managers
  <2>5. store[msg.uri] \in State
    BY <2>3 DEF FindMsg, TypeInv, DataType
  <2>6. /\ prev' = [prev EXCEPT ![msg.from] = store[msg.uri]]
        /\ pc' = [pc EXCEPT ![msg.from] = "found"]
        /\ UNCHANGED <<job, tnx, todo>>
    BY <1>12 DEF HandleFind
  <2> HIDE DEF msg
  <2> QED
    BY <1>1, <1>2, <2>4, <2>5, <2>6, TypeMove DEF Works, Places
<1>13. CASE Restart
  <2>1. Null \in State /\ NoJob \in Jobs
    BY DEF Null, State, NoJob, Jobs
  <2>2. todo' \in Seq({0, 1, 2})
    <3> DEFINE S == Seq({0, 1, 2})
    <3>1. <<0, 0, 1, 0, 0, 2, 0>> \in S /\ <<>> \in S
      OBVIOUS
    <3>2. InitTodo \in S
      <4> HIDE DEF S
      <4> QED
        BY <3>1, Zenon DEF InitTodo
    <3>3. SubSeq(InitTodo, 1, Len(InitTodo) - 1) \in S
      BY <3>2
    <3> QED
      BY <1>13, <3>2, <3>3 DEF Restart, InitAgain
  <2>3. ClientType'
    BY <1>1, <1>13, <2>1, <2>2 DEF Restart, ClientType, Places
  <2>4. JobType'
    <3>1. \A t \in Threads : job'[t].uris = <<>> /\ pc'[t] = "idle"
      BY <1>13 DEF Restart, NoJob
    <3>2. \A t : <<>> \in Seq(Mine(t))
      BY EmptySeq
    <3> QED
      BY <1>1, <3>1, <3>2 DEF JobType
  <2> QED
    BY <2>3, <2>4
<1>14. CASE UNCHANGED clientVars
  BY <1>1, <1>14 DEF clientVars, ClientType, JobType
<1> QED
  BY <1>3, <1>4, <1>5, <1>6, <1>7, <1>8, <1>9, <1>10, <1>11, <1>12, <1>13, <1>14
     DEF Next, Step, HandleSave, StoreFails, PutInfo, CommitTick, Push, PushThrows,
         HandleAcl, CommitAcl

\* A message put into the mailbox of a manager.
LEMMA MailAppend ==
  ASSUME TypeInv, UNCHANGED setting, NEW m \in Managers,
         NEW msg \in FindMsg \cup SaveMsg, MsgOK(m, msg),
         inbox' = [inbox EXCEPT ![m] = Append(@, msg)],
         mbox' \in [Threads -> Seq(Codes)]
  PROVE  MailType'
<1>1. Threads' = Threads /\ MailType
  BY DEF TypeInv, Threads
<1>2. inbox[m] \in Seq(FindMsg \cup SaveMsg)
  BY <1>1 DEF MailType
<1>3. inbox' \in [Managers -> Seq(FindMsg \cup SaveMsg)]
      /\ inbox'[m] = Append(inbox[m], msg)
  BY <1>1, <1>2, AppendFacts DEF MailType
<1>4. ASSUME NEW n \in Managers, NEW k \in 1 .. Len(inbox'[n])
      PROVE  MsgOK(n, inbox'[n][k])
  <2>1. CASE n = m
    <3>1. k \in 1 .. Len(inbox[m]) \/ k = Len(inbox[m]) + 1
      BY <1>2, <1>3, <1>4, <2>1, AppendFacts
    <3>2. CASE k \in 1 .. Len(inbox[m])
      BY <1>1, <1>2, <1>3, <2>1, <3>2, AppendFacts DEF MailType
    <3>3. CASE k = Len(inbox[m]) + 1
      BY <1>2, <1>3, <2>1, <3>3, AppendFacts
    <3> QED
      BY <3>1, <3>2, <3>3
  <2>2. CASE n # m
    BY <1>1, <1>4, <2>2 DEF MailType
  <2> QED
    BY <2>1, <2>2
<1> QED
  BY <1>1, <1>3, <1>4 DEF MailType, MsgOK

\* A message taken from the mailbox of a manager.
LEMMA MailTail ==
  ASSUME TypeInv, UNCHANGED setting, NEW m \in Managers, inbox[m] # <<>>,
         inbox' = [inbox EXCEPT ![m] = Tail(@)],
         mbox' \in [Threads -> Seq(Codes)]
  PROVE  MailType'
<1>1. Threads' = Threads /\ MailType
  BY DEF TypeInv, Threads
<1>2. inbox[m] \in Seq(FindMsg \cup SaveMsg)
  BY <1>1 DEF MailType
<1>3. inbox' \in [Managers -> Seq(FindMsg \cup SaveMsg)]
      /\ inbox'[m] = Tail(inbox[m])
  BY <1>1, <1>2, TailFacts DEF MailType
<1>4. ASSUME NEW n \in Managers, NEW k \in 1 .. Len(inbox'[n])
      PROVE  MsgOK(n, inbox'[n][k])
  <2>1. CASE n = m
    <3>1. k + 1 \in 1 .. Len(inbox[m]) /\ inbox'[n][k] = inbox[m][k + 1]
      BY <1>2, <1>3, <1>4, <2>1, TailFacts
    <3> QED
      BY <1>1, <2>1, <3>1 DEF MailType
  <2>2. CASE n # m
    BY <1>1, <1>4, <2>2 DEF MailType
  <2> QED
    BY <2>1, <2>2
<1> QED
  BY <1>1, <1>3, <1>4 DEF MailType, MsgOK

\* The message a manager takes.
LEMMA HeadOfBox ==
  ASSUME TypeInv, NEW m \in Managers, inbox[m] # <<>>
  PROVE  /\ inbox[m] \in Seq(FindMsg \cup SaveMsg) /\ 1 \in 1 .. Len(inbox[m])
         /\ Head(inbox[m]) = inbox[m][1] /\ MsgOK(m, Head(inbox[m]))
         /\ Head(inbox[m]).from \in Threads
         /\ Head(inbox[m]).kind = "find" => Head(inbox[m]) \in FindMsg /\ m = "subject"
         /\ Head(inbox[m]).kind = "save" =>
              /\ Head(inbox[m]) \in SaveMsg /\ Head(inbox[m]).item \in Item
              /\ m = "subject" => Head(inbox[m]).item.uri \in AllUris
<1>1. inbox[m] \in Seq(FindMsg \cup SaveMsg)
  BY DEF TypeInv, MailType
<1>2. Head(inbox[m]) = inbox[m][1] /\ 1 \in 1 .. Len(inbox[m])
      /\ Head(inbox[m]) \in FindMsg \cup SaveMsg
  BY <1>1, TailFacts
<1>3. MsgOK(m, Head(inbox[m]))
  BY <1>2 DEF TypeInv, MailType
<1>4. m \in {"subject", "ticket"}
  BY DEF Managers
<1> QED
  BY <1>1, <1>2, <1>3, <1>4, MineFacts DEF MsgOK, FindMsg, SaveMsg

\* The mailboxes.
LEMMA TypeMail ==
  ASSUME TypeInv, Next
  PROVE  MailType'
<1>1. /\ MailType /\ UNCHANGED setting /\ Threads' = Threads
      /\ Threads \subseteq {"n_channel", "init"} /\ "n_channel" \in Threads
      /\ "subject" \in Managers /\ "ticket" \in Managers /\ saves + 1 \in Nat
      /\ mbox \in [Threads -> Seq(Codes)]
  BY SettingFacts DEF TypeInv, Next, Threads, Managers, DataType, MailType
<1>2. ASSUME NEW t \in Threads, SaveTicket(t)
      PROVE  MailType'
  <2> DEFINE it == [cmd |-> "put", uri |-> "ticket", prev |-> Null, new |-> Null,
                    tnx |-> -1, target |-> "all", no |-> 0, req |-> saves + 1]
  <2>1. Null \in State
    BY DEF Null, State
  <2>2. it \in Item
    BY <1>1, <2>1 DEF Item
  <2>3. inbox' = [inbox EXCEPT !["ticket"] = Append(@, Save(t, it))]
        /\ UNCHANGED mbox
    BY <1>2 DEF SaveTicket, SendSave
  <2> HIDE DEF it
  <2>4. Save(t, it) \in SaveMsg /\ MsgOK("ticket", Save(t, it))
    BY <1>1, <2>2 DEF Save, SaveMsg, MsgOK
  <2> QED
    BY <1>1, <2>3, <2>4, MailAppend
<1>3. ASSUME NEW t \in Threads, CallFind(t)
      PROVE  MailType'
  <2>1. Uri(t) \in Mine(t) /\ Uri(t) \in AllUris
    BY <1>3, UriFacts DEF CallFind
  <2>2. Find(t, Uri(t)) \in FindMsg /\ MsgOK("subject", Find(t, Uri(t)))
    BY <1>1, <2>1 DEF Find, FindMsg, MsgOK
  <2> QED
    BY <1>1, <1>3, <2>2, MailAppend DEF CallFind
<1>4. ASSUME NEW t \in Threads, NEW it \in Item, it.uri \in Mine(t),
             SendSave(t, "subject", it), mbox' \in [Threads -> Seq(Codes)]
      PROVE  MailType'
  <2>1. Save(t, it) \in SaveMsg /\ MsgOK("subject", Save(t, it))
    BY <1>1, <1>4 DEF Save, SaveMsg, MsgOK
  <2> QED
    BY <1>1, <1>4, <2>1, MailAppend DEF SendSave
<1>5. ASSUME NEW t \in Threads, AddToTransaction(t)
      PROVE  MailType'
  BY <1>1, <1>4, <1>5, FirstItemFacts, UriFacts DEF AddToTransaction
<1>6. ASSUME NEW t \in Threads, mbox[t] # <<>>, mbox' = [mbox EXCEPT ![t] = Tail(@)]
      PROVE  mbox' \in [Threads -> Seq(Codes)]
  <2>1. Tail(mbox[t]) \in Seq(Codes)
    BY <1>1, <1>6, TailFacts
  <2> QED
    BY <1>1, <1>6, <2>1
<1>7. ASSUME NEW t \in Threads, SaveRemove(t)
      PROVE  MailType'
  <2>1. pc[t] = "remove" /\ mbox' \in [Threads -> Seq(Codes)]
    BY <1>6, <1>7 DEF SaveRemove
  <2>2. CASE SendSave(t, "subject", TransactionItem(t, "remove", Null))
    <3>1. Null \in State
      BY DEF Null, State
    <3> QED
      BY <1>4, <2>1, <2>2, <3>1, ItemFacts, UriFacts
  <2>3. CASE UNCHANGED inbox
    BY <1>1, <2>1, <2>3 DEF MailType, MsgOK
  <2> QED
    BY <1>7, <2>2, <2>3 DEF SaveRemove
<1>8. ASSUME NEW t \in Threads, SaveAnswered(t) \/ TicketAnswered(t)
      PROVE  MailType'
  <2>1. mbox' \in [Threads -> Seq(Codes)] /\ UNCHANGED inbox
    BY <1>6, <1>8 DEF SaveAnswered, TicketAnswered
  <2> QED
    BY <1>1, <2>1 DEF MailType, MsgOK
<1>9. CASE HandleFind
  BY <1>1, <1>9, MailTail DEF HandleFind, Handles
<1>10. ASSUME NEW t \in Threads, NEW m \in Managers,
              NEW rc \in {"Ok", "FailStore", "FailCommit"}, Reply(t, m, rc)
       PROVE  mbox' \in [Threads -> Seq(Codes)]
  <2>1. [rc |-> rc, from |-> m] \in Codes
    BY DEF Codes
  <2>2. Append(mbox[t], [rc |-> rc, from |-> m]) \in Seq(Codes)
    BY <1>1, <2>1, AppendFacts
  <2> QED
    BY <1>1, <1>10, <2>2 DEF Reply
<1>11. ASSUME NEW m \in Managers, HandleSave(m) \/ StoreFails(m)
       PROVE  MailType'
  <2>1. inbox[m] # <<>> /\ inbox' = [inbox EXCEPT ![m] = Tail(@)]
    BY <1>11 DEF HandleSave, StoreFails, Handles
  <2>2. Sender(m) \in Threads
    BY <2>1, HeadOfBox DEF Sender
  <2>3. Reply(Sender(m), m, "Ok") \/ Reply(Sender(m), m, "FailStore")
    BY <1>11 DEF HandleSave, StoreFails
  <2>4. mbox' \in [Threads -> Seq(Codes)]
    BY <1>10, <2>2, <2>3
  <2> QED
    BY <1>1, <2>1, <2>4, MailTail
<1>12. CASE PushThrows
  <2>1. cur["subject"].from \in Threads
    BY <1>1, <1>12 DEF PushThrows, TypeInv, ManagerType
  <2>2. mbox' \in [Threads -> Seq(Codes)] /\ UNCHANGED inbox
    BY <1>1, <1>10, <1>12, <2>1 DEF PushThrows
  <2> QED
    BY <1>1, <2>2 DEF MailType, MsgOK
<1>13. CASE Restart
  BY <1>1, <1>13 DEF Restart, MailType, Managers
<1>14. CASE UNCHANGED <<mbox, inbox>>
  BY <1>1, <1>14 DEF MailType, MsgOK
<1> QED
  BY <1>1, <1>2, <1>3, <1>5, <1>7, <1>8, <1>9, <1>11, <1>12, <1>13, <1>14
     DEF Next, Step, Request, Authenticate, InitTicket, InitPermission, Refuse,
         PutInfo, CommitTick, Push, HandleAcl, CommitAcl

\* The managers.
LEMMA TypeManager ==
  ASSUME TypeInv, Next
  PROVE  ManagerType'
<1>1. /\ ManagerType /\ Threads' = Threads /\ Managers = {"subject", "ticket"}
      /\ UNCHANGED setting
  BY DEF TypeInv, Next, Threads, Managers
<1>2. ASSUME NEW m \in Managers, HandleSave(m)
      PROVE  ManagerType'
  <2> DEFINE msg == Head(inbox[m])
  <2>1. /\ inbox[m] # <<>> /\ msg.kind = "save"
        /\ op_id' = [op_id EXCEPT ![m] = @ + 1]
        /\ subject_manager_op_id' = op_id'[m]
        /\ cur' = [cur EXCEPT ![m] = msg]
        /\ at' = [at EXCEPT ![m] = "replied"]
        /\ UNCHANGED <<committed_op_id, info>>
    BY <1>2 DEF HandleSave, Handles
  <2>2. /\ msg \in SaveMsg /\ msg.from \in Threads
        /\ m = "subject" => msg.item.uri \in AllUris
    BY <2>1, HeadOfBox
  <2> HIDE DEF msg
  <2> QED
    BY <1>1, <2>1, <2>2 DEF ManagerType
<1>3. ASSUME NEW m \in Managers, PutInfo(m) \/ CommitTick(m)
      PROVE  ManagerType'
  <2>1. /\ op_id[m] \in Nat /\ committed_op_id[m] \in Nat
        /\ committed_op_id[m] <= op_id[m]
    BY <1>1 DEF ManagerType
  <2>2. CASE PutInfo(m)
    <3>1. /\ info' = [info EXCEPT ![m] = [op |-> op_id[m], committed |-> committed_op_id[m]]]
          /\ \E x \in {"informed", "loop"} : at' = [at EXCEPT ![m] = x]
          /\ at[m] = "replied"
          /\ UNCHANGED <<cur, op_id, committed_op_id, subject_manager_op_id>>
      BY <2>2 DEF PutInfo
    <3> QED
      BY <1>1, <2>1, <3>1 DEF ManagerType
  <2>3. CASE CommitTick(m)
    BY <1>1, <2>1, <2>3 DEF ManagerType, CommitTick
  <2> QED
    BY <1>3, <2>2, <2>3
<1>4. CASE Push \/ PushThrows
  BY <1>1, <1>4 DEF Push, PushThrows, ManagerType
<1>5. CASE Restart
  <2>1. op_id' \in [Managers -> Nat]
    BY <1>1, <1>5 DEF Restart, ManagerType
  <2> QED
    BY <1>1, <1>5, <2>1 DEF Restart, ManagerType
<1>6. CASE UNCHANGED <<managerVars, subject_manager_op_id>>
  BY <1>1, <1>6 DEF managerVars, ManagerType
<1> QED
  BY <1>2, <1>3, <1>4, <1>5, <1>6
     DEF Next, Step, Request, Authenticate, InitTicket, InitPermission, SaveTicket,
         CallFind, AddToTransaction, Refuse, SaveRemove, SaveAnswered,
         TicketAnswered, HandleFind, StoreFails, HandleAcl, CommitAcl

\* The record of an item.
Record(it, op, l) ==
  [item |-> [it EXCEPT !.tnx = IF @ <= 0 THEN op ELSE @], op |-> op, part |-> l]

\* What a record of the queue has of the change in hand.
LEMMA RecordFacts ==
  ASSUME NEW it \in Item, NEW op \in Nat, NEW l \in Nat
  PROVE  LET r == Record(it, op, l) IN
         /\ r \in Rec /\ r.part = l /\ r.op = op
         /\ r.item.uri = it.uri /\ r.item.prev = it.prev
         /\ r.item.new = it.new /\ r.item.target = it.target
         /\ r.item.no = it.no /\ r.item.req = it.req
         /\ r.item.tnx = IF it.tnx <= 0 THEN op ELSE it.tnx
<1> DEFINE x == IF it.tnx <= 0 THEN op ELSE it.tnx
           r == Record(it, op, l)
<1>2. x \in Int
  BY DEF Item
<1>4. r = [item |-> [it EXCEPT !.tnx = x], op |-> op, part |-> l]
  BY DEF Record
<1>6. x = IF it.tnx <= 0 THEN op ELSE it.tnx
  OBVIOUS
<1> HIDE DEF x, r
<1>3. /\ [it EXCEPT !.tnx = x] \in Item
      /\ [it EXCEPT !.tnx = x].uri = it.uri /\ [it EXCEPT !.tnx = x].prev = it.prev
      /\ [it EXCEPT !.tnx = x].new = it.new /\ [it EXCEPT !.tnx = x].target = it.target
      /\ [it EXCEPT !.tnx = x].no = it.no /\ [it EXCEPT !.tnx = x].req = it.req
      /\ [it EXCEPT !.tnx = x].tnx = x
  BY <1>2 DEF Item
<1>5. r \in Rec /\ r.item = [it EXCEPT !.tnx = x] /\ r.part = l /\ r.op = op
  BY <1>3, <1>4 DEF Rec
<1>7. /\ r \in Rec /\ r.part = l /\ r.op = op
      /\ r.item.uri = it.uri /\ r.item.prev = it.prev
      /\ r.item.new = it.new /\ r.item.target = it.target
      /\ r.item.no = it.no /\ r.item.req = it.req
      /\ r.item.tnx = x
  BY <1>3, <1>5
<1> QED
  BY <1>6, <1>7 DEF r

\* The record of the item in hand.
LEMMA InHandFacts ==
  ASSUME TypeInv, at["subject"] # "loop"
  PROVE  LET it == cur["subject"].item IN
         /\ InHand = Record(it, op_id["subject"], life)
         /\ it \in Item /\ it.uri \in AllUris
         /\ op_id["subject"] \in Nat /\ life \in Nat
         /\ InHand \in Rec /\ InHand.item.uri \in AllUris
<1> DEFINE it == cur["subject"].item
<1>1. /\ it \in Item /\ it.uri \in AllUris /\ op_id["subject"] \in Nat
      /\ life \in Nat
  BY DEF TypeInv, ManagerType, DataType, SaveMsg, Managers
<1>2. InHand = Record(it, op_id["subject"], life)
  BY DEF InHand, Record
<1> QED
  BY <1>1, <1>2, RecordFacts

\* The database, the queue and the counters.
LEMMA TypeData ==
  ASSUME TypeInv, Next
  PROVE  DataType'
<1>1. /\ DataType /\ setting.crashes \in 0 .. MaxCrash
      /\ MaxCrash \in Nat
  BY SettingFacts, MStorageAssumption DEF TypeInv
<1>2. CASE \/ \E c \in setting.commands, us \in Lists, tg \in setting.targets :
                Request(c, us, tg)
           \/ Authenticate
  BY <1>1, <1>2 DEF DataType, Request, Authenticate, SaveTicket, SendSave, history
<1>3. CASE \/ InitTicket
           \/ \E t \in Threads : AddToTransaction(t) \/ SaveRemove(t)
  <2>1. saves' \in Nat /\ UNCHANGED <<store, queue, life, requests>>
    BY <1>1, <1>3 DEF DataType, InitTicket, SaveTicket, SendSave,
                      AddToTransaction, SaveRemove
  <2> QED
    BY <1>1, <2>1 DEF DataType
<1>4. ASSUME NEW m \in Managers, HandleSave(m)
      PROVE  DataType'
  <2> DEFINE it == Head(inbox[m]).item
  <2>1. UNCHANGED <<queue, life, requests, saves>>
    BY <1>4 DEF HandleSave
  <2>2. store' = IF Stores(m, it) THEN [store EXCEPT ![it.uri] = it.new] ELSE store
    BY <1>4 DEF HandleSave
  <2>3. it \in Item
    BY <1>4, HeadOfBox DEF HandleSave, Handles
  <2> HIDE DEF it
  <2>4. store' \in [AllUris -> State]
    BY <1>1, <2>2, <2>3 DEF DataType, Item
  <2> QED
    BY <1>1, <2>1, <2>4 DEF DataType
<1>5. CASE Push
  <2>1. at["subject"] # "loop" /\ queue' = Append(queue, InHand)
        /\ UNCHANGED <<store, life, requests, saves>>
    BY <1>5 DEF Push, history
  <2>2. InHand \in Rec /\ InHand.item.uri \in AllUris
    BY <2>1, InHandFacts
  <2>3. queue \in Seq(Rec)
    BY <1>1 DEF DataType
  <2>4. \A k \in 1 .. Len(queue) : queue[k].item.uri \in AllUris
    BY <1>1 DEF DataType
  <2> HIDE DEF InHand
  <2>5. queue' \in Seq(Rec)
        /\ \A k \in 1 .. Len(queue') : queue'[k].item.uri \in AllUris
    BY <2>1, <2>2, <2>3, <2>4, AppendFacts
  <2> QED
    BY <1>1, <2>1, <2>5 DEF DataType
<1>6. CASE Restart
  BY <1>1, <1>6 DEF Restart, DataType, history
<1>7. CASE UNCHANGED <<store, queue, life, requests, saves>>
  BY <1>1, <1>7 DEF DataType
<1> QED
  BY <1>2, <1>3, <1>4, <1>5, <1>6, <1>7
     DEF Next, Step, InitPermission, CallFind, Refuse, SaveAnswered,
         TicketAnswered, HandleFind, StoreFails, PutInfo, CommitTick, PushThrows,
         HandleAcl, CommitAcl, history
-----------------------------------------------------------------------------
(***************************************************************************)
(* Versions.                                                               *)
(***************************************************************************)

\* The mailbox of the subject manager.
LEMMA BoxType ==
  ASSUME TypeInv
  PROVE  /\ Box \in Seq(FindMsg \cup SaveMsg) /\ Len(Box) \in Nat
         /\ \A k \in 1 .. Len(Box) :
              /\ Box[k] \in FindMsg \cup SaveMsg /\ Box[k].from \in Threads
              /\ Box[k].kind \in {"find", "save"}
              /\ Box[k].kind = "save" =>
                   Box[k].item \in Item /\ Box[k].item.uri \in Mine(Box[k].from)
<1>1. Box \in Seq(FindMsg \cup SaveMsg)
  BY DEF TypeInv, MailType, Box, Managers
<1>2. \A k \in 1 .. Len(Box) : Box[k] \in FindMsg \cup SaveMsg
  BY <1>1
<1>3. \A k \in 1 .. Len(Box) : MsgOK("subject", Box[k])
  BY DEF TypeInv, MailType, Box, Managers
<1> QED
  BY <1>1, <1>2, <1>3 DEF MsgOK, FindMsg, SaveMsg

\* Steps that leave the mailbox of the subject manager alone.
LEMMA VersionFrame ==
  ASSUME TypeInv, VersionInv, UNCHANGED <<setting, store>>, Box' = Box,
         \A t \in Threads :
           \/ pc'[t] = pc[t] /\ prev'[t] = prev[t] /\ Uri(t)' = Uri(t)
           \/ pc[t] # "find" /\ pc'[t] \notin {"found", "remove"}
  PROVE  VersionInv'
<1>1. Threads' = Threads
  BY DEF Threads
<1>2. \A k \in 1 .. Len(Box) : Box[k].from \in Threads
  BY BoxType
<1>3. SavesAreFresh' /\ OrderOfThread'
  BY DEF VersionInv, SavesAreFresh, OrderOfThread
<1>4. ThreadOfMessage'
  BY <1>2 DEF VersionInv, ThreadOfMessage
<1>5. FoundIsFresh'
  BY <1>1 DEF VersionInv, FoundIsFresh
<1> QED
  BY <1>3, <1>4, <1>5 DEF VersionInv

\* A message put into the mailbox of the subject manager.
LEMMA VersionAppend ==
  ASSUME TypeInv, VersionInv, UNCHANGED <<setting, store, prev>>,
         NEW t \in Threads, NEW msg \in FindMsg \cup SaveMsg, msg.from = t,
         Box' = Append(Box, msg),
         NEW p, pc' = [pc EXCEPT ![t] = p], p # "found",
         \A w \in Threads : Uri(w)' = Uri(w),
         p = "remove" => pc[t] = "found",
         \* what the thread did before
         pc[t] # "find",
         \A k \in 1 .. Len(Box) : Box[k].from = t =>
           /\ Box[k].kind = "save"
           /\ msg.kind = "save" => Box[k].item.new.ctr = Box[k].item.prev.ctr,
         msg.kind = "find" => p = "find" /\ msg.uri = Uri(t),
         msg.kind = "save" =>
           /\ msg.item.prev.ctr = store[msg.item.uri].ctr
           /\ p = "remove" => msg.item.new.ctr = msg.item.prev.ctr
  PROVE  VersionInv'
<1>1. Threads' = Threads /\ pc \in [Threads -> Places]
  BY DEF Threads, TypeInv, ClientType
<1>2. /\ Box \in Seq(FindMsg \cup SaveMsg) /\ Len(Box) \in Nat
      /\ \A k \in 1 .. Len(Box) : Box[k].from \in Threads
  BY BoxType
<1>3. /\ Len(Box') = Len(Box) + 1 /\ Box'[Len(Box) + 1] = msg
      /\ \A k \in 1 .. Len(Box) : Box'[k] = Box[k]
  BY <1>2, AppendFacts
<1>4. SavesAreFresh'
  <2> SUFFICES ASSUME NEW k \in 1 .. Len(Box'), Box'[k].kind = "save"
               PROVE  Box'[k].item.prev.ctr = store[Box'[k].item.uri].ctr
    BY DEF SavesAreFresh
  <2>1. CASE k = Len(Box) + 1
    BY <1>3, <2>1
  <2>2. CASE k \in 1 .. Len(Box)
    BY <1>3, <2>2 DEF VersionInv, SavesAreFresh
  <2> QED
    BY <1>2, <1>3, <2>1, <2>2
<1>5. OrderOfThread'
  <2> SUFFICES ASSUME NEW j \in 1 .. Len(Box'), NEW k \in 1 .. Len(Box'), j < k,
                      Box'[j].from = Box'[k].from
               PROVE  /\ Box'[j].kind = "save"
                      /\ Box'[k].kind = "save" =>
                           Box'[j].item.new.ctr = Box'[j].item.prev.ctr
    BY DEF OrderOfThread
  <2>1. j \in 1 .. Len(Box)
    BY <1>2, <1>3
  <2>2. CASE k = Len(Box) + 1
    BY <1>3, <2>1, <2>2
  <2>3. CASE k \in 1 .. Len(Box)
    BY <1>3, <2>1, <2>3 DEF VersionInv, OrderOfThread
  <2> QED
    BY <1>2, <1>3, <2>2, <2>3, SMTT(30)
<1>6. ThreadOfMessage'
  <2> SUFFICES ASSUME NEW k \in 1 .. Len(Box'), NEW w \in Threads, w = Box'[k].from
               PROVE  /\ Box'[k].kind = "find" => pc'[w] = "find" /\ Box'[k].uri = Uri(w)'
                      /\ pc'[w] # "found"
                      /\ pc'[w] = "remove" /\ Box'[k].kind = "save" =>
                           Box'[k].item.new.ctr = Box'[k].item.prev.ctr
    <3>1. \A k \in 1 .. Len(Box') : Box'[k].from \in Threads
      BY <1>2, <1>3
    <3> QED
      BY <3>1 DEF ThreadOfMessage
  <2>1. CASE k = Len(Box) + 1
    BY <1>1, <1>3, <2>1
  <2>2. CASE k \in 1 .. Len(Box) /\ Box[k].from = t
    BY <1>1, <1>3, <2>2 DEF VersionInv, ThreadOfMessage
  <2>3. CASE k \in 1 .. Len(Box) /\ Box[k].from # t
    BY <1>1, <1>2, <1>3, <2>3 DEF VersionInv, ThreadOfMessage
  <2> QED
    BY <1>2, <1>3, <2>1, <2>2, <2>3
<1>7. FoundIsFresh'
  <2> SUFFICES ASSUME NEW w \in Threads, pc'[w] \in {"found", "remove"}
               PROVE  prev[w].ctr = store[Uri(w)].ctr
    BY <1>1 DEF FoundIsFresh
  <2>1. pc[w] \in {"found", "remove"}
    BY <1>1
  <2> QED
    BY <2>1 DEF VersionInv, FoundIsFresh
<1> QED
  BY <1>4, <1>5, <1>6, <1>7 DEF VersionInv

\* A message taken from the mailbox of the subject manager.
LEMMA VersionTail ==
  ASSUME TypeInv, VersionInv, Box # <<>>, Box' = Tail(Box)
  PROVE  /\ OrderOfThread'
         /\ \A k \in 1 .. Len(Box') : k + 1 \in 1 .. Len(Box) /\ Box'[k] = Box[k + 1]
         /\ \A k \in 1 .. Len(Box') : Box'[k].from = Box[1].from =>
              /\ Box[1].kind = "save"
              /\ Box'[k].kind = "save" => Box[1].item.new.ctr = Box[1].item.prev.ctr
<1>1. Box \in Seq(FindMsg \cup SaveMsg) /\ Len(Box) \in Nat
  BY BoxType
<1>2. /\ \A k \in 1 .. Len(Box') : k + 1 \in 1 .. Len(Box) /\ Box'[k] = Box[k + 1]
      /\ 1 \in 1 .. Len(Box) /\ Len(Box') = Len(Box) - 1
  BY <1>1, TailFacts
<1>3. OrderOfThread'
  <2> SUFFICES ASSUME NEW j \in 1 .. Len(Box'), NEW k \in 1 .. Len(Box'), j < k,
                      Box'[j].from = Box'[k].from
               PROVE  /\ Box'[j].kind = "save"
                      /\ Box'[k].kind = "save" =>
                           Box'[j].item.new.ctr = Box'[j].item.prev.ctr
    BY DEF OrderOfThread
  <2>1. j + 1 < k + 1 /\ j + 1 \in 1 .. Len(Box) /\ k + 1 \in 1 .. Len(Box)
    BY <1>2
  <2> QED
    BY <1>2, <2>1 DEF VersionInv, OrderOfThread
<1>4. ASSUME NEW k \in 1 .. Len(Box'), Box'[k].from = Box[1].from
      PROVE  /\ Box[1].kind = "save"
             /\ Box'[k].kind = "save" => Box[1].item.new.ctr = Box[1].item.prev.ctr
  <2>1. 1 < k + 1 /\ k + 1 \in 1 .. Len(Box)
    BY <1>2
  <2> QED
    BY <1>2, <1>4, <2>1 DEF VersionInv, OrderOfThread
<1> QED
  BY <1>2, <1>3, <1>4

\* The subject manager answers find().
LEMMA VersionFind ==
  ASSUME TypeInv, VersionInv, UNCHANGED setting, HandleFind
  PROVE  VersionInv'
<1> DEFINE t == Box[1].from
<1>1. /\ Box # <<>> /\ Box' = Tail(Box) /\ Head(Box) = Box[1] /\ Box[1].kind = "find"
      /\ t \in Threads /\ 1 \in 1 .. Len(Box)
      /\ prev' = [prev EXCEPT ![t] = store[Box[1].uri]]
      /\ pc' = [pc EXCEPT ![t] = "found"]
      /\ UNCHANGED <<job, store>> /\ Threads' = Threads
  <2>1. inbox["subject"] # <<>> /\ "subject" \in Managers
    BY DEF HandleFind, Handles, Managers
  <2>2. inbox'["subject"] = Tail(inbox["subject"])
    BY <2>1 DEF HandleFind, TypeInv, MailType
  <2> QED
    BY <2>1, <2>2, HeadOfBox DEF HandleFind, Handles, Box, Threads
<1>2. /\ OrderOfThread'
      /\ \A k \in 1 .. Len(Box') : k + 1 \in 1 .. Len(Box) /\ Box'[k] = Box[k + 1]
      /\ \A k \in 1 .. Len(Box') : Box'[k].from # t
  BY <1>1, VersionTail
<1>3. /\ pc[t] = "find" /\ Box[1].uri = Uri(t)
      /\ pc \in [Threads -> Places] /\ prev \in [Threads -> State]
      /\ \A w : Uri(w)' = Uri(w)
      /\ \A k \in 1 .. Len(Box) : Box[k].from \in Threads
  BY <1>1, BoxType DEF VersionInv, ThreadOfMessage, TypeInv, ClientType, Uri
<1> HIDE DEF t
<1>4. SavesAreFresh'
  BY <1>1, <1>2 DEF VersionInv, SavesAreFresh
<1>5. ThreadOfMessage'
  <2> SUFFICES ASSUME NEW k \in 1 .. Len(Box'), NEW w \in Threads, w = Box'[k].from
               PROVE  /\ Box'[k].kind = "find" => pc'[w] = "find" /\ Box'[k].uri = Uri(w)'
                      /\ pc'[w] # "found"
                      /\ pc'[w] = "remove" /\ Box'[k].kind = "save" =>
                           Box'[k].item.new.ctr = Box'[k].item.prev.ctr
    BY <1>2, <1>3 DEF ThreadOfMessage
  <2>1. pc'[w] = pc[w] /\ Box'[k] = Box[k + 1] /\ k + 1 \in 1 .. Len(Box)
    BY <1>1, <1>2, <1>3
  <2> QED
    BY <1>3, <2>1 DEF VersionInv, ThreadOfMessage
<1>6. FoundIsFresh'
  <2> SUFFICES ASSUME NEW w \in Threads, pc'[w] \in {"found", "remove"}
               PROVE  prev'[w].ctr = store[Uri(w)].ctr
    BY <1>1, <1>3 DEF FoundIsFresh
  <2>1. CASE w = t
    BY <1>1, <1>3, <2>1
  <2>2. CASE w # t
    BY <1>1, <1>3, <2>2 DEF VersionInv, FoundIsFresh
  <2> QED
    BY <2>1, <2>2
<1> QED
  BY <1>2, <1>4, <1>5, <1>6 DEF VersionInv

\* It works off a save(): the version of the individual becomes the new one,
\* or stays.
LEMMA VersionSave ==
  ASSUME TypeInv, VersionInv, UNCHANGED <<setting, pc, prev, job>>,
         Box # <<>>, Box' = Tail(Box), Box[1].kind = "save",
         \/ store' = store
         \/ store' = [store EXCEPT ![Box[1].item.uri] = Box[1].item.new]
  PROVE  VersionInv'
<1> DEFINE t == Box[1].from
           it == Box[1].item
<1>1. /\ 1 \in 1 .. Len(Box) /\ Threads' = Threads /\ store \in [AllUris -> State]
      /\ \A w : Uri(w)' = Uri(w)
  <2>1. 1 \in 1 .. Len(Box)
    BY BoxType, TailFacts
  <2> QED
    BY <2>1 DEF TypeInv, DataType, Threads, Uri
<1>2. /\ OrderOfThread'
      /\ \A k \in 1 .. Len(Box') : k + 1 \in 1 .. Len(Box) /\ Box'[k] = Box[k + 1]
      /\ \A k \in 1 .. Len(Box') : Box'[k].from = t /\ Box'[k].kind = "save" =>
           it.new.ctr = it.prev.ctr
  BY VersionTail
<1>3. /\ t \in Threads /\ it \in Item /\ it.uri \in Mine(t) /\ it.uri \in AllUris
      /\ it.prev.ctr = store[it.uri].ctr
  BY <1>1, BoxType, MineFacts DEF VersionInv, SavesAreFresh
<1>4. \A w \in Threads : w # t => it.uri \notin Mine(w)
  BY <1>3, MineFacts, SettingFacts DEF TypeInv
<1>5. /\ \A u \in AllUris : u # it.uri => store'[u] = store[u]
      /\ it.new.ctr = it.prev.ctr => store'[it.uri].ctr = store[it.uri].ctr
  BY <1>1, <1>3
<1>6. \A k \in 1 .. Len(Box) : /\ Box[k].from \in Threads
                               /\ Box[k].kind = "save" =>
                                    /\ Box[k].item.uri \in Mine(Box[k].from)
                                    /\ Box[k].item.uri \in AllUris
  BY BoxType, MineFacts
<1>7. t = Box[1].from /\ pc[t] # "found"
      /\ (pc[t] = "remove" => it.new.ctr = it.prev.ctr)
  BY <1>1 DEF VersionInv, ThreadOfMessage
<1> HIDE DEF t, it
<1>8. SavesAreFresh'
  <2> SUFFICES ASSUME NEW k \in 1 .. Len(Box'), Box'[k].kind = "save"
               PROVE  Box'[k].item.prev.ctr = store'[Box'[k].item.uri].ctr
    BY DEF SavesAreFresh
  <2>1. /\ k + 1 \in 1 .. Len(Box) /\ Box'[k] = Box[k + 1]
        /\ Box[k + 1].item.prev.ctr = store[Box[k + 1].item.uri].ctr
    BY <1>2 DEF VersionInv, SavesAreFresh
  <2>2. CASE Box'[k].from = t
    BY <1>2, <1>5, <1>6, <2>1, <2>2
  <2>3. CASE Box'[k].from # t
    BY <1>4, <1>5, <1>6, <2>1, <2>3
  <2> QED
    BY <2>2, <2>3
<1>9. ThreadOfMessage'
  BY <1>1, <1>2, <1>6 DEF VersionInv, ThreadOfMessage
<1>10. FoundIsFresh'
  <2> SUFFICES ASSUME NEW w \in Threads, pc[w] \in {"found", "remove"}
               PROVE  prev[w].ctr = store'[Uri(w)].ctr
    BY <1>1 DEF FoundIsFresh
  <2>1. prev[w].ctr = store[Uri(w)].ctr
    BY DEF VersionInv, FoundIsFresh
  <2>2. Uri(w) \in Mine(w) /\ Uri(w) \in AllUris
    BY UriFacts
  <2>3. CASE w = t
    BY <1>5, <1>7, <2>1, <2>2, <2>3
  <2>4. CASE w # t
    BY <1>4, <1>5, <2>1, <2>2, <2>4
  <2> QED
    BY <2>3, <2>4
<1> QED
  BY <1>2, <1>8, <1>9, <1>10 DEF VersionInv

\* The steps that send to the subject manager.
LEMMA VersionSend ==
  ASSUME TypeInv, VersionInv, UNCHANGED setting, NEW t \in Threads,
         \/ CallFind(t)
         \/ AddToTransaction(t)
         \/ SaveRemove(t) /\ Received(t, "subject") = "Ok"
  PROVE  VersionInv'
<1>1. inbox \in [Managers -> Seq(FindMsg \cup SaveMsg)] /\ "subject" \in Managers
      /\ job \in [Threads -> Jobs] /\ Threads \subseteq {"n_channel", "init"}
  BY SettingFacts DEF TypeInv, MailType, ClientType, Managers
<1>2. \A k \in 1 .. Len(Box) : Box[k].from \in Threads /\ Box[k].kind \in {"find", "save"}
  BY BoxType
<1>3. CASE CallFind(t)
  <2>1. /\ Box' = Append(Box, Find(t, Uri(t))) /\ pc[t] = "item"
        /\ pc' = [pc EXCEPT ![t] = "find"] /\ UNCHANGED <<store, prev, job>>
    BY <1>1, <1>3 DEF CallFind, Box
  <2>2. Uri(t) \in AllUris
    BY <2>1, UriFacts
  <2>3. Find(t, Uri(t)) \in FindMsg /\ Find(t, Uri(t)).from = t
        /\ Find(t, Uri(t)).kind = "find" /\ Find(t, Uri(t)).uri = Uri(t)
    BY <1>1, <2>2 DEF Find, FindMsg
  <2>4. \A k \in 1 .. Len(Box) : Box[k].from = t => Box[k].kind = "save"
    BY <1>2, <2>1 DEF VersionInv, ThreadOfMessage
  <2>5. \A w \in Threads : Uri(w)' = Uri(w)
    BY <2>1 DEF Uri
  <2> QED
    BY <2>1, <2>3, <2>4, <2>5, VersionAppend
<1>7. ASSUME job' = [job EXCEPT ![t].req = saves + 1]
      PROVE  \A w \in Threads : Uri(w)' = Uri(w)
  <2>1. [job[t] EXCEPT !.req = saves + 1].uris = job[t].uris
    BY <1>1 DEF Jobs
  <2>2. job' = [job EXCEPT ![t] = [job[t] EXCEPT !.req = saves + 1]]
    BY <1>7
  <2>3. \A w \in Threads : job'[w].uris = job[w].uris
    BY <1>1, <2>1, <2>2
  <2> QED
    BY <2>3 DEF Uri
<1>4. ASSUME NEW it \in Item, it.uri = Uri(t), it.prev = prev[t],
             NEW p \in {"save", "remove"}, pc[t] \in {"found", "remove"},
             SendSave(t, "subject", it), pc' = [pc EXCEPT ![t] = p],
             \A w \in Threads : Uri(w)' = Uri(w), store' = store, prev' = prev,
             p = "remove" => pc[t] = "found" /\ it.new.ctr = it.prev.ctr
      PROVE  VersionInv'
  <2>1. Box' = Append(Box, Save(t, it))
    BY <1>1, <1>4 DEF SendSave, Box
  <2>2. Save(t, it) \in SaveMsg /\ Save(t, it).from = t
        /\ Save(t, it).kind = "save" /\ Save(t, it).item = it
    BY <1>1 DEF Save, SaveMsg
  <2>3. \A k \in 1 .. Len(Box) : Box[k].from = t =>
          Box[k].kind = "save" /\ Box[k].item.new.ctr = Box[k].item.prev.ctr
    BY <1>2, <1>4 DEF VersionInv, ThreadOfMessage
  <2>4. it.prev.ctr = store[it.uri].ctr
    BY <1>4 DEF VersionInv, FoundIsFresh
  <2> QED
    BY <1>4, <2>1, <2>2, <2>3, <2>4, VersionAppend, ZenonT(30)
<1>5. CASE AddToTransaction(t)
  <2>1. /\ pc[t] = "found" /\ SendSave(t, "subject", FirstItem(t))
        /\ job' = [job EXCEPT ![t].req = saves + 1] /\ UNCHANGED <<store, prev>>
    BY <1>5 DEF AddToTransaction
  <2>2. FirstItem(t) \in Item /\ FirstItem(t).uri = Uri(t) /\ FirstItem(t).prev = prev[t]
        /\ (job[t].cmd = "remove" /\ prev[t] # Null => FirstItem(t).new.ctr = prev[t].ctr)
    BY <2>1, FirstItemFacts
  <2>3. PICK p \in {"save", "remove"} :
          /\ pc' = [pc EXCEPT ![t] = p]
          /\ p = "remove" => job[t].cmd = "remove" /\ prev[t] # Null
    BY <1>5 DEF AddToTransaction
  <2>4. p = "remove" => FirstItem(t).new.ctr = FirstItem(t).prev.ctr
    BY <2>2, <2>3
  <2>5. \A w \in Threads : Uri(w)' = Uri(w)
    BY <1>7, <2>1
  <2> QED
    BY <1>4, <2>1, <2>2, <2>3, <2>4, <2>5
<1>6. CASE SaveRemove(t) /\ Received(t, "subject") = "Ok"
  <2> DEFINE it == TransactionItem(t, "remove", Null)
  <2>1. /\ pc[t] = "remove" /\ SendSave(t, "subject", it)
        /\ job' = [job EXCEPT ![t].req = saves + 1] /\ UNCHANGED <<store, prev>>
        /\ pc' = [pc EXCEPT ![t] = "save"]
    BY <1>6 DEF SaveRemove
  <2>2. Null \in State
    BY DEF Null, State
  <2>3. it \in Item /\ it.uri = Uri(t) /\ it.prev = prev[t]
    BY <2>1, <2>2, ItemFacts
  <2>4. \A w \in Threads : Uri(w)' = Uri(w)
    BY <1>7, <2>1
  <2> HIDE DEF it
  <2> QED
    BY <1>4, <2>1, <2>3, <2>4
<1> QED
  BY <1>3, <1>5, <1>6

\* No step brings a write of an old version on its way.
LEMMA VersionStep ==
  ASSUME TypeInv, VersionInv, [Next]_vars
  PROVE  VersionInv'
<1>1. /\ UNCHANGED setting /\ Managers = {"subject", "ticket"}
      /\ pc \in [Threads -> Places] /\ job \in [Threads -> Jobs]
      /\ prev \in [Threads -> State] /\ "n_channel" \in Threads
      /\ inbox \in [Managers -> Seq(FindMsg \cup SaveMsg)]
  BY SettingFacts DEF Next, vars, Managers, TypeInv, ClientType, MailType
<1>2. ASSUME NEW t \in Threads, SaveTicket(t), pc[t] = "idle"
      PROVE  VersionInv'
  <2>1. /\ Box' = Box /\ UNCHANGED <<store, prev, job>>
        /\ pc' = [pc EXCEPT ![t] = "ticket"]
    BY <1>1, <1>2 DEF SaveTicket, SendSave, Box
  <2> QED
    BY <1>1, <1>2, <2>1, VersionFrame DEF Uri
<1>3. ASSUME NEW t \in Threads, pc[t] = "idle", pc' = [pc EXCEPT ![t] = "item"],
             NEW j, job' = [job EXCEPT ![t] = j], UNCHANGED <<store, prev, inbox>>
      PROVE  VersionInv'
  BY <1>1, <1>3, VersionFrame DEF Uri, Box
<1>4. ASSUME NEW t \in Threads, NEW rc, NEW op, Answer(t, rc, op), pc[t] # "find",
             UNCHANGED <<store, inbox>>
      PROVE  VersionInv'
  <2>1. \A w \in Threads : w # t => job'[w] = job[w] /\ pc'[w] = pc[w]
    BY <1>1, <1>4 DEF Answer
  <2>2. pc'[t] \in {"idle", "item"} /\ UNCHANGED prev
    BY <1>1, <1>4 DEF Answer
  <2> QED
    BY <1>1, <1>4, <2>1, <2>2, VersionFrame DEF Uri, Box
<1>5. ASSUME NEW t \in Threads, TicketAnswered(t)
      PROVE  VersionInv'
  BY <1>1, <1>5, VersionFrame DEF TicketAnswered, Uri, Box
<1>6. ASSUME NEW t \in Threads, Refuse(t) \/ SaveAnswered(t)
      PROVE  VersionInv'
  BY <1>4, <1>6 DEF Refuse, SaveAnswered
<1>7. ASSUME NEW t \in Threads, SaveRemove(t)
      PROVE  VersionInv'
  <2>1. CASE Received(t, "subject") = "Ok"
    BY <1>1, <1>7, <2>1, VersionSend
  <2>2. CASE Received(t, "subject") # "Ok"
    BY <1>4, <1>7, <2>2 DEF SaveRemove
  <2> QED
    BY <2>1, <2>2
<1>8. ASSUME NEW m \in Managers, HandleSave(m) \/ StoreFails(m)
      PROVE  VersionInv'
  <2>1. /\ inbox[m] # <<>> /\ Head(inbox[m]).kind = "save"
        /\ inbox' = [inbox EXCEPT ![m] = Tail(@)] /\ UNCHANGED <<pc, job, prev>>
    BY <1>8 DEF HandleSave, StoreFails, Handles, clientVars
  <2>2. \/ store' = store
        \/ m = "subject" /\ store' = [store EXCEPT ![Head(inbox[m]).item.uri] =
                                                Head(inbox[m]).item.new]
    BY <1>8 DEF HandleSave, StoreFails, Stores
  <2>3. CASE m = "ticket"
    <3>1. Box' = Box /\ UNCHANGED store
      BY <1>1, <2>1, <2>2, <2>3 DEF Box
    <3> QED
      BY <1>1, <2>1, <3>1, VersionFrame DEF Uri
  <2>4. CASE m = "subject"
    <3>1. Box # <<>> /\ Box' = Tail(Box) /\ Head(Box) = Box[1] /\ Box[1].kind = "save"
      BY <1>1, <2>1, <2>4, HeadOfBox DEF Box
    <3> QED
      BY <1>1, <2>1, <2>2, <2>4, <3>1, VersionSave DEF Box
  <2> QED
    BY <1>1, <2>3, <2>4
<1>9. CASE Restart
  <2>1. Box' = <<>> /\ \A t \in Threads' : pc'[t] = "idle"
    BY <1>1, <1>9 DEF Restart, Box, Threads
  <2>2. Len(<<>>) = 0
    BY EmptySeq
  <2> QED
    BY <2>1, <2>2 DEF VersionInv, SavesAreFresh, OrderOfThread, ThreadOfMessage,
                      FoundIsFresh
<1>10. CASE UNCHANGED <<pc, job, prev, store, inbox>>
  BY <1>1, <1>10, VersionFrame DEF Uri, Box
<1>11. CASE \/ \E c \in setting.commands, us \in Lists, tg \in setting.targets :
                 Request(c, us, tg)
            \/ InitPermission
  BY <1>1, <1>3, <1>11 DEF Request, InitPermission
<1>12. CASE Authenticate \/ InitTicket
  BY <1>1, <1>2, <1>12 DEF Authenticate, InitTicket
<1>13. CASE \E t \in Threads : CallFind(t) \/ AddToTransaction(t)
  BY <1>1, <1>13, VersionSend
<1>14. CASE UNCHANGED vars
  BY <1>10, <1>14 DEF vars, clientVars
<1> QED
  BY <1>5, <1>6, <1>7, <1>8, <1>9, <1>10, <1>11, <1>12, <1>13, <1>14,
     <1>1, VersionFind
     DEF Next, Step, PutInfo, CommitTick, Push, PushThrows, HandleAcl, CommitAcl,
         clientVars

\* Types and versions together are an invariant.
BaseInv == TypeInv /\ VersionInv

\* The types and versions of the first state.
LEMMA BaseInit == Init => BaseInv
<1> SUFFICES ASSUME Init PROVE BaseInv
  OBVIOUS
<1>1. Box = <<>> /\ (\A t \in Threads : pc[t] = "idle") /\ Len(<<>>) = 0
  BY EmptySeq DEF Init, Box, Managers
<1> QED
  BY <1>1, TypeInit DEF BaseInv, VersionInv, SavesAreFresh, OrderOfThread,
                        ThreadOfMessage, FoundIsFresh

\* Every step keeps the types and the versions.
LEMMA BaseStep ==
  ASSUME BaseInv, [Next]_vars
  PROVE  BaseInv'
<1>1. VersionInv'
  BY VersionStep DEF BaseInv
<1>2. TypeInv'
  <2>1. CASE Next
    BY <2>1, TypeClient, TypeMail, TypeManager, TypeData DEF BaseInv, TypeInv, Next
  <2>2. CASE UNCHANGED vars
    BY <2>2 DEF vars, clientVars, managerVars, history, BaseInv, TypeInv,
                ClientType, JobType, MailType, MsgOK, ManagerType, DataType, Threads
  <2> QED
    BY <2>1, <2>2
<1> QED
  BY <1>1, <1>2 DEF BaseInv

\* The threads, mailboxes, files and the database of the storage process keep
\* their types: in particular a thread never takes an individual from an empty
\* request, and the committed op_id is never ahead of the op_id.
THEOREM TypeTheorem == Spec => []TypeOK
<1>1. BaseInv => TypeOK
  <2> SUFFICES ASSUME TypeInv PROVE TypeOK
    BY DEF BaseInv
  <2>1. setting \in Settings /\ pc \in [Threads -> Places]
    BY DEF TypeInv, ClientType
  <2>2. \A t \in Threads : /\ job[t].cmd \in {"none", "put", "remove"}
                           /\ job[t].uris \in Seq(AllUris)
                           /\ job[t].target \in {"all", "other"}
                           /\ tnx[t] \in Int /\ prev[t] \in State
    BY DEF TypeInv, ClientType, Jobs
  <2>3. \A m \in Managers : /\ at[m] \in {"loop", "replied", "informed"}
                            /\ op_id[m] \in Nat
                            /\ committed_op_id[m] \in 0 .. op_id[m]
                            /\ info[m].op \in Nat
                            /\ info[m].committed \in 0 .. info[m].op
    BY DEF TypeInv, ManagerType
  <2>4. store \in [AllUris -> State] /\ subject_manager_op_id \in Nat
    BY DEF TypeInv, DataType, ManagerType
  <2>5. \A k \in DOMAIN queue : queue[k].item \in Item
    <3>1. queue \in Seq(Rec)
      BY DEF TypeInv, DataType
    <3>2. \A k \in DOMAIN queue : queue[k] \in Rec
      BY <3>1
    <3> QED
      BY <3>2 DEF Rec
  <2> QED
    BY <2>1, <2>2, <2>3, <2>4, <2>5 DEF TypeOK, Places
<1> QED
  BY <1>1, BaseInit, BaseStep, PTL DEF Spec

\* What the manager has in hand after a change of the database was made from
\* the version that the change replaces.
LEMMA StoreChange ==
  ASSUME TypeInv, VersionInv, [Next]_vars, NEW u \in AllUris, store'[u] # store[u]
  PROVE  cur'["subject"].item.prev.ctr = store[u].ctr
<1>1. HandleSave("subject")
  <2>1. \A m \in Managers : HandleSave(m) => m = "subject"
    BY DEF HandleSave, Stores, Managers
  <2> QED
    BY <2>1
       DEF Next, Step, vars, Request, Authenticate, InitTicket, InitPermission,
           SaveTicket, CallFind, AddToTransaction, Refuse, SaveRemove, SaveAnswered,
           TicketAnswered, HandleFind, StoreFails, PutInfo, CommitTick, Push,
           PushThrows, HandleAcl, CommitAcl, Restart
<1>2. /\ Box # <<>> /\ Head(Box) = Box[1] /\ 1 \in 1 .. Len(Box) /\ Box[1].kind = "save"
      /\ cur'["subject"] = Box[1] /\ Box[1].item \in Item
      /\ store' \in {store, [store EXCEPT ![Box[1].item.uri] = Box[1].item.new]}
  <2>1. inbox["subject"] # <<>> /\ "subject" \in Managers
        /\ Head(inbox["subject"]).kind = "save"
    BY <1>1 DEF HandleSave, Handles, Managers
  <2>2. cur \in [Managers -> SaveMsg \cup {<<>>}]
    BY DEF TypeInv, ManagerType
  <2> QED
    BY <1>1, <2>1, <2>2, HeadOfBox DEF HandleSave, Box
<1>3. u = Box[1].item.uri
  BY <1>2 DEF TypeInv, DataType
<1> QED
  BY <1>2, <1>3 DEF VersionInv, SavesAreFresh

\* No update is lost, whatever the requests, with both client threads, with
\* refusals of the database, crashes, and a queue that throws and so leaves
\* result codes in the mailboxes that let a client go on too early.
THEOREM NoLostUpdateTheorem == Spec => NoLostUpdate
<1>1. BaseInv /\ [Next]_vars =>
        [\A u \in Uris : store'[u] # store[u] =>
           cur'["subject"].item.prev.ctr = store[u].ctr]_vars
  <2> SUFFICES ASSUME BaseInv, [Next]_vars, NEW u \in Uris, store'[u] # store[u]
               PROVE  cur'["subject"].item.prev.ctr = store[u].ctr
    OBVIOUS
  <2> QED
    BY StoreChange DEF BaseInv, AllUris
<1> QED
  BY <1>1, BaseInit, BaseStep, PTL DEF Spec, NoLostUpdate
-----------------------------------------------------------------------------
(***************************************************************************)
(* The flow of records.                                                    *)
(***************************************************************************)
\* The flow is a sequence of records, the queue but for the one in hand.
LEMMA FlowType ==
  ASSUME TypeInv
  PROVE  /\ Flow \in Seq(Rec) /\ queue \in Seq(Rec) /\ Len(queue) \in Nat
         /\ \A k \in 1 .. Len(Flow) : Flow[k] \in Rec /\ Flow[k].item.uri \in AllUris
<1>1. queue \in Seq(Rec) /\ \A k \in 1 .. Len(queue) : queue[k].item.uri \in AllUris
  BY DEF TypeInv, DataType
<1>2. CASE at["subject"] = "loop"
  <2>1. Flow = queue
    BY <1>2 DEF Flow
  <2> QED
    BY <1>1, <2>1
<1>3. CASE at["subject"] # "loop"
  <2>1. Flow = Append(queue, InHand)
    BY <1>3 DEF Flow
  <2>2. InHand \in Rec /\ InHand.item.uri \in AllUris
    BY <1>3, InHandFacts
  <2> HIDE DEF InHand
  <2>3. Flow \in Seq(Rec) /\ Len(Flow) = Len(queue) + 1 /\ Len(queue) \in Nat
        /\ (\A k \in 1 .. Len(queue) : Flow[k] = queue[k]) /\ Flow[Len(queue) + 1] = InHand
    BY <1>1, <2>1, <2>2, AppendFacts
  <2> QED
    BY <1>1, <2>2, <2>3
<1> QED
  BY <1>2, <1>3

\* What a step does to the flow: nothing ...
FlowQuiet ==
  /\ UNCHANGED <<store, queue, life>> /\ Flow' = Flow
  /\ at'["subject"] = "loop" <=> at["subject"] = "loop"

\* ... a write puts a record into it ...
FlowWrite ==
  LET it == Box[1].item IN
  /\ HandleSave("subject")
  /\ at["subject"] = "loop" /\ at'["subject"] = "replied" /\ Flow = queue
  /\ Box # <<>> /\ 1 \in 1 .. Len(Box) /\ Head(Box) = Box[1] /\ Box' = Tail(Box)
  /\ Box[1].kind = "save" /\ Box[1].from \in Threads
  /\ it \in Item /\ it.uri \in AllUris
  /\ op_id["subject"] \in Nat /\ op_id'["subject"] = op_id["subject"] + 1
  /\ UNCHANGED <<queue, life>>
  /\ Flow' = Append(queue, Record(it, op_id["subject"] + 1, life))
  /\ store' = IF it.target = "all" THEN [store EXCEPT ![it.uri] = it.new] ELSE store

\* ... the push completes it, and a push that throws or a crash take the
\* record in hand from it.
FlowPush ==
  /\ Push /\ at["subject"] # "loop" /\ at'["subject"] = "loop"
  /\ Flow = Append(queue, InHand) /\ queue' = Flow /\ Flow' = Flow
  /\ UNCHANGED <<store, life>>

FlowLose ==
  /\ PushThrows /\ "push" \in setting.failures
  /\ at["subject"] # "loop" /\ at'["subject"] = "loop"
  /\ Flow = Append(queue, InHand) /\ Flow' = queue
  /\ UNCHANGED <<store, queue, life>>

FlowRestart ==
  /\ Restart /\ life' = life + 1 /\ at'["subject"] = "loop" /\ Flow' = queue
  /\ UNCHANGED <<store, queue>>

\* A save of the subject manager adds its record to the flow.
LEMMA FlowOfSave ==
  ASSUME TypeInv, HandleSave("subject")
  PROVE  FlowWrite
<1>0. /\ Managers = {"subject", "ticket"} /\ life \in Nat
      /\ at \in [Managers -> {"loop", "replied", "informed"}]
      /\ cur \in [Managers -> SaveMsg \cup {<<>>}] /\ op_id \in [Managers -> Nat]
      /\ inbox \in [Managers -> Seq(FindMsg \cup SaveMsg)]
  BY DEF Managers, TypeInv, ManagerType, DataType, MailType
<1> DEFINE it == Box[1].item
<1>1. inbox["subject"] # <<>> /\ "subject" \in Managers
      /\ Head(inbox["subject"]).kind = "save" /\ at["subject"] = "loop"
  BY DEF HandleSave, Handles, Managers
<1>2. /\ Box # <<>> /\ 1 \in 1 .. Len(Box) /\ Head(Box) = Box[1]
      /\ Box[1].kind = "save" /\ it \in Item /\ it.uri \in AllUris
      /\ Box[1].from \in Threads
  BY <1>1, HeadOfBox DEF Box
<1>3. /\ cur'["subject"] = Box[1] /\ op_id'["subject"] = op_id["subject"] + 1
      /\ at'["subject"] = "replied" /\ UNCHANGED <<queue, life>>
      /\ Box' = Tail(Box)
  BY <1>0, <1>1, <1>2 DEF HandleSave, Box
<1>4. store' = IF it.target = "all" THEN [store EXCEPT ![it.uri] = it.new] ELSE store
  BY <1>2 DEF HandleSave, Stores, Box
<1>5. InHand' = Record(it, op_id["subject"] + 1, life)
  BY <1>3 DEF InHand, Record
<1>6. Flow = queue /\ Flow' = Append(queue, Record(it, op_id["subject"] + 1, life))
  BY <1>1, <1>3, <1>5 DEF Flow
<1> QED
  BY <1>0, <1>1, <1>2, <1>3, <1>4, <1>6 DEF FlowWrite

\* What a step does to the flow: nothing, a write, its push, a loss or a restart.
LEMMA FlowStep ==
  ASSUME TypeInv, [Next]_vars
  PROVE  FlowQuiet \/ FlowWrite \/ FlowPush \/ FlowLose \/ FlowRestart
<1>1. /\ Managers = {"subject", "ticket"} /\ UNCHANGED setting
      /\ at \in [Managers -> {"loop", "replied", "informed"}]
      /\ cur \in [Managers -> SaveMsg \cup {<<>>}] /\ op_id \in [Managers -> Nat]
      /\ life \in Nat /\ inbox \in [Managers -> Seq(FindMsg \cup SaveMsg)]
  BY DEF Managers, TypeInv, ManagerType, DataType, MailType, Next, vars
<1>2. ASSUME UNCHANGED <<store, queue, life>>, at'["subject"] = "loop" <=> at["subject"] = "loop",
             \/ at["subject"] = "loop"
             \/ cur'["subject"] = cur["subject"] /\ op_id'["subject"] = op_id["subject"]
      PROVE  FlowQuiet
  BY <1>2 DEF FlowQuiet, Flow, InHand
<1>3. ASSUME NEW m \in Managers, HandleSave(m), m = "ticket"
      PROVE  FlowQuiet
  BY <1>1, <1>2, <1>3 DEF HandleSave, Stores
<1>4. ASSUME HandleSave("subject")
      PROVE  FlowWrite
  BY <1>4, FlowOfSave
<1>5. ASSUME NEW m \in Managers, StoreFails(m) \/ PutInfo(m) \/ CommitTick(m)
      PROVE  FlowQuiet
  <2>1. /\ UNCHANGED <<store, queue, life, cur, op_id>>
        /\ at'["subject"] = "loop" <=> at["subject"] = "loop"
    BY <1>1, <1>5 DEF StoreFails, PutInfo, CommitTick, managerVars
  <2> QED
    BY <1>2, <2>1
<1>6. CASE Push
  BY <1>1, <1>6 DEF Push, FlowPush, Flow
<1>7. CASE PushThrows
  BY <1>1, <1>7 DEF PushThrows, FlowLose, Flow
<1>8. CASE Restart
  BY <1>1, <1>8 DEF Restart, FlowRestart, Flow
<1>9. CASE UNCHANGED <<store, queue, life, managerVars>>
  BY <1>2, <1>9 DEF managerVars
<1> QED
  BY <1>1, <1>3, <1>4, <1>5, <1>6, <1>7, <1>8, <1>9
     DEF Next, Step, vars, Request, Authenticate, InitTicket, InitPermission,
         SaveTicket, CallFind, AddToTransaction, Refuse, SaveRemove, SaveAnswered,
         TicketAnswered, HandleFind, HandleAcl, CommitAcl
-----------------------------------------------------------------------------
(***************************************************************************)
(* The storage process implements StoreLog.                                *)
(***************************************************************************)
Versions == [w \in AllUris |-> store[w].ctr]
Briefs(f) == [k \in DOMAIN f |-> Brief(f[k])]

\* The abstract log when a record is added.
LEMMA BriefAppend ==
  ASSUME NEW f \in Seq(Rec), NEW r \in Rec
  PROVE  LET g == Briefs(Append(f, r)) IN
         /\ g = Append(Briefs(f), Brief(r))
         /\ Len(g) = Len(f) + 1 /\ g[Len(g)] = Brief(r)
         /\ SubSeq(g, 1, Len(g) - 1) = Briefs(f)
<1> DEFINE B == {Brief(x) : x \in Rec}
           bf == [k \in 1 .. Len(f) |-> Brief(f[k])]
<1>1. /\ Append(f, r) \in Seq(Rec) /\ Len(Append(f, r)) = Len(f) + 1 /\ Len(f) \in Nat
      /\ \A k \in 1 .. Len(f) : Append(f, r)[k] = f[k] /\ f[k] \in Rec
      /\ Append(f, r)[Len(f) + 1] = r
      /\ DOMAIN f = 1 .. Len(f) /\ DOMAIN Append(f, r) = 1 .. Len(f) + 1
  BY AppendFacts
<1>2. Briefs(f) = bf /\ bf \in Seq(B) /\ Len(bf) = Len(f) /\ Brief(r) \in B
  BY <1>1 DEF Briefs
<1>3. /\ DOMAIN Briefs(Append(f, r)) = 1 .. Len(f) + 1
      /\ \A k \in 1 .. Len(f) : Briefs(Append(f, r))[k] = bf[k]
      /\ Briefs(Append(f, r))[Len(f) + 1] = Brief(r)
      /\ Briefs(Append(f, r)) \in Seq(B)
  BY <1>1 DEF Briefs
<1> HIDE DEF bf, B
<1>4. /\ Append(bf, Brief(r)) \in Seq(B) /\ Len(Append(bf, Brief(r))) = Len(f) + 1
      /\ \A k \in 1 .. Len(f) : Append(bf, Brief(r))[k] = bf[k]
      /\ Append(bf, Brief(r))[Len(f) + 1] = Brief(r)
  BY <1>2, AppendFacts
<1>5. Briefs(Append(f, r)) = Append(bf, Brief(r))
  <2>1. Len(Briefs(Append(f, r))) = Len(f) + 1
    BY <1>1, <1>3
  <2>2. \A k \in 1 .. Len(f) + 1 : Briefs(Append(f, r))[k] = Append(bf, Brief(r))[k]
    BY <1>1, <1>3, <1>4
  <2> QED
    BY <1>3, <1>4, <2>1, <2>2, SeqEqual
<1>6. Len(Append(bf, Brief(r))) = Len(f) + 1 /\ Append(bf, Brief(r))[Len(f) + 1] = Brief(r)
      /\ SubSeq(Append(bf, Brief(r)), 1, Len(f)) = bf
  BY <1>1, <1>2
<1> QED
  BY <1>1, <1>2, <1>5, <1>6

\* Each step of the storage process is a step of the abstract store, or none.
LEMMA LogStep ==
  ASSUME BaseInv, [Next]_vars
  PROVE  [Log!Next]_<<Versions, Briefs(Flow), at["subject"] # "loop", life,
                      "push" \notin setting.failures>>
<1>1. /\ TypeInv /\ UNCHANGED setting /\ store \in [AllUris -> State]
      /\ queue \in Seq(Rec)
  BY FlowType DEF BaseInv, TypeInv, DataType, Next, vars
<1>2. CASE FlowQuiet
  BY <1>1, <1>2 DEF FlowQuiet, Versions
<1>3. CASE FlowWrite
  <2> DEFINE it == Box[1].item
             r == Record(it, op_id["subject"] + 1, life)
             g == Briefs(Append(queue, r))
  <2>1. /\ it \in Item /\ it.uri \in AllUris /\ op_id["subject"] + 1 \in Nat /\ life \in Nat
        /\ Flow' = Append(queue, r) /\ Flow = queue /\ UNCHANGED life
        /\ store' = IF it.target = "all" THEN [store EXCEPT ![it.uri] = it.new] ELSE store
        /\ at["subject"] = "loop" /\ at'["subject"] # "loop"
    BY <1>1, <1>3 DEF FlowWrite, TypeInv, DataType
  <2>2. it.prev.ctr = store[it.uri].ctr
    BY <1>3 DEF FlowWrite, BaseInv, VersionInv, SavesAreFresh
  <2>3. /\ r \in Rec /\ r.item.uri = it.uri /\ r.item.prev = it.prev
        /\ r.item.new = it.new /\ r.item.target = it.target /\ r.part = life
    BY <2>1, RecordFacts
  <2> HIDE DEF it, r
  <2>4. /\ Brief(r).uri = it.uri /\ Brief(r).prev = it.prev.ctr
        /\ Brief(r).new = it.new.ctr /\ Brief(r).stored = (it.target = "all")
        /\ Brief(r).part = life
    BY <2>3 DEF Brief
  <2>5. g = Append(Briefs(Flow), Brief(r)) /\ g[Len(g)] = Brief(r) /\ Briefs(Flow)' = g
    BY <1>1, <2>1, <2>3, BriefAppend
  <2>6. Versions' = IF it.target = "all" THEN [Versions EXCEPT ![it.uri] = it.new.ctr]
                                         ELSE Versions
    BY <1>1, <2>1 DEF Versions
  <2>7. Versions[it.uri] = it.prev.ctr
    BY <2>1, <2>2 DEF Versions
  <2> HIDE DEF g
  <2>8. Log!Write
    <3> DEFINE b == Brief(r)
    <3>1. /\ Briefs(Flow)'[Len(Briefs(Flow)')] = b /\ Briefs(Flow)' = Append(Briefs(Flow), b)
          /\ b.uri \in AllUris /\ b.prev = Versions[b.uri] /\ b.part = life
      BY <2>1, <2>4, <2>5, <2>7
    <3>2. Versions' = IF b.stored THEN [Versions EXCEPT ![b.uri] = b.new] ELSE Versions
      BY <2>4, <2>6
    <3>3. (at["subject"] # "loop")' = TRUE /\ (at["subject"] # "loop") = FALSE /\ UNCHANGED life
      BY <2>1
    <3> HIDE DEF b
    <3> QED
      BY <3>1, <3>2, <3>3, Zenon DEF Log!Write, Versions, Briefs
  <2> QED
    BY <1>1, <2>8 DEF Log!Next
<1>4. CASE FlowPush
  <2>1. Log!Settle
    BY <1>1, <1>4 DEF FlowPush, Log!Settle, Versions
  <2> QED
    BY <1>1, <2>1 DEF Log!Next
<1>5. ASSUME at["subject"] # "loop"
      PROVE  SubSeq(Briefs(Flow), 1, Len(Briefs(Flow)) - 1) = Briefs(queue)
  <2>1. Flow = Append(queue, InHand)
    BY <1>5 DEF Flow
  <2> QED
    BY <1>1, <1>5, <2>1, InHandFacts, BriefAppend
<1>6. CASE FlowLose
  <2>1. Log!Lose
    BY <1>1, <1>5, <1>6 DEF FlowLose, Log!Lose, Log!Settled, Versions, Briefs
  <2> QED
    BY <1>1, <2>1 DEF Log!Next
<1>7. CASE FlowRestart
  <2>2. at["subject"] = "loop" => Flow = queue
    BY DEF Flow
  <2>1. Log!Restart
    BY <1>1, <1>5, <1>7, <2>2 DEF FlowRestart, Log!Restart, Log!Settled, Versions, Briefs
  <2> QED
    BY <1>1, <2>1 DEF Log!Next
<1> QED
  BY <1>1, <1>2, <1>3, <1>4, <1>6, <1>7, FlowStep

\* The storage process implements the store with a log, for any individuals
\* and requests, both client threads, any crashes and failures: a change and
\* its record are one step made on the newest version, and no record but the
\* one in hand is ever lost.
THEOREM StoreIsLogTheorem == Spec => StoreIsLog
<1>1. Init => Log!Init
  <2> SUFFICES ASSUME Init PROVE Log!Init
    OBVIOUS
  <2>1. at["subject"] = "loop" /\ queue = <<>> /\ Flow = <<>> /\ life = 0
    BY DEF Init, Flow, Managers
  <2>2. [w \in AllUris |-> store[w].ctr] = [w \in AllUris |-> 0]
    BY DEF Init, Null
  <2>3. [k \in DOMAIN Flow |-> Brief(Flow[k])] = <<>>
    BY <2>1
  <2> QED
    BY <2>1, <2>2, <2>3 DEF Log!Init
<1>2. BaseInv /\ [Next]_vars =>
        [Log!Next]_<<[w \in AllUris |-> store[w].ctr],
                     [k \in DOMAIN Flow |-> Brief(Flow[k])],
                     at["subject"] # "loop", life, "push" \notin setting.failures>>
  BY LogStep DEF Versions, Briefs
<1> QED
  BY <1>1, <1>2, BaseInit, BaseStep, PTL DEF Spec, StoreIsLog, Log!Spec
-----------------------------------------------------------------------------
(***************************************************************************)
(* Calls.                                                                  *)
(***************************************************************************)

\* A step leaves the other threads alone.
Others(t) == \A w \in Threads \ {t} :
  pc'[w] = pc[w] /\ job'[w].req = job[w].req /\ mbox'[w] = mbox[w]

\* A thread without a call under way.
LEMMA CallFree ==
  ASSUME TypeInv, CallBody, NEW t \in Threads,
         pc[t] \in {"idle", "item", "found"} \/ mbox[t] # <<>>
  PROVE  Free(t) /\ (pc[t] \in {"idle", "item", "found"} => mbox[t] = <<>>)
<1>1. mbox[t] = <<>> \/ pc[t] \in {"save", "remove", "ticket"}
  BY DEF CallBody, CallAnswered, AnswerFits
<1>2. Free(t)
  BY DEF Free, CallBody, CallPending, PendingFits
<1> QED
  BY <1>1, <1>2

\* It goes on without a message.
LEMMA CallIdle ==
  ASSUME TypeInv, CallBody, UNCHANGED <<setting, inbox>>, NEW t \in Threads,
         Free(t), Others(t), AnswerFits(t)'
  PROVE  CallBody'
<1>1. Threads' = Threads
  BY DEF Threads
<1>2. CallPending'
  <2> SUFFICES ASSUME NEW m \in Managers, NEW k \in 1 .. Len(inbox[m]), NEW msg,
                      msg = inbox[m][k]
               PROVE  PendingFits(m, msg)'
    BY DEF CallPending, PendingFits
  <2>1. msg.from \in Threads /\ msg.from # t
    BY DEF TypeInv, MailType, MsgOK, Free
  <2>2. PendingFits(m, msg)
    BY DEF CallBody, CallPending
  <2> QED
    BY <2>1, <2>2 DEF PendingFits, Others
<1>3. OneCall'
  BY DEF CallBody, OneCall
<1>4. CallAnswered'
  BY <1>1 DEF CallBody, CallAnswered, AnswerFits, Others
<1> QED
  BY <1>2, <1>3, <1>4 DEF CallBody

\* It sends a message.
LEMMA CallSend ==
  ASSUME TypeInv, CallBody, UNCHANGED setting, NEW t \in Threads, Free(t), Others(t),
         NEW m \in Managers, NEW msg \in FindMsg \cup SaveMsg, msg.from = t,
         inbox' = [inbox EXCEPT ![m] = Append(@, msg)], PendingFits(m, msg)'
  PROVE  CallBody'
<1>1. Threads' = Threads /\ inbox \in [Managers -> Seq(FindMsg \cup SaveMsg)]
      /\ inbox'[m] = Append(inbox[m], msg)
  BY DEF Threads, TypeInv, MailType
<1>2. /\ Len(inbox[m]) \in Nat /\ Len(inbox'[m]) = Len(inbox[m]) + 1
      /\ \A k \in 1 .. Len(inbox[m]) : inbox'[m][k] = inbox[m][k]
      /\ inbox'[m][Len(inbox[m]) + 1] = msg
  BY <1>1, AppendFacts
<1>3. \A n \in Managers : n # m => inbox'[n] = inbox[n]
  BY <1>1
<1>4. CallPending'
  <2> SUFFICES ASSUME NEW n \in Managers, NEW k \in 1 .. Len(inbox'[n]), NEW x,
                      x = inbox'[n][k]
               PROVE  PendingFits(n, x)'
    BY DEF CallPending, PendingFits
  <2>1. CASE n = m /\ k = Len(inbox[m]) + 1
    BY <1>2, <2>1
  <2>2. CASE k \in 1 .. Len(inbox[n]) /\ x = inbox[n][k]
    <3>1. x.from \in Threads /\ x.from # t
      BY <2>2 DEF TypeInv, MailType, MsgOK, Free
    <3>2. PendingFits(n, x)
      BY <2>2 DEF CallBody, CallPending
    <3> QED
      BY <3>1, <3>2 DEF PendingFits, Others
  <2> QED
    BY <1>2, <1>3, <2>1, <2>2
<1>5. OneCall'
  <2> SUFFICES ASSUME NEW n \in Managers, NEW j \in 1 .. Len(inbox'[n]),
                      NEW k \in 1 .. Len(inbox'[n]), inbox'[n][j].from = inbox'[n][k].from
               PROVE  j = k
    BY DEF OneCall
  <2>1. CASE n # m
    BY <1>3, <2>1 DEF CallBody, OneCall
  <2>2. CASE n = m
    BY <1>2, <2>2 DEF CallBody, OneCall, Free
  <2> QED
    BY <2>1, <2>2
<1>6. AnswerFits(t)'
  BY DEF AnswerFits, PendingFits
<1>7. CallAnswered'
  BY <1>1, <1>6 DEF CallBody, CallAnswered, AnswerFits, Others
<1> QED
  BY <1>4, <1>5, <1>7 DEF CallBody

\* A manager takes its message.
LEMMA CallTake ==
  ASSUME TypeInv, CallBody, UNCHANGED setting, NEW m \in Managers, inbox[m] # <<>>,
         inbox' = [inbox EXCEPT ![m] = Tail(@)],
         NEW t \in Threads, t = Head(inbox[m]).from, Others(t), AnswerFits(t)'
  PROVE  CallBody' /\ Free(t)'
<1>1. Threads' = Threads /\ inbox \in [Managers -> Seq(FindMsg \cup SaveMsg)]
      /\ inbox'[m] = Tail(inbox[m]) /\ \A n \in Managers : n # m => inbox'[n] = inbox[n]
  BY DEF Threads, TypeInv, MailType
<1>2. /\ Len(inbox[m]) \in Nat /\ 1 \in 1 .. Len(inbox[m]) /\ Head(inbox[m]) = inbox[m][1]
      /\ \A k \in 1 .. Len(inbox'[m]) :
           k \in Nat /\ k + 1 \in 1 .. Len(inbox[m]) /\ inbox'[m][k] = inbox[m][k + 1]
  BY <1>1, TailFacts
<1>3. PendingFits(m, inbox[m][1])
  BY <1>2 DEF CallBody, CallPending
<1>4. ASSUME NEW n \in Managers, NEW k \in 1 .. Len(inbox'[n])
      PROVE  inbox'[n][k].from # t
  <2>1. CASE n = m
    BY <1>2, <2>1 DEF CallBody, OneCall
  <2>2. CASE n # m
    <3>1. PendingFits(n, inbox[n][k]) /\ inbox'[n][k] = inbox[n][k]
      BY <1>1, <1>4, <2>2 DEF CallBody, CallPending
    <3>2. MsgOK("ticket", inbox["ticket"][k]) \/ n # "ticket"
      BY <1>1, <1>4, <2>2 DEF TypeInv, MailType
    <3>3. MsgOK("ticket", inbox["ticket"][1]) \/ m # "ticket"
      BY <1>2 DEF TypeInv, MailType
    <3>4. n \in {"subject", "ticket"} /\ m \in {"subject", "ticket"}
      BY DEF Managers
    <3> QED
      BY <1>2, <1>3, <2>2, <3>1, <3>2, <3>3, <3>4 DEF PendingFits, MsgOK
  <2> QED
    BY <2>1, <2>2
<1>5. CallPending'
  <2> SUFFICES ASSUME NEW n \in Managers, NEW k \in 1 .. Len(inbox'[n]), NEW x,
                      x = inbox'[n][k]
               PROVE  PendingFits(n, x)'
    BY DEF CallPending, PendingFits
  <2>1. \E j \in 1 .. Len(inbox[n]) : x = inbox[n][j]
    BY <1>1, <1>2
  <2>2. x.from \in Threads /\ x.from # t
    BY <1>4, <2>1 DEF TypeInv, MailType, MsgOK
  <2>3. PendingFits(n, x)
    BY <2>1 DEF CallBody, CallPending
  <2> QED
    BY <2>2, <2>3 DEF PendingFits, Others
<1>6. OneCall'
  <2> SUFFICES ASSUME NEW n \in Managers, NEW j \in 1 .. Len(inbox'[n]),
                      NEW k \in 1 .. Len(inbox'[n]), inbox'[n][j].from = inbox'[n][k].from
               PROVE  j = k
    BY DEF OneCall
  <2>1. CASE n # m
    BY <1>1, <2>1 DEF CallBody, OneCall
  <2>2. CASE n = m
    <3>1. j + 1 = k + 1
      BY <1>2, <2>2 DEF CallBody, OneCall
    <3> QED
      BY <1>2, <2>2, <3>1
  <2> QED
    BY <2>1, <2>2
<1>7. CallAnswered'
  BY <1>1 DEF CallBody, CallAnswered, AnswerFits, Others
<1> QED
  BY <1>4, <1>5, <1>6, <1>7 DEF CallBody, Free

\* A thread notes the number of its save().
LEMMA ReqFacts ==
  ASSUME TypeInv, NEW t \in Threads, NEW n \in Nat, job' = [job EXCEPT ![t].req = n]
  PROVE  /\ job'[t].req = n /\ job'[t].cmd = job[t].cmd /\ job'[t].no = job[t].no
         /\ job'[t].uris = job[t].uris /\ job'[t].target = job[t].target
         /\ \A w \in Threads \ {t} : job'[w] = job[w]
<1>1. job \in [Threads -> Jobs]
  BY DEF TypeInv, ClientType
<1>2. job' = [job EXCEPT ![t] = [job[t] EXCEPT !.req = n]]
  OBVIOUS
<1> DEFINE x == [job[t] EXCEPT !.req = n]
<1>3. /\ x.req = n /\ x.cmd = job[t].cmd /\ x.no = job[t].no
      /\ x.uris = job[t].uris /\ x.target = job[t].target
  BY <1>1 DEF Jobs
<1> HIDE DEF x
<1>4. job' = [job EXCEPT ![t] = x]
  BY <1>2 DEF x
<1> QED
  BY <1>1, <1>3, <1>4

\* An individual is done with.
LEMMA AnswerFacts ==
  ASSUME TypeInv, NEW t \in Threads, NEW rc, NEW op, Answer(t, rc, op)
  PROVE  /\ job'[t].req = job[t].req /\ job'[t].cmd = job[t].cmd
         /\ job'[t].no = job[t].no
         /\ pc'[t] \in {"idle", "item"}
         /\ tnx'[t] = IF tnx[t] <= 0 THEN op ELSE tnx[t]
         /\ \A w \in Threads \ {t} :
              job'[w] = job[w] /\ pc'[w] = pc[w] /\ tnx'[w] = tnx[w]
<1>1. job \in [Threads -> Jobs] /\ pc \in [Threads -> Places] /\ tnx \in [Threads -> Int]
  BY DEF TypeInv, ClientType
<1>2. job' = [job EXCEPT ![t] = [job[t] EXCEPT !.uris = Tail(job[t].uris)]]
      /\ tnx' = [tnx EXCEPT ![t] = IF tnx[t] <= 0 THEN op ELSE tnx[t]]
      /\ pc' = [pc EXCEPT ![t] = IF Len(job[t].uris) = 1 THEN "idle" ELSE "item"]
  BY DEF Answer
<1> DEFINE x == [job[t] EXCEPT !.uris = Tail(job[t].uris)]
<1>3. x.req = job[t].req /\ x.cmd = job[t].cmd /\ x.no = job[t].no
  BY <1>1 DEF Jobs
<1> HIDE DEF x
<1>4. job' = [job EXCEPT ![t] = x]
  BY <1>2 DEF x
<1> QED
  BY <1>1, <1>2, <1>3, <1>4

\* A thread takes the result of its call.
LEMMA ResultTaken ==
  ASSUME TypeInv, CallBody, NEW t \in Threads, mbox[t] # <<>>,
         mbox' = [mbox EXCEPT ![t] = Tail(@)]
  PROVE  /\ mbox'[t] = <<>> /\ Free(t) /\ \A w \in Threads \ {t} : mbox'[w] = mbox[w]
         /\ Head(mbox[t]) = mbox[t][1]
<1>1. mbox \in [Threads -> Seq(Codes)] /\ Len(mbox[t]) = 1
  BY DEF TypeInv, MailType, CallBody, CallAnswered, AnswerFits
<1>2. Tail(mbox[t]) = <<>> /\ Head(mbox[t]) = mbox[t][1]
  BY <1>1, TailFacts
<1> QED
  BY <1>1, <1>2, CallFree

\* A manager answers the save() it has taken: the mailbox was empty.
LEMMA ResultSent ==
  ASSUME TypeInv, CallBody, NEW m \in Managers, Handles(m, "save"),
         NEW rc \in {"Ok", "FailStore"}, Reply(Sender(m), m, rc), UNCHANGED <<pc, job>>,
         NEW t, t = Sender(m)
  PROVE  /\ t \in Threads /\ t = Head(inbox[m]).from
         /\ Others(t) /\ AnswerFits(t)'
         /\ mbox'[t] # <<>> /\ mbox'[t][1].rc = rc
         /\ m = "subject" => pc[t] \in {"save", "remove"}
                              /\ Head(inbox[m]).item.req = job[t].req
         /\ m = "ticket" => pc[t] = "ticket"
<1>1. /\ inbox[m] # <<>> /\ Head(inbox[m]).kind = "save" /\ t = Head(inbox[m]).from
      /\ m \in {"subject", "ticket"}
  BY DEF Handles, Sender, Managers
<1>2. t \in Threads /\ Head(inbox[m]) = inbox[m][1] /\ 1 \in 1 .. Len(inbox[m])
  BY <1>1, HeadOfBox
<1>3. PendingFits(m, inbox[m][1]) /\ inbox[m][1].from = t
  BY <1>1, <1>2 DEF CallBody, CallPending
<1>4. mbox \in [Threads -> Seq(Codes)] /\ [rc |-> rc, from |-> m] \in Codes
  BY DEF TypeInv, MailType, Codes
<1>5. mbox[t] = <<>> /\ mbox' = [mbox EXCEPT ![t] = Append(@, [rc |-> rc, from |-> m])]
  BY <1>3 DEF PendingFits, Reply
<1>6. mbox'[t] = <<[rc |-> rc, from |-> m]>> /\ \A w \in Threads \ {t} : mbox'[w] = mbox[w]
  BY <1>2, <1>4, <1>5
<1>7. /\ m = "subject" => pc[t] \in {"save", "remove"} /\ Head(inbox[m]).item.req = job[t].req
      /\ m = "ticket" => pc[t] = "ticket"
  BY <1>1, <1>2, <1>3 DEF PendingFits
<1>8. AnswerFits(t)' /\ mbox'[t] # <<>> /\ mbox'[t][1].rc = rc
  BY <1>1, <1>6, <1>7 DEF AnswerFits
<1>9. Others(t)
  BY <1>6 DEF Others
<1> QED
  BY <1>1, <1>2, <1>7, <1>8, <1>9

\* No step but the throw of the queue brings a thread a second call or a
\* result that is not its own.
LEMMA CallStep ==
  ASSUME TypeInv, CallInv, [Next]_vars
  PROVE  CallInv'
<1> SUFFICES ASSUME Calm, CallBody PROVE CallBody'
  <2>1. Calm' <=> Calm
    BY DEF Calm, Next, vars
  <2> QED
    BY <2>1 DEF CallInv
<1>1. /\ UNCHANGED setting /\ Managers = {"subject", "ticket"} /\ Threads' = Threads
      /\ pc \in [Threads -> Places] /\ job \in [Threads -> Jobs]
      /\ "n_channel" \in Threads /\ Threads \subseteq {"n_channel", "init"}
      /\ mbox \in [Threads -> Seq(Codes)] /\ saves + 1 \in Nat
  BY SettingFacts DEF Next, vars, Managers, Threads, TypeInv, ClientType, MailType, DataType
<1>2. ASSUME NEW t \in Threads, pc[t] = "idle", pc' = [pc EXCEPT ![t] = "item"],
             NEW j, job' = [job EXCEPT ![t] = j], UNCHANGED <<mbox, inbox>>
      PROVE  CallBody'
  BY <1>1, <1>2, CallFree, CallIdle DEF Others, AnswerFits
<1>3. ASSUME NEW t \in Threads, SaveTicket(t), pc[t] = "idle"
      PROVE  CallBody'
  <2> DEFINE it == [cmd |-> "put", uri |-> "ticket", prev |-> Null, new |-> Null,
                    tnx |-> -1, target |-> "all", no |-> 0, req |-> saves + 1]
  <2>1. it \in Item
    BY <1>1 DEF Item, Null, State
  <2>2. /\ inbox' = [inbox EXCEPT !["ticket"] = Append(@, Save(t, it))]
        /\ pc' = [pc EXCEPT ![t] = "ticket"] /\ UNCHANGED <<job, mbox>>
    BY <1>3 DEF SaveTicket, SendSave
  <2> HIDE DEF it
  <2>3. Save(t, it) \in SaveMsg /\ Save(t, it).from = t /\ Save(t, it).kind = "save"
    BY <1>1, <2>1 DEF Save, SaveMsg
  <2>4. Free(t) /\ mbox[t] = <<>> /\ Others(t)
    BY <1>1, <1>3, <2>2, CallFree DEF Others
  <2>5. PICK x : x = Save(t, it)
    OBVIOUS
  <2>6. PendingFits("ticket", x)'
    BY <1>1, <2>2, <2>3, <2>4, <2>5 DEF PendingFits
  <2> QED
    BY <1>1, <2>2, <2>3, <2>4, <2>5, <2>6, CallSend
<1>4. ASSUME NEW t \in Threads, CallFind(t)
      PROVE  CallBody'
  <2> DEFINE msg == Find(t, Uri(t))
  <2>1. /\ inbox' = [inbox EXCEPT !["subject"] = Append(@, msg)]
        /\ pc' = [pc EXCEPT ![t] = "find"] /\ UNCHANGED <<job, mbox>> /\ pc[t] = "item"
    BY <1>4 DEF CallFind
  <2>2. msg \in FindMsg /\ msg.from = t /\ msg.kind = "find"
    BY <1>1, <2>1, UriFacts DEF Find, FindMsg
  <2>3. Free(t) /\ mbox[t] = <<>> /\ Others(t)
    BY <1>1, <2>1, CallFree DEF Others
  <2>4. PICK x : x = msg
    OBVIOUS
  <2> HIDE DEF msg
  <2>5. PendingFits("subject", x)'
    BY <1>1, <2>1, <2>2, <2>3, <2>4 DEF PendingFits
  <2> QED
    BY <1>1, <2>1, <2>2, <2>3, <2>4, <2>5, CallSend
<1>5. ASSUME NEW t \in Threads, NEW it \in Item, it.req = saves + 1, Free(t),
             SendSave(t, "subject", it), NEW p \in {"save", "remove"},
             pc' = [pc EXCEPT ![t] = p], job' = [job EXCEPT ![t].req = saves + 1],
             mbox'[t] = <<>>, \A w \in Threads \ {t} : mbox'[w] = mbox[w]
      PROVE  CallBody'
  <2>1. inbox' = [inbox EXCEPT !["subject"] = Append(@, Save(t, it))]
    BY <1>5 DEF SendSave
  <2>2. Save(t, it) \in SaveMsg /\ Save(t, it).from = t /\ Save(t, it).kind = "save"
        /\ Save(t, it).item = it
    BY <1>1 DEF Save, SaveMsg
  <2>3. job'[t].req = saves + 1 /\ \A w \in Threads \ {t} : job'[w] = job[w]
    BY <1>1, <1>5, ReqFacts
  <2>4. Others(t)
    BY <1>1, <1>5, <2>3 DEF Others
  <2>5. PICK x : x = Save(t, it)
    OBVIOUS
  <2>6. PendingFits("subject", x)'
    BY <1>1, <1>5, <2>2, <2>3, <2>5 DEF PendingFits
  <2> QED
    BY <1>1, <1>5, <2>1, <2>2, <2>4, <2>5, <2>6, CallSend
<1>6. ASSUME NEW t \in Threads, AddToTransaction(t)
      PROVE  CallBody'
  <2>1. PICK p \in {"save", "remove"} : pc' = [pc EXCEPT ![t] = p]
    BY <1>6 DEF AddToTransaction
  <2>2. /\ pc[t] = "found" /\ SendSave(t, "subject", FirstItem(t)) /\ UNCHANGED mbox
        /\ job' = [job EXCEPT ![t].req = saves + 1]
    BY <1>6 DEF AddToTransaction
  <2>3. FirstItem(t) \in Item /\ FirstItem(t).req = saves + 1
    BY <2>2, FirstItemFacts
  <2>4. Free(t) /\ mbox[t] = <<>>
    BY <2>2, CallFree
  <2> QED
    BY <1>5, <2>1, <2>2, <2>3, <2>4
<1>7. ASSUME NEW t \in Threads, NEW rc, NEW op, Answer(t, rc, op), Free(t),
             UNCHANGED inbox, mbox'[t] = <<>>, \A w \in Threads \ {t} : mbox'[w] = mbox[w]
      PROVE  CallBody'
  <2>1. Others(t)
    BY <1>7, AnswerFacts DEF Others
  <2> QED
    BY <1>1, <1>7, <2>1, CallIdle DEF AnswerFits
<1>8. ASSUME NEW t \in Threads, Refuse(t)
      PROVE  CallBody'
  BY <1>7, <1>8, CallFree DEF Refuse
<1>9. ASSUME NEW t \in Threads, SaveRemove(t)
      PROVE  CallBody'
  <2>1. /\ mbox'[t] = <<>> /\ Free(t) /\ \A w \in Threads \ {t} : mbox'[w] = mbox[w]
    BY <1>9, ResultTaken DEF SaveRemove
  <2>2. CASE Received(t, "subject") = "Ok"
    <3> DEFINE it == TransactionItem(t, "remove", Null)
    <3>1. /\ SendSave(t, "subject", it) /\ job' = [job EXCEPT ![t].req = saves + 1]
          /\ pc' = [pc EXCEPT ![t] = "save"] /\ pc[t] = "remove"
      BY <1>9, <2>2 DEF SaveRemove
    <3>2. Null \in State
      BY DEF Null, State
    <3>3. it \in Item /\ it.req = saves + 1
      BY <3>1, <3>2, ItemFacts
    <3> HIDE DEF it
    <3> QED
      BY <1>5, <2>1, <3>1, <3>3
  <2>3. CASE Received(t, "subject") # "Ok"
    BY <1>7, <1>9, <2>1, <2>3 DEF SaveRemove
  <2> QED
    BY <2>2, <2>3
<1>10. ASSUME NEW t \in Threads, SaveAnswered(t)
       PROVE  CallBody'
  BY <1>7, <1>10, ResultTaken DEF SaveAnswered
<1>11. ASSUME NEW t \in Threads, TicketAnswered(t)
       PROVE  CallBody'
  <2>1. /\ mbox'[t] = <<>> /\ Free(t) /\ (\A w \in Threads \ {t} : mbox'[w] = mbox[w])
        /\ pc' = [pc EXCEPT ![t] = "idle"] /\ UNCHANGED <<inbox, job>>
    BY <1>11, ResultTaken DEF TicketAnswered
  <2> QED
    BY <1>1, <2>1, CallIdle DEF Others, AnswerFits
<1>12. CASE HandleFind
  <2> DEFINE msg == Head(inbox["subject"])
  <2>1. /\ inbox["subject"] # <<>> /\ inbox' = [inbox EXCEPT !["subject"] = Tail(@)]
        /\ msg.kind = "find" /\ pc' = [pc EXCEPT ![msg.from] = "found"]
        /\ UNCHANGED <<job, mbox>>
    BY <1>12 DEF HandleFind, Handles
  <2>2. msg.from \in Threads /\ msg = inbox["subject"][1] /\ 1 \in 1 .. Len(inbox["subject"])
    BY <1>1, <2>1, HeadOfBox
  <2>3. PendingFits("subject", msg)
    BY <1>1, <2>2 DEF CallBody, CallPending
  <2>4. PICK t \in Threads : t = msg.from
    BY <2>2
  <2>5. Others(t) /\ AnswerFits(t)'
    BY <1>1, <2>1, <2>3, <2>4 DEF Others, AnswerFits, PendingFits
  <2> HIDE DEF msg
  <2> QED
    BY <1>1, <2>1, <2>4, <2>5, CallTake DEF msg
<1>13. ASSUME NEW m \in Managers, HandleSave(m) \/ StoreFails(m)
       PROVE  CallBody'
  <2>1. /\ Handles(m, "save") /\ inbox[m] # <<>> /\ inbox' = [inbox EXCEPT ![m] = Tail(@)]
        /\ UNCHANGED <<pc, job>>
        /\ \E rc \in {"Ok", "FailStore"} : Reply(Sender(m), m, rc)
    BY <1>13 DEF HandleSave, StoreFails, Handles, clientVars
  <2>2. PICK t \in Threads : t = Head(inbox[m]).from /\ Others(t) /\ AnswerFits(t)'
    <3>1. PICK t : t = Sender(m)
      OBVIOUS
    <3>2. t \in Threads /\ t = Head(inbox[m]).from /\ Others(t) /\ AnswerFits(t)'
      BY <2>1, <3>1, ResultSent
    <3> QED
      BY <3>2
  <2> QED
    BY <1>1, <2>1, <2>2, CallTake
<1>14. CASE PushThrows
  BY <1>14 DEF PushThrows, Calm
<1>15. CASE Restart
  <2>1. (\A t \in Threads : mbox'[t] = <<>>) /\ (\A m \in Managers : inbox'[m] = <<>>)
        /\ Len(<<>>) = 0
    BY <1>1, <1>15, EmptySeq DEF Restart
  <2> QED
    BY <1>1, <2>1 DEF CallBody, CallPending, OneCall, CallAnswered, AnswerFits
<1>16. CASE UNCHANGED <<pc, job, mbox, inbox>>
  BY <1>1, <1>16 DEF CallBody, CallPending, OneCall, CallAnswered, AnswerFits, PendingFits
<1>17. CASE \/ \E c \in setting.commands, us \in Lists, tg \in setting.targets :
                 Request(c, us, tg)
            \/ InitPermission
  BY <1>1, <1>2, <1>17 DEF Request, InitPermission
<1>18. CASE Authenticate \/ InitTicket
  BY <1>1, <1>3, <1>18 DEF Authenticate, InitTicket
<1>19. CASE UNCHANGED vars
  BY <1>16, <1>19 DEF vars, clientVars
<1> QED
  BY <1>4, <1>6, <1>8, <1>9, <1>10, <1>11, <1>12, <1>13, <1>14, <1>15, <1>16, <1>17,
     <1>18, <1>19
     DEF Next, Step, PutInfo, CommitTick, Push, HandleAcl, CommitAcl, clientVars

\* The steps of a client thread.
ClientMove(t) ==
  \/ /\ t = "n_channel"
     /\ \/ \E c \in setting.commands, us \in Lists, tg \in setting.targets :
             Request(c, us, tg)
        \/ Authenticate
  \/ t = "init" /\ (InitTicket \/ InitPermission)
  \/ CallFind(t) \/ AddToTransaction(t) \/ Refuse(t)
  \/ SaveRemove(t) \/ SaveAnswered(t) \/ TicketAnswered(t)

\* They have no message on its way before, and no result in the mailbox after.
LEMMA ClientMoveFacts ==
  ASSUME TypeInv, CallBody, NEW t \in Threads, ClientMove(t)
  PROVE  /\ Others(t) /\ mbox'[t] = <<>> /\ Free(t)
         /\ \A w \in Threads \ {t} : job'[w] = job[w] /\ tnx'[w] = tnx[w]
         /\ UNCHANGED <<store, queue, life, managerVars, subject_manager_op_id, done>>
<1>1. /\ pc \in [Threads -> Places] /\ job \in [Threads -> Jobs]
      /\ tnx \in [Threads -> Int] /\ saves + 1 \in Nat
  BY DEF TypeInv, ClientType, DataType
<1>2. UNCHANGED <<store, queue, life, managerVars, subject_manager_op_id, done>>
  BY DEF ClientMove, Request, Authenticate, InitTicket, InitPermission, SaveTicket,
         CallFind, AddToTransaction, Refuse, SaveRemove, SaveAnswered,
         TicketAnswered, history
<1>3. /\ mbox'[t] = <<>> /\ Free(t) /\ \A w \in Threads \ {t} : mbox'[w] = mbox[w]
  <2>1. CASE pc[t] \in {"idle", "item", "found"}
    <3>1. UNCHANGED mbox
      BY <2>1 DEF ClientMove, Request, Authenticate, InitTicket, InitPermission,
                  SaveTicket, CallFind, AddToTransaction, Refuse, SaveRemove,
                  SaveAnswered, TicketAnswered
    <3> QED
      BY <2>1, <3>1, CallFree
  <2>2. CASE pc[t] \in {"save", "remove", "ticket"}
    <3>1. mbox[t] # <<>> /\ mbox' = [mbox EXCEPT ![t] = Tail(@)]
      BY <2>2 DEF ClientMove, Request, Authenticate, InitTicket, InitPermission,
                  CallFind, AddToTransaction, Refuse, SaveRemove, SaveAnswered,
                  TicketAnswered
    <3> QED
      BY <3>1, ResultTaken
  <2>3. pc[t] # "find"
    BY DEF ClientMove, Request, Authenticate, InitTicket, InitPermission,
           CallFind, AddToTransaction, Refuse, SaveRemove, SaveAnswered, TicketAnswered
  <2> QED
    BY <1>1, <2>1, <2>2, <2>3 DEF Places
<1>4. \A w \in Threads \ {t} : job'[w] = job[w] /\ pc'[w] = pc[w] /\ tnx'[w] = tnx[w]
  <2>1. ASSUME NEW p, pc' = [pc EXCEPT ![t] = p], tnx' = tnx \/ \E x : tnx' = [tnx EXCEPT ![t] = x],
               \/ job' = job
               \/ \E j : job' = [job EXCEPT ![t] = j]
               \/ job' = [job EXCEPT ![t].req = saves + 1]
        PROVE  \A w \in Threads \ {t} : job'[w] = job[w] /\ pc'[w] = pc[w] /\ tnx'[w] = tnx[w]
    <3>1. \A w \in Threads \ {t} : job'[w] = job[w]
      BY <1>1, <2>1, ReqFacts
    <3> QED
      BY <1>1, <2>1, <3>1
  <2>2. ASSUME NEW rc, NEW op, Answer(t, rc, op)
        PROVE  \A w \in Threads \ {t} : job'[w] = job[w] /\ pc'[w] = pc[w] /\ tnx'[w] = tnx[w]
    BY <2>2, AnswerFacts
  <2>3. CASE Refuse(t) \/ SaveAnswered(t)
    BY <2>2, <2>3 DEF Refuse, SaveAnswered
  <2>4. CASE SaveRemove(t) /\ Received(t, "subject") # "Ok"
    BY <2>2, <2>4 DEF SaveRemove
  <2>5. CASE SaveRemove(t) /\ Received(t, "subject") = "Ok"
    BY <2>1, <2>5 DEF SaveRemove
  <2>6. CASE AddToTransaction(t) \/ CallFind(t) \/ TicketAnswered(t)
    BY <2>1, <2>6 DEF AddToTransaction, CallFind, TicketAnswered
  <2>7. CASE t = "init" /\ (InitTicket \/ InitPermission)
    BY <2>1, <2>7 DEF InitTicket, InitPermission, SaveTicket
  <2>8. CASE /\ t = "n_channel"
             /\ \/ \E c \in setting.commands, us \in Lists, tg \in setting.targets :
                     Request(c, us, tg)
                \/ Authenticate
    BY <2>1, <2>8 DEF Request, Authenticate, SaveTicket
  <2> QED
    BY <2>3, <2>4, <2>5, <2>6, <2>7, <2>8 DEF ClientMove
<1> QED
  BY <1>2, <1>3, <1>4 DEF Others

\* Steps that no client sees.
Quiet ==
  /\ UNCHANGED <<clientVars, mbox, inbox, subject_manager_op_id, requests, life, op_id,
                 history, store>>
  /\ Flow' = Flow

\* All steps while the queue does not throw.
LEMMA CalmSteps ==
  ASSUME TypeInv, Calm, [Next]_vars
  PROVE  \/ \E t \in Threads : ClientMove(t)
         \/ HandleFind
         \/ \E m \in Managers : HandleSave(m) \/ StoreFails(m)
         \/ Restart
         \/ Quiet
<1>1. "n_channel" \in Threads
  BY SettingFacts DEF TypeInv
<1>2. ~PushThrows
  BY DEF PushThrows, Calm
<1>3. ASSUME Authenticate \/ \E c \in setting.commands, us \in Lists, tg \in setting.targets :
               Request(c, us, tg)
      PROVE  ClientMove("n_channel")
  BY <1>3 DEF ClientMove
<1>4. ASSUME InitTicket \/ InitPermission
      PROVE  ClientMove("init") /\ "init" \in Threads
  BY <1>4 DEF ClientMove, InitTicket, InitPermission
<1>5. ASSUME NEW t \in Threads, \/ CallFind(t) \/ AddToTransaction(t) \/ Refuse(t)
                                \/ SaveRemove(t) \/ SaveAnswered(t) \/ TicketAnswered(t)
      PROVE  ClientMove(t)
  BY <1>5 DEF ClientMove
<1>6. ASSUME \/ \E m \in Managers : PutInfo(m) \/ CommitTick(m)
             \/ Push \/ HandleAcl \/ CommitAcl \/ UNCHANGED vars
      PROVE  Quiet
  <2>1. UNCHANGED <<clientVars, mbox, inbox, subject_manager_op_id, requests, life, op_id,
                    history, store, cur>>
    BY <1>6 DEF PutInfo, CommitTick, Push, HandleAcl, CommitAcl, vars, managerVars
  <2>2. CASE Push
    <3>1. at["subject"] = "informed" /\ at'["subject"] = "loop"
          /\ queue' = Append(queue, InHand)
      BY <2>2 DEF Push, TypeInv, ManagerType, Managers
    <3>2. Flow' = Flow
      BY <3>1 DEF Flow
    <3> QED
      BY <2>1, <3>2 DEF Quiet
  <2>3. CASE \/ \E m \in Managers : PutInfo(m) \/ CommitTick(m)
             \/ HandleAcl \/ CommitAcl \/ UNCHANGED vars
    <3>1. at \in [Managers -> {"loop", "replied", "informed"}] /\ "subject" \in Managers
      BY DEF TypeInv, ManagerType, Managers
    <3>2. UNCHANGED queue /\ (at'["subject"] = "loop" <=> at["subject"] = "loop")
      BY <2>3, <3>1 DEF PutInfo, CommitTick, HandleAcl, CommitAcl, vars, managerVars
    <3> QED
      BY <2>1, <3>2 DEF Quiet, Flow, InHand
  <2> QED
    BY <1>6, <2>2, <2>3
<1> QED
  BY <1>1, <1>2, <1>3, <1>4, <1>5, <1>6 DEF Next, Step

\* An Ok that is in a mailbox was there before, or the subject manager has just
\* sent it for the save() that the thread waits in.
LEMMA OkStep ==
  ASSUME TypeInv, Calm, CallBody, [Next]_vars, NEW t \in Threads, OkArrived(t)'
  PROVE  /\ job'[t].req = job[t].req /\ pc'[t] = pc[t] /\ pc[t] \in {"save", "remove"}
         /\ \/ OkArrived(t) /\ mbox'[t] = mbox[t] /\ Free(t)
            \/ HandleSave("subject") /\ Box[1].from = t /\ Box[1].item.req = job[t].req
<1>1. pc'[t] \in {"save", "remove"} /\ mbox'[t] # <<>> /\ mbox'[t][1].rc = "Ok"
  BY DEF OkArrived
<1>9. ASSUME mbox'[t] = mbox[t] PROVE Free(t)
  BY <1>1, <1>9, CallFree
<1>2. CASE \E w \in Threads : ClientMove(w)
  BY <1>1, <1>2, <1>9, ClientMoveFacts DEF Others, OkArrived
<1>3. CASE HandleFind
  <2>1. /\ pc' = [pc EXCEPT ![Head(inbox["subject"]).from] = "found"]
        /\ UNCHANGED <<mbox, job>> /\ pc \in [Threads -> Places]
    BY <1>3 DEF HandleFind, TypeInv, ClientType
  <2> QED
    BY <1>1, <1>9, <2>1 DEF OkArrived
<1>4. ASSUME NEW m \in Managers, HandleSave(m) \/ StoreFails(m)
      PROVE  /\ job'[t].req = job[t].req /\ pc'[t] = pc[t] /\ pc[t] \in {"save", "remove"}
             /\ \/ OkArrived(t) /\ mbox'[t] = mbox[t] /\ Free(t)
                \/ HandleSave("subject") /\ Box[1].from = t /\ Box[1].item.req = job[t].req
  <2>1. UNCHANGED <<pc, job>> /\ Handles(m, "save") /\ inbox[m] # <<>>
    BY <1>4 DEF HandleSave, StoreFails, clientVars, Handles
  <2>2. PICK w : w = Sender(m)
    OBVIOUS
  <2>3. CASE w # t
    <3>1. Others(w)
      BY <1>4, <2>1, <2>2, ResultSent DEF HandleSave, StoreFails
    <3> QED
      BY <1>1, <1>9, <2>1, <2>3, <3>1 DEF Others, OkArrived
  <2>4. CASE w = t /\ StoreFails(m)
    <3>2. Reply(Sender(m), m, "FailStore") /\ t = Sender(m)
      BY <2>2, <2>4 DEF StoreFails
    <3>1. mbox'[t][1].rc = "FailStore"
      BY <2>1, <3>2, ResultSent
    <3> QED
      BY <1>1, <3>1
  <2>5. CASE w = t /\ HandleSave(m)
    <3>1. /\ m = "subject" => Head(inbox[m]).item.req = job[t].req
          /\ m = "ticket" => pc[t] = "ticket"
          /\ Head(inbox[m]).from = t
      <4>1. Reply(Sender(m), m, "Ok") /\ t = Sender(m)
        BY <2>2, <2>5 DEF HandleSave
      <4> QED
        BY <2>1, <4>1, ResultSent
    <3>2. m = "subject" /\ Head(inbox[m]) = inbox[m][1]
      BY <1>1, <2>1, <3>1, HeadOfBox DEF Managers
    <3> QED
      BY <1>1, <2>1, <2>5, <3>1, <3>2 DEF Box
  <2> QED
    BY <1>4, <2>3, <2>4, <2>5
<1>5. CASE Restart
  BY <1>1, <1>5 DEF Restart
<1>6. CASE UNCHANGED <<clientVars, mbox>>
  BY <1>1, <1>6, <1>9 DEF clientVars, OkArrived
<1> QED
  BY <1>2, <1>3, <1>4, <1>5, <1>6, CalmSteps DEF Quiet

\* A new answer: an Ok is the one that was in the mailbox.
LEMMA AnswerOfMove ==
  ASSUME TypeInv, CallBody, NEW t \in Threads, ClientMove(t),
         NEW a, a \in answers', a \notin answers
  PROVE  /\ a.req = job[t].req /\ a.life = life /\ answers' = answers \cup {a}
         /\ pc'[t] \in {"idle", "item"} /\ job'[t].req = job[t].req
         /\ a.rc = "Ok" => /\ SaveAnswered(t) /\ OkArrived(t) /\ pc[t] = "save"
                           /\ a.op = subject_manager_op_id
                           /\ a.acl = (job[t].target = "all" /\ IsAcl(Uri(t)))
<1> DEFINE New(rc, op) == [req |-> job[t].req, rc |-> rc, op |-> op, life |-> life,
                           acl |-> job[t].target = "all" /\ IsAcl(Uri(t))]
<1>1. ASSUME NEW rc, NEW op, Answer(t, rc, op)
      PROVE  /\ a = New(rc, op) /\ answers' = answers \cup {a}
             /\ pc'[t] \in {"idle", "item"} /\ job'[t].req = job[t].req
  BY <1>1, AnswerFacts DEF Answer
<1>2. ASSUME NEW rc, NEW op
      PROVE  /\ New(rc, op).req = job[t].req /\ New(rc, op).rc = rc
             /\ New(rc, op).life = life /\ New(rc, op).op = op
             /\ New(rc, op).acl = (job[t].target = "all" /\ IsAcl(Uri(t)))
  OBVIOUS
<1> HIDE DEF New
<1>3. \/ Refuse(t)
      \/ SaveRemove(t) /\ Received(t, "subject") # "Ok"
      \/ SaveAnswered(t)
  BY DEF ClientMove, Request, Authenticate, InitTicket, InitPermission,
         SaveTicket, CallFind, AddToTransaction, SaveRemove, TicketAnswered, history
<1>5. CASE Refuse(t)
  BY <1>1, <1>2, <1>5 DEF Refuse
<1>6. CASE SaveRemove(t) /\ Received(t, "subject") # "Ok"
  BY <1>1, <1>2, <1>6 DEF SaveRemove
<1>7. CASE SaveAnswered(t)
  <2>1. Answer(t, Received(t, "subject"), subject_manager_op_id)
        /\ pc[t] = "save" /\ mbox[t] # <<>>
    BY <1>7 DEF SaveAnswered
  <2>2. Head(mbox[t]) = mbox[t][1]
    BY <1>7, ResultTaken DEF SaveAnswered
  <2>3. Received(t, "subject") = "Ok" => OkArrived(t)
    BY <2>1, <2>2 DEF Received, OkArrived
  <2> QED
    BY <1>1, <1>2, <1>7, <2>1, <2>3
<1> QED
  BY <1>3, <1>5, <1>6, <1>7

\* An answer is recorded by a step of the thread that gets it.
LEMMA NewAnswer ==
  ASSUME TypeInv, Calm, [Next]_vars, NEW a, a \in answers', a \notin answers
  PROVE  \E t \in Threads : ClientMove(t)
BY CalmSteps DEF HandleFind, HandleSave, StoreFails, Restart, history, Quiet

\* An Ok is in a mailbox, or was answered, only after the work was done.
LEMMA DoneStep ==
  ASSUME TypeInv, CallInv, DoneInv, [Next]_vars
  PROVE  DoneInv'
<1> SUFFICES ASSUME Calm, CallBody, OkIsDone, AnswerIsOwn
             PROVE  OkIsDone' /\ AnswerIsOwn'
  <2>1. Calm' <=> Calm
    BY DEF Calm, Next, vars
  <2> QED
    BY <2>1 DEF DoneInv, CallInv
<1>1. done \subseteq done' /\ UNCHANGED setting
  <2>1. UNCHANGED done \/ \E m \in Managers : HandleSave(m)
    BY CalmSteps, ClientMoveFacts DEF HandleFind, StoreFails, Restart, history, Quiet
  <2> QED
    BY <2>1 DEF HandleSave, Next, vars
<1>2. ASSUME NEW t \in Threads, OkArrived(t)'
      PROVE  \E d \in done' : d.req = job'[t].req
  <2>1. CASE OkArrived(t) /\ job'[t].req = job[t].req
    BY <1>1, <2>1 DEF OkIsDone
  <2>2. CASE HandleSave("subject") /\ Box[1].item.req = job'[t].req
    <3>1. Head(inbox["subject"]) = Box[1]
      BY <2>2, HeadOfBox DEF HandleSave, Handles, Box, Managers
    <3>2. [req |-> Box[1].item.req, op |-> op_id'["subject"]] \in done'
      BY <2>2, <3>1 DEF HandleSave
    <3> QED
      BY <2>2, <3>2
  <2> QED
    BY <1>2, <2>1, <2>2, OkStep
<1>3. OkIsDone'
  BY <1>1, <1>2 DEF OkIsDone, Threads
<1>4. ASSUME NEW a \in answers', a.rc = "Ok"
      PROVE  \E d \in done' : d.req = a.req
  <2>1. CASE a \in answers
    BY <1>1, <1>4, <2>1 DEF AnswerIsOwn, Calm
  <2>2. CASE a \notin answers
    <3>1. \E t \in Threads : a.req = job[t].req /\ OkArrived(t)
      BY <1>4, <2>2, NewAnswer, AnswerOfMove
    <3> QED
      BY <1>1, <3>1 DEF OkIsDone
  <2> QED
    BY <2>1, <2>2
<1> QED
  BY <1>3, <1>4 DEF AnswerIsOwn

\* Calls and their results, while the queue does not throw.
LEMMA CallsInit == Init => CallInv /\ DoneInv
<1> SUFFICES ASSUME Init PROVE CallBody /\ OkIsDone /\ AnswerIsOwn
  BY DEF CallInv, DoneInv
<1>1. (\A t \in Threads : mbox[t] = <<>>) /\ (\A m \in Managers : inbox[m] = <<>>)
      /\ Len(<<>>) = 0 /\ answers = {}
  BY EmptySeq DEF Init
<1> QED
  BY <1>1 DEF CallBody, CallPending, OneCall, CallAnswered, AnswerFits, OkIsDone,
              OkArrived, AnswerIsOwn

\* An Ok is the answer to this very save(): with both client threads, refusals
\* of the database and crashes, no result code is ever left over in a mailbox,
\* unless the queue throws.
THEOREM AnswerIsOwnTheorem == Spec => []AnswerIsOwn
<1>1. BaseInv /\ CallInv /\ DoneInv /\ [Next]_vars => (CallInv /\ DoneInv)'
  BY CallStep, DoneStep DEF BaseInv
<1>2. DoneInv => AnswerIsOwn
  BY DEF DoneInv, AnswerIsOwn, Calm
<1> QED
  BY <1>1, <1>2, BaseInit, BaseStep, CallsInit, PTL DEF Spec
-----------------------------------------------------------------------------
(***************************************************************************)
(* History.                                                                *)
(***************************************************************************)

\* The queue is the flow, but for the record in hand.
LEMMA QueueOfFlow ==
  ASSUME TypeInv
  PROVE  /\ Len(queue) \in Nat /\ Len(Flow) \in Nat /\ Len(queue) <= Len(Flow)
         /\ \A k \in 1 .. Len(queue) : k \in 1 .. Len(Flow) /\ queue[k] = Flow[k]
         /\ at["subject"] = "loop" => Flow = queue
         /\ at["subject"] # "loop" => /\ Flow = Append(queue, InHand) /\ InHand \in Rec
                                      /\ Len(Flow) = Len(queue) + 1
                                      /\ Flow[Len(Flow)] = InHand
<1>1. queue \in Seq(Rec) /\ Len(queue) \in Nat
  BY FlowType
<1>2. CASE at["subject"] = "loop"
  <2>1. Flow = queue
    BY <1>2 DEF Flow
  <2> QED
    BY <1>1, <1>2, <2>1
<1>3. CASE at["subject"] # "loop"
  <2>1. Flow = Append(queue, InHand)
    BY <1>3 DEF Flow
  <2>2. InHand \in Rec
    BY <1>3, InHandFacts
  <2> HIDE DEF InHand
  <2>3. Len(Flow) = Len(queue) + 1
        /\ (\A k \in 1 .. Len(queue) : Flow[k] = queue[k]) /\ Flow[Len(queue) + 1] = InHand
    BY <1>1, <2>1, <2>2, AppendFacts
  <2> QED
    BY <1>1, <1>3, <2>1, <2>2, <2>3
<1> QED
  BY <1>2, <1>3

\* Records that link up still do without the last.
LEMMA LinksOfQueue ==
  ASSUME TypeInv, Links(Flow)
  PROVE  Links(queue)
<1> SUFFICES ASSUME NEW k \in 1 .. Len(queue), NEW j \in 1 .. k - 1,
                    queue[j].item.uri = queue[k].item.uri,
                    queue[j].part = queue[k].part, queue[j].item.target = "all",
                    \A n \in j + 1 .. k - 1 : queue[n].item.uri # queue[k].item.uri
                                                \/ queue[n].item.target # "all"
             PROVE  queue[k].item.prev.ctr = queue[j].item.new.ctr
  BY DEF Links
<1>1. Len(queue) \in Nat /\ Len(Flow) \in Nat
      /\ \A i \in 1 .. Len(queue) : i \in 1 .. Len(Flow) /\ queue[i] = Flow[i]
  BY QueueOfFlow
<1>2. j \in 1 .. Len(queue) /\ \A n \in j + 1 .. k - 1 : n \in 1 .. Len(queue)
  BY <1>1
<1>3. k \in 1 .. Len(Flow) /\ Flow[k] = queue[k] /\ Flow[j] = queue[j]
  BY <1>1, <1>2
<1>4. \A n \in j + 1 .. k - 1 : Flow[n] = queue[n]
  BY <1>1, <1>2
<1>5. /\ Flow[j].item.uri = Flow[k].item.uri /\ Flow[j].part = Flow[k].part
      /\ Flow[j].item.target = "all"
      /\ \A n \in j + 1 .. k - 1 : Flow[n].item.uri # Flow[k].item.uri
                                      \/ Flow[n].item.target # "all"
  BY <1>3, <1>4
<1>6. Flow[k].item.prev.ctr = Flow[j].item.new.ctr
  <2>1. PICK f : f = Flow
    OBVIOUS
  <2>2. Links(f)
    BY <2>1
  <2> QED
    BY <1>3, <1>5, <2>1, <2>2 DEF Links
<1> QED
  BY <1>3, <1>6

\* A write adds a record that links up with the last one of its individual.
LEMMA HistoryWrite ==
  ASSUME BaseInv, FlowWrite, PartsSoFar(Flow), StoredIsLast(Flow), Links(Flow)
  PROVE  (PartsSoFar(Flow) /\ StoredIsLast(Flow) /\ Links(Flow))'
<1> DEFINE it == Box[1].item
           r == Record(it, op_id["subject"] + 1, life)
           N == Len(queue)
<1>1. /\ it \in Item /\ it.uri \in AllUris /\ op_id["subject"] + 1 \in Nat /\ life \in Nat
      /\ Flow' = Append(queue, r) /\ Flow = queue /\ life' = life
      /\ store' = IF it.target = "all" THEN [store EXCEPT ![it.uri] = it.new] ELSE store
      /\ store \in [AllUris -> State] /\ queue \in Seq(Rec)
  BY FlowType DEF FlowWrite, BaseInv, TypeInv, DataType
<1>2. it.prev.ctr = store[it.uri].ctr
  BY DEF FlowWrite, BaseInv, VersionInv, SavesAreFresh
<1>3. /\ r \in Rec /\ r.item.uri = it.uri /\ r.item.prev = it.prev
      /\ r.item.new = it.new /\ r.item.target = it.target /\ r.part = life
  BY <1>1, RecordFacts, SMTT(30)
<1>4. \A k \in 1 .. Len(queue) : queue[k].item.uri \in AllUris
  BY DEF BaseInv, TypeInv, DataType
<1> HIDE DEF it, r
<1> DEFINE f == Append(queue, r)
<1>5. /\ N \in Nat /\ Len(f) = N + 1 /\ f[N + 1] = r /\ \A k \in 1 .. N : f[k] = queue[k]
  BY <1>1, <1>3, AppendFacts
<1>6. Flow' = f
  BY <1>1
<1> HIDE DEF f
<1>7. \A k \in 1 .. Len(f) : f[k].part <= life
  BY <1>1, <1>3, <1>5 DEF PartsSoFar
<1>8. ASSUME NEW j \in 1 .. Len(f), f[j].part = life, f[j].item.target = "all",
             \A n \in j + 1 .. Len(f) :
               f[n].item.uri # f[j].item.uri \/ f[n].item.target # "all"
      PROVE  store'[f[j].item.uri].ctr = f[j].item.new.ctr
  <2>1. CASE j = N + 1
    BY <1>1, <1>3, <1>5, <1>8, <2>1
  <2>2. CASE j \in 1 .. N
    <3>1. N + 1 \in j + 1 .. Len(f) /\ \A n \in j + 1 .. N : n \in 1 .. N /\ n \in j + 1 .. Len(f)
      BY <1>5, <2>2
    <3>2. r.item.uri # f[j].item.uri \/ r.item.target # "all"
      BY <1>5, <1>8, <3>1
    <3>3. IsLast(queue, j)
      BY <1>5, <1>8, <2>2, <3>1 DEF IsLast
    <3>4. store[f[j].item.uri].ctr = f[j].item.new.ctr
      BY <1>1, <1>5, <2>2, <3>3 DEF StoredIsLast
    <3>5. f[j].item.uri \in AllUris
      BY <1>4, <1>5, <2>2
    <3> QED
      BY <1>1, <1>3, <3>2, <3>4, <3>5
  <2> QED
    BY <1>5, <2>1, <2>2
<1>9. ASSUME NEW k \in 1 .. Len(f), NEW j \in 1 .. k - 1,
             f[j].item.uri = f[k].item.uri, f[j].part = f[k].part,
             f[j].item.target = "all",
             \A n \in j + 1 .. k - 1 : f[n].item.uri # f[k].item.uri
                                         \/ f[n].item.target # "all"
      PROVE  f[k].item.prev.ctr = f[j].item.new.ctr
  <2>0. j \in 1 .. N /\ \A n \in j + 1 .. k - 1 : n \in 1 .. N
    BY <1>5
  <2>1. CASE k \in 1 .. N
    <3>1. Links(queue)
      BY <1>1
    <3>2. f[k] = queue[k] /\ f[j] = queue[j] /\ \A n \in j + 1 .. k - 1 : f[n] = queue[n]
      BY <1>5, <2>0, <2>1
    <3>3. \A n \in j + 1 .. k - 1 : queue[n].item.uri # queue[k].item.uri
                                       \/ queue[n].item.target # "all"
      BY <1>9, <3>2
    <3> QED
      BY <1>9, <2>1, <3>1, <3>2, <3>3 DEF Links
  <2>2. CASE k = N + 1
    <3>1. IsLast(queue, j)
      BY <1>3, <1>5, <1>9, <2>0, <2>2 DEF IsLast
    <3>2. store[f[j].item.uri].ctr = f[j].item.new.ctr
      BY <1>1, <1>5, <2>0, <3>1 DEF StoredIsLast
    <3> QED
      BY <1>2, <1>3, <1>5, <1>9, <2>2, <3>2
  <2> QED
    BY <1>5, <2>1, <2>2
<1>10. PartsSoFar(Flow)'
  BY <1>1, <1>6, <1>7 DEF PartsSoFar
<1>11. StoredIsLast(Flow)'
  BY <1>1, <1>6, <1>8 DEF StoredIsLast, IsLast
<1>12. Links(Flow)'
  BY <1>6, <1>9 DEF Links
<1> QED
  BY <1>10, <1>11, <1>12

\* Every step keeps the records of an individual linked.
LEMMA HistoryStep ==
  ASSUME BaseInv, HistoryInv, [Next]_vars
  PROVE  HistoryInv'
<1> SUFFICES ASSUME Calm, PartsSoFar(Flow), StoredIsLast(Flow), Links(Flow)
             PROVE  (PartsSoFar(Flow) /\ StoredIsLast(Flow) /\ Links(Flow))'
  <2>1. Calm' <=> Calm
    BY DEF Calm, Next, vars
  <2> QED
    BY <2>1 DEF HistoryInv
<1>1. TypeInv
  BY DEF BaseInv
<1>2. CASE FlowQuiet \/ FlowPush
  BY <1>2, SMTT(30) DEF FlowQuiet, FlowPush, PartsSoFar, StoredIsLast, IsLast, Links
<1>3. CASE FlowWrite
  BY <1>3, HistoryWrite
<1>4. CASE FlowLose
  BY <1>4 DEF FlowLose, Calm
<1>5. CASE FlowRestart
  <2>1. Flow' = queue /\ life' = life + 1 /\ life \in Nat
    BY <1>1, <1>5 DEF FlowRestart, TypeInv, DataType
  <2>2. \A k \in 1 .. Len(queue) : queue[k].part <= life /\ queue[k].part \in Nat
    <3>1. \A k \in 1 .. Len(queue) : k \in 1 .. Len(Flow) /\ queue[k] = Flow[k]
      BY <1>1, QueueOfFlow
    <3>2. \A k \in 1 .. Len(Flow) : Flow[k] \in Rec
      BY <1>1, FlowType
    <3> QED
      BY <3>1, <3>2 DEF PartsSoFar, Rec
  <2>3. Links(queue)
    BY <1>1, LinksOfQueue
  <2>4. PartsSoFar(Flow)'
    BY <2>1, <2>2 DEF PartsSoFar
  <2>5. StoredIsLast(Flow)'
    BY <2>1, <2>2 DEF StoredIsLast, IsLast
  <2>6. Links(Flow)'
    BY <2>1, <2>3 DEF Links
  <2> QED
    BY <2>4, <2>5, <2>6
<1> QED
  BY <1>1, <1>2, <1>3, <1>4, <1>5, FlowStep

\* Within a part of the queue the records of each individual form its history
\* without a gap: for any requests of both client threads, refusals of the
\* database and any number of crashes, as long as the queue does not throw.
THEOREM PartIsHistoryTheorem == Spec => []PartIsHistory
<1>1. Init => HistoryInv
  <2> SUFFICES ASSUME Init PROVE Flow = <<>> /\ Len(<<>>) = 0
    BY DEF HistoryInv, PartsSoFar, StoredIsLast, Links
  <2> QED
    BY EmptySeq DEF Init, Flow, Managers
<1>2. BaseInv /\ HistoryInv /\ [Next]_vars => HistoryInv'
  BY HistoryStep
<1>3. BaseInv /\ HistoryInv => PartIsHistory
  <2> SUFFICES ASSUME TypeInv, Links(Flow) PROVE PartIsHistory
    BY DEF BaseInv, HistoryInv, PartIsHistory, Calm
  <2>1. queue \in Seq(Rec) /\ Links(queue)
    BY FlowType, LinksOfQueue
  <2>2. DOMAIN queue = 1 .. Len(queue)
    BY <2>1
  <2> QED
    BY <2>1, <2>2 DEF PartIsHistory, Links
<1> QED
  BY <1>1, <1>2, <1>3, BaseInit, BaseStep, PTL DEF Spec
-----------------------------------------------------------------------------
(***************************************************************************)
(* Answered changes.                                                       *)
(***************************************************************************)

\* The numbers of the calls of save().
LEMMA ClientNumbers ==
  ASSUME TypeInv, NEW t \in Threads, ClientMove(t)
  PROVE  /\ saves' \in {saves, saves + 1}
         /\ job'[t].req \in {job[t].req, 0, saves'}
         /\ pc'[t] \in {"save", "remove"} =>
              /\ saves' = saves + 1 /\ job'[t].req = saves + 1
              /\ answers' = answers
<1>1. /\ pc \in [Threads -> Places] /\ job \in [Threads -> Jobs] /\ saves + 1 \in Nat
  BY DEF TypeInv, ClientType, DataType
<1>2. ASSUME NEW rc, NEW op, Answer(t, rc, op)
      PROVE  pc'[t] \in {"idle", "item"} /\ job'[t].req = job[t].req
  BY <1>2, AnswerFacts
<1>3. ASSUME job' = [job EXCEPT ![t].req = saves + 1]
      PROVE  job'[t].req = saves + 1
  BY <1>1, <1>3, ReqFacts
<1>4. CASE Refuse(t) \/ SaveAnswered(t)
  BY <1>2, <1>4 DEF Refuse, SaveAnswered
<1>5. CASE SaveRemove(t) /\ Received(t, "subject") # "Ok"
  BY <1>2, <1>5 DEF SaveRemove
<1>6. CASE SaveRemove(t) /\ Received(t, "subject") = "Ok"
  BY <1>3, <1>6 DEF SaveRemove, SendSave
<1>7. CASE AddToTransaction(t)
  BY <1>3, <1>7 DEF AddToTransaction, SendSave
<1>8. CASE CallFind(t) \/ TicketAnswered(t)
  BY <1>1, <1>8 DEF CallFind, TicketAnswered, history
<1>9. CASE t = "init" /\ (InitTicket \/ InitPermission)
  BY <1>1, <1>9 DEF InitTicket, InitPermission, SaveTicket, SendSave, history
<1>10. CASE /\ t = "n_channel"
            /\ \/ \E c \in setting.commands, us \in Lists, tg \in setting.targets :
                    Request(c, us, tg)
               \/ Authenticate
  BY <1>1, <1>10 DEF Request, Authenticate, SaveTicket, SendSave, history
<1> QED
  BY <1>4, <1>5, <1>6, <1>7, <1>8, <1>9, <1>10 DEF ClientMove

\* Every save has its own number, over restarts too.
LEMMA NumbersStep ==
  ASSUME TypeInv, Calm, CallBody, Numbers, [Next]_vars
  PROVE  Numbers'
<1>1. /\ Threads' = Threads /\ saves \in Nat /\ life \in Nat
      /\ job \in [Threads -> Jobs] /\ pc \in [Threads -> Places]
      /\ \A t \in Threads : job[t].req \in Nat
  BY DEF Threads, Next, vars, TypeInv, DataType, ClientType, Jobs
<1>2. ASSUME NEW t \in Threads, ClientMove(t)
      PROVE  Numbers'
  <2>1. /\ saves' \in {saves, saves + 1} /\ job'[t].req \in {job[t].req, 0, saves'}
        /\ pc'[t] \in {"save", "remove"} =>
             saves' = saves + 1 /\ job'[t].req = saves + 1 /\ answers' = answers
    BY <1>2, ClientNumbers
  <2>2. /\ \A w \in Threads \ {t} : job'[w] = job[w] /\ pc'[w] = pc[w]
        /\ life' = life
    BY <1>2, ClientMoveFacts DEF Others
  <2>3. ASSUME NEW a, a \in answers', a \notin answers
        PROVE  /\ a.req = job[t].req /\ a.life = life /\ answers' = answers \cup {a}
               /\ pc'[t] \in {"idle", "item"} /\ job'[t].req = job[t].req
               /\ a.rc = "Ok" => pc[t] = "save"
    BY <1>2, <2>3, AnswerOfMove
  <2>4. \A w \in Threads : job'[w].req <= saves'
    BY <1>1, <2>1, <2>2 DEF Numbers
  <2>5. \A a \in answers' : a.req \in 0 .. saves' /\ a.life \in 0 .. life'
    BY <1>1, <2>1, <2>2, <2>3 DEF Numbers
  <2>6. ASSUME NEW w \in Threads, pc'[w] \in {"save", "remove"},
               NEW a \in answers', a.rc = "Ok"
        PROVE  a.req # job'[w].req
    <3>1. CASE w = t
      BY <1>1, <2>1, <2>6, <3>1 DEF Numbers
    <3>2. CASE w # t /\ a \in answers
      BY <2>2, <2>6, <3>2 DEF Numbers, OkAnswers
    <3>3. CASE w # t /\ a \notin answers
      <4>1. a.req = job[t].req /\ pc[t] = "save" /\ pc'[t] \in {"idle", "item"}
        BY <2>3, <2>6, <3>3
      <4>2. pc[w] \in {"save", "remove"} /\ job'[w] = job[w]
        BY <2>2, <2>6, <3>3
      <4> QED
        BY <3>3, <4>1, <4>2 DEF Numbers
    <3> QED
      BY <3>1, <3>2, <3>3
  <2>7. ASSUME NEW v \in Threads, NEW w \in Threads \ {v},
               pc'[v] \in {"save", "remove"}, pc'[w] \in {"save", "remove"}
        PROVE  job'[w].req # job'[v].req
    <3>1. CASE v = t \/ w = t
      BY <1>1, <2>1, <2>2, <2>7, <3>1 DEF Numbers
    <3>2. CASE v # t /\ w # t
      BY <2>2, <2>7, <3>2 DEF Numbers
    <3> QED
      BY <3>1, <3>2
  <2>8. ASSUME NEW a \in answers', NEW b \in answers', a.rc = "Ok", b.rc = "Ok", a.req = b.req
        PROVE  a = b
    <3>1. CASE a \in answers /\ b \in answers
      BY <2>8, <3>1 DEF Numbers, OkAnswers
    <3>2. CASE a \notin answers /\ b \notin answers
      BY <2>3, <2>8, <3>2
    <3>3. CASE a \notin answers /\ b \in answers
      BY <2>3, <2>8, <3>3 DEF Numbers, OkAnswers
    <3>4. CASE a \in answers /\ b \notin answers
      BY <2>3, <2>8, <3>4 DEF Numbers, OkAnswers
    <3> QED
      BY <3>1, <3>2, <3>3, <3>4
  <2> QED
    BY <1>1, <2>4, <2>5, <2>6, <2>7, <2>8 DEF Numbers, OkAnswers
<1>3. CASE HandleFind
  <2>1. UNCHANGED <<saves, answers, job, life>>
        /\ pc' = [pc EXCEPT ![Head(inbox["subject"]).from] = "found"]
    BY <1>3 DEF HandleFind, history
  <2>2. \A w \in Threads : pc'[w] \in {"save", "remove"} => pc'[w] = pc[w]
    BY <1>1, <2>1
  <2> QED
    BY <1>1, <2>1, <2>2 DEF Numbers, OkAnswers
<1>4. CASE \E m \in Managers : HandleSave(m) \/ StoreFails(m)
  <2>1. UNCHANGED <<saves, answers, job, life, pc>>
    BY <1>4 DEF HandleSave, StoreFails, history, clientVars
  <2> QED
    BY <1>1, <2>1 DEF Numbers, OkAnswers
<1>5. CASE Restart
  <2>1. /\ UNCHANGED <<saves, answers>> /\ life' = life + 1
        /\ \A w \in Threads : pc'[w] = "idle" /\ job'[w].req = 0
    BY <1>5 DEF Restart, history, NoJob
  <2> QED
    BY <1>1, <2>1 DEF Numbers, OkAnswers
<1>6. CASE UNCHANGED <<clientVars, history, life>>
  BY <1>1, <1>6 DEF clientVars, history, Numbers, OkAnswers
<1> QED
  BY <1>2, <1>3, <1>4, <1>5, <1>6, CalmSteps DEF Quiet

\* But for a restart, the flow and the queue only grow.
LEMMA FlowGrows ==
  ASSUME TypeInv, Calm, [Next]_vars, ~Restart
  PROVE  /\ \A r : InFlow(r) => InFlow(r)'
         /\ \A k \in 1 .. Len(queue) : k \in 1 .. Len(queue') /\ queue'[k] = queue[k]
         /\ life' = life
<1>1. /\ queue \in Seq(Rec) /\ Flow \in Seq(Rec) /\ Len(queue) \in Nat
      /\ \A k \in 1 .. Len(queue) : k \in 1 .. Len(Flow) /\ queue[k] = Flow[k]
  BY FlowType, QueueOfFlow
<1>2. CASE FlowQuiet
  BY <1>2 DEF FlowQuiet, InFlow
<1>3. CASE FlowPush
  BY <1>1, <1>3 DEF FlowPush, InFlow
<1>4. CASE FlowWrite
  <2> DEFINE r == Record(Box[1].item, op_id["subject"] + 1, life)
  <2>1. /\ Flow' = Append(queue, r) /\ Flow = queue /\ UNCHANGED <<queue, life>>
        /\ Box[1].item \in Item /\ op_id["subject"] + 1 \in Nat /\ life \in Nat
    BY <1>4 DEF FlowWrite, TypeInv, DataType
  <2>2. r \in Rec
    BY <2>1, RecordFacts
  <2> HIDE DEF r
  <2>3. Len(Flow') = Len(Flow) + 1 /\ \A k \in 1 .. Len(Flow) : Flow'[k] = Flow[k]
    BY <1>1, <2>1, <2>2, AppendFacts
  <2> QED
    BY <1>1, <2>1, <2>3 DEF InFlow
<1>5. ~FlowLose /\ ~FlowRestart
  BY DEF FlowLose, FlowRestart, Calm
<1> QED
  BY <1>2, <1>3, <1>4, <1>5, FlowStep

\* A change that was answered Ok in this life is in the flow.
LEMMA OkIsInFlowStep ==
  ASSUME TypeInv, Calm, CallBody, Numbers, OkIsInFlow, [Next]_vars
  PROVE  OkIsInFlow'
<1>1. Threads' = Threads /\ life \in Nat
  BY DEF Threads, Next, vars, TypeInv, DataType
<1>2. CASE Restart
  <2>1. /\ answers' = answers /\ life' = life + 1 /\ \A t \in Threads : mbox'[t] = <<>>
    BY <1>2 DEF Restart, history
  <2> QED
    BY <1>1, <2>1 DEF OkIsInFlow, OkArrived, OkAnswers, Numbers
<1>3. CASE ~Restart
  <2>1. (\A r : InFlow(r) => InFlow(r)') /\ life' = life
    BY <1>3, FlowGrows
  <2>2. ASSUME NEW t \in Threads, OkArrived(t)', NEW r, r = job'[t].req
        PROVE  InFlow(r)'
    <3>1. CASE OkArrived(t) /\ job'[t].req = job[t].req
      BY <2>1, <2>2, <3>1 DEF OkIsInFlow
    <3>2. CASE HandleSave("subject") /\ Box[1].item.req = job[t].req
               /\ job'[t].req = job[t].req
      <4> DEFINE x == Record(Box[1].item, op_id["subject"] + 1, life)
      <4>1. /\ Flow' = Append(queue, x) /\ Box[1].item \in Item
            /\ op_id["subject"] + 1 \in Nat
        BY <3>2, FlowOfSave DEF FlowWrite
      <4>2. x \in Rec /\ x.item.req = Box[1].item.req
        BY <1>1, <4>1, RecordFacts
      <4> HIDE DEF x
      <4>3. queue \in Seq(Rec)
        BY FlowType
      <4>4. Len(queue) + 1 \in 1 .. Len(Flow') /\ Flow'[Len(queue) + 1] = x
        BY <4>1, <4>2, <4>3, AppendFacts
      <4> QED
        BY <2>2, <3>2, <4>2, <4>4 DEF InFlow
    <3> QED
      BY <2>2, <3>1, <3>2, OkStep
  <2>3. ASSUME NEW a \in answers', a.rc = "Ok", a.life = life
        PROVE  InFlow(a.req)'
    <3>1. CASE a \in answers
      BY <2>1, <2>3, <3>1 DEF OkIsInFlow, OkAnswers
    <3>2. CASE a \notin answers
      <4>1. PICK t \in Threads : OkArrived(t) /\ a.req = job[t].req
        BY <2>3, <3>2, NewAnswer, AnswerOfMove
      <4> QED
        BY <2>1, <4>1 DEF OkIsInFlow
    <3> QED
      BY <3>1, <3>2
  <2>4. \A t \in Threads : OkArrived(t)' => InFlow(job[t].req)'
    BY <2>2 DEF InFlow
  <2> QED
    BY <1>1, <2>1, <2>3, <2>4 DEF OkIsInFlow, OkAnswers
<1> QED
  BY <1>2, <1>3

\* What this start has answered and not queued is the change in hand.
LEMMA NowUnqueued ==
  ASSUME TypeInv, Numbers, OkIsInFlow
  PROVE  /\ \A a, b \in Unqueued(life) : a = b
         /\ at["subject"] = "loop" => Unqueued(life) = {}
<1>1. /\ queue \in Seq(Rec) /\ DOMAIN queue = 1 .. Len(queue)
  BY FlowType
<1>2. ASSUME NEW a \in Unqueued(life)
      PROVE  /\ a \in OkAnswers /\ at["subject"] # "loop"
             /\ InHand.item.req = a.req
  <2>1. /\ a \in OkAnswers /\ a.life = life
        /\ \A k \in 1 .. Len(queue) : queue[k].item.req # a.req
    BY <1>1 DEF Unqueued, OkAnswers
  <2>2. PICK k \in 1 .. Len(Flow) : Flow[k].item.req = a.req
    BY <2>1 DEF OkIsInFlow, InFlow
  <2>3. at["subject"] # "loop"
    BY <2>1, <2>2, QueueOfFlow
  <2>4. k = Len(queue) + 1 \/ k \in 1 .. Len(queue)
    BY <2>3, QueueOfFlow
  <2>5. InHand.item.req = a.req
    BY <2>1, <2>2, <2>3, <2>4, QueueOfFlow
  <2> QED
    BY <2>1, <2>3, <2>5
<1>3. \A a, b \in Unqueued(life) : a = b
  BY <1>2 DEF Numbers
<1> QED
  BY <1>2, <1>3

\* Of an earlier life at most one answered change is not queued.
LEMMA OldUnqueuedStep ==
  ASSUME TypeInv, Calm, CallBody, Numbers, OkIsInFlow, OldUnqueued, [Next]_vars
  PROVE  OldUnqueued'
<1>1. queue \in Seq(Rec) /\ DOMAIN queue = 1 .. Len(queue) /\ life \in Nat
  BY FlowType DEF TypeInv, DataType
<1>2. CASE Restart
  <2>1. answers' = answers /\ queue' = queue /\ life' = life + 1
    BY <1>2 DEF Restart, history
  <2>2. \A l : Unqueued(l)' = Unqueued(l)
    BY <2>1 DEF Unqueued
  <2>3. ASSUME NEW l \in 0 .. life' - 1
        PROVE  \A a, b \in Unqueued(l) : a = b
    BY <1>1, <2>1, NowUnqueued DEF OldUnqueued
  <2> QED
    BY <2>2, <2>3 DEF OldUnqueued
<1>3. CASE ~Restart
  <2>1. /\ \A k \in 1 .. Len(queue) : k \in 1 .. Len(queue') /\ queue'[k] = queue[k]
        /\ life' = life
    BY <1>3, FlowGrows
  <2>2. DOMAIN queue' = 1 .. Len(queue')
    <3>1. queue' \in Seq(Rec)
      BY TypeData DEF Next, vars, DataType, TypeInv
    <3> QED
      BY <3>1
  <2>3. ASSUME NEW l \in 0 .. life - 1, NEW a \in Unqueued(l)'
        PROVE  a \in Unqueued(l)
    <3>1. a \in answers' /\ a.rc = "Ok" /\ a.life = l
          /\ \A k \in DOMAIN queue' : queue'[k].item.req # a.req
      BY DEF Unqueued
    <3>2. \A k \in DOMAIN queue : queue[k].item.req # a.req
      BY <1>1, <2>1, <2>2, <3>1
    <3>3. a \in answers
      <4> SUFFICES ASSUME a \notin answers PROVE FALSE
        OBVIOUS
      <4>1. a.life = life
        BY <3>1, NewAnswer, AnswerOfMove
      <4> QED
        BY <1>1, <3>1, <4>1
    <3> QED
      BY <3>1, <3>2, <3>3 DEF Unqueued
  <2> QED
    BY <2>1, <2>3 DEF OldUnqueued
<1> QED
  BY <1>2, <1>3

\* At most the last change of a start that was answered Ok is missing from the
\* queue, and only if the process died with it in hand: for any requests of
\* both client threads, refusals and any number of crashes.
THEOREM QueuedButLastTheorem == Spec => []QueuedButLast
<1>1. Init => AnswersInv
  <2> SUFFICES ASSUME Init PROVE OkIsInFlow /\ Numbers /\ OldUnqueued
    BY DEF AnswersInv
  <2>1. /\ answers = {} /\ saves = 0 /\ life = 0
        /\ \A t \in Threads : mbox[t] = <<>> /\ pc[t] = "idle" /\ job[t].req = 0
    BY DEF Init, NoJob
  <2> QED
    BY <2>1 DEF OkIsInFlow, OkArrived, OkAnswers, Numbers, OldUnqueued, Unqueued
<1>2. BaseInv /\ CallInv /\ AnswersInv /\ [Next]_vars => AnswersInv'
  <2> SUFFICES ASSUME TypeInv, Calm, CallBody, OkIsInFlow, Numbers, OldUnqueued, [Next]_vars
               PROVE  (OkIsInFlow /\ Numbers /\ OldUnqueued)'
    <3>1. [Next]_vars => (Calm' <=> Calm)
      BY DEF Calm, Next, vars
    <3> QED
      BY <3>1 DEF AnswersInv, BaseInv, CallInv
  <2> QED
    BY NumbersStep, OkIsInFlowStep, OldUnqueuedStep
<1>3. BaseInv /\ AnswersInv => QueuedButLast
  <2> SUFFICES ASSUME TypeInv, OkIsInFlow, Numbers, OldUnqueued
               PROVE  /\ \A l \in 0 .. life : Cardinality(Unqueued(l)) <= 1
                      /\ at["subject"] = "loop" => Unqueued(life) = {}
    BY DEF AnswersInv, BaseInv, QueuedButLast, Calm
  <2>1. ASSUME NEW l \in 0 .. life
        PROVE  Cardinality(Unqueued(l)) <= 1
    <3>1. \A a, b \in Unqueued(l) : a = b
      <4>1. life \in Nat
        BY DEF TypeInv, DataType
      <4> QED
        BY <4>1, NowUnqueued DEF OldUnqueued
    <3>2. CASE Unqueued(l) = {}
      BY <3>2, FS_EmptySet
    <3>3. CASE Unqueued(l) # {}
      <4>1. PICK a : a \in Unqueued(l)
        BY <3>3
      <4> DEFINE U == Unqueued(l)
      <4>2. a \in U /\ \A b \in U : b = a
        BY <3>1, <4>1
      <4> HIDE DEF U
      <4>3. U = {a}
        BY <4>2
      <4>4. Cardinality({a}) = 1
        BY FS_Singleton
      <4>5. Cardinality(U) = 1
        BY <4>3, <4>4, Zenon
      <4> QED
        BY <4>5 DEF U
    <3> QED
      BY <3>2, <3>3
  <2> QED
    BY <2>1, NowUnqueued
<1>4. BaseInv /\ CallInv /\ [Next]_vars => CallInv'
  BY CallStep DEF BaseInv
<1> QED
  BY <1>1, <1>2, <1>3, <1>4, BaseInit, BaseStep, CallsInit, PTL DEF Spec
-----------------------------------------------------------------------------
(***************************************************************************)
(* Transactions.                                                           *)
(***************************************************************************)

\* Without init there is one client thread.
LEMMA OneThread ==
  ASSUME TypeInv, ~Starting
  PROVE  Threads = {"n_channel"}
BY SettingFacts DEF TypeInv, Starting, Threads

\* A step of the client that leaves the flow alone.
LEMMA FlowOfMove ==
  ASSUME TypeInv, CallBody, NEW t \in Threads, ClientMove(t)
  PROVE  Flow' = Flow /\ life' = life /\ op_id' = op_id
         /\ UNCHANGED subject_manager_op_id
<1>1. UNCHANGED <<queue, life, managerVars, subject_manager_op_id>>
  BY ClientMoveFacts
<1> QED
  BY <1>1 DEF managerVars, Flow, InHand

\* The records stay as they are.
LEMMA RecordsFrame ==
  ASSUME TypeInv, TnxOfRecords(Flow), Flow' = Flow, life' = life,
         op_id'["subject"] = op_id["subject"], requests' \in {requests, requests + 1}
  PROVE  TnxOfRecords(Flow)'
<1>1. requests \in Nat /\ \A k \in 1 .. Len(Flow) : Flow[k].item.no \in Nat
  <2>1. \A k \in 1 .. Len(Flow) : Flow[k] \in Rec
    BY FlowType
  <2> QED
    BY <2>1 DEF TypeInv, DataType, Rec, Item
<1> QED
  BY <1>1 DEF TnxOfRecords

\* The steps of the client thread.
LEMMA TnxClient ==
  ASSUME TypeInv, PutsOnly, CallBody, TnxBody, UNCHANGED setting,
         ClientMove("n_channel")
  PROVE  TnxBody'
<1> DEFINE n == "n_channel"
<1>1. /\ n \in Threads /\ Threads = {n} /\ pc \in [Threads -> Places]
      /\ job \in [Threads -> Jobs] /\ tnx \in [Threads -> Int] /\ requests \in Nat
      /\ op_id["subject"] \in Nat /\ inbox \in [Managers -> Seq(FindMsg \cup SaveMsg)]
      /\ saves + 1 \in Nat
  BY OneThread, SMTT(30) DEF PutsOnly, TypeInv, ClientType, DataType, ManagerType, Managers, MailType
<1>2. /\ Flow' = Flow /\ life' = life /\ op_id' = op_id /\ UNCHANGED subject_manager_op_id
      /\ mbox'[n] = <<>> /\ Free(n)
  BY <1>1, FlowOfMove, ClientMoveFacts
<1>3. Len(Box) = 0
  <2>1. \A k \in 1 .. Len(Box) : Box[k].from = n
    BY <1>1, BoxType
  <2>2. \A k \in 1 .. Len(Box) : Box[k].from # n
    BY <1>2 DEF Free, Box, Managers
  <2> QED
    BY <2>1, <2>2, BoxType
<1>10. requests' \in {requests, requests + 1}
  BY DEF ClientMove, Request, Authenticate, InitTicket, InitPermission,
         CallFind, AddToTransaction, Refuse, SaveRemove, SaveAnswered, TicketAnswered
<1>4. TnxOfRecords(Flow)'
  BY <1>2, <1>10, RecordsFrame DEF TnxBody
<1>5. ASSUME ~Works(n)' PROVE TnxBody'
  BY <1>4, <1>5 DEF TnxBody, JobIsPut, TnxOfRequest
<1>6. ASSUME NEW c \in setting.commands, NEW us \in Lists, NEW tg \in setting.targets,
             Request(c, us, tg)
      PROVE  TnxBody'
  <2> DEFINE j == [cmd |-> c, uris |-> us, target |-> tg, no |-> requests + 1, req |-> 0]
  <2>1. /\ job'[n] = j /\ pc'[n] = "item" /\ tnx'[n] = 0 /\ requests' = requests + 1
        /\ Box' = Box
    BY <1>1, <1>6 DEF Request, Box
  <2>2. j.cmd = "put" /\ j.no = requests + 1
    BY DEF PutsOnly
  <2> HIDE DEF j
  <2>3. \A k \in 1 .. Len(Flow) : Flow[k].item.no \in Nat /\ Flow[k].item.no <= requests
    <3>1. \A k \in 1 .. Len(Flow) : Flow[k] \in Rec
      BY FlowType
    <3> QED
      BY <3>1 DEF TnxBody, TnxOfRecords, Rec, Item
  <2>4. TnxOfRequest(Flow)'
    BY <1>1, <1>2, <1>3, <2>1, <2>2, <2>3 DEF TnxOfRequest
  <2> QED
    BY <1>4, <2>1, <2>2, <2>4 DEF TnxBody, JobIsPut
<1>7. ASSUME CallFind(n)
      PROVE  TnxBody'
  <2>1. /\ pc[n] = "item" /\ pc'[n] = "find" /\ UNCHANGED <<job, tnx, requests, mbox>>
        /\ Box' = Append(Box, Find(n, Uri(n)))
    BY <1>1, <1>7 DEF CallFind, Box, Managers
  <2>2. Find(n, Uri(n)) \in FindMsg /\ Find(n, Uri(n)).kind = "find"
    BY <1>1, <2>1, UriFacts DEF Find, FindMsg
  <2>3. \A k \in 1 .. Len(Box') : Box'[k].kind = "find"
    BY <1>3, <2>1, <2>2, BoxType, AppendFacts
  <2>4. TnxOfRequest(Flow)'
    BY <1>2, <2>1, <2>3 DEF TnxBody, TnxOfRequest, Works, RequestTnx
  <2> QED
    BY <1>4, <2>1, <2>4 DEF TnxBody, JobIsPut, Works
<1>8. ASSUME AddToTransaction(n)
      PROVE  TnxBody'
  <2> DEFINE it == FirstItem(n)
  <2>1. /\ pc[n] = "found" /\ UNCHANGED <<tnx, requests, mbox>>
        /\ Box' = Append(Box, Save(n, it)) /\ job' = [job EXCEPT ![n].req = saves + 1]
    BY <1>1, <1>8 DEF AddToTransaction, SendSave, Box, Managers
  <2>2. job[n].cmd = "put" /\ pc'[n] = "save"
    BY <1>1, <1>8, <2>1 DEF AddToTransaction, TnxBody, JobIsPut, Works
  <2>3. it \in Item /\ it.tnx = tnx[n] /\ it.no = job[n].no /\ it.cmd = "put"
    BY <1>1, <2>1, <2>2, FirstItemFacts
  <2> HIDE DEF it
  <2>4. Save(n, it) \in SaveMsg /\ Save(n, it).item = it
    BY <2>3 DEF Save, SaveMsg
  <2>5. \A k \in 1 .. Len(Box') : Box'[k].item = it
    BY <1>3, <2>1, <2>4, BoxType, AppendFacts
  <2>6. job'[n].no = job[n].no /\ job'[n].cmd = job[n].cmd
    BY <1>1, <2>1, ReqFacts
  <2>7. TnxOfRequest(Flow)'
    BY <1>2, <2>1, <2>2, <2>3, <2>5, <2>6 DEF TnxBody, TnxOfRequest, Works, RequestTnx
  <2> QED
    BY <1>4, <2>2, <2>6, <2>7 DEF TnxBody, JobIsPut
<1>9. ASSUME NEW rc, NEW op \in Int, Answer(n, rc, op), UNCHANGED <<inbox, requests>>,
             \/ op <= 0 /\ pc[n] = "found"
             \/ op = subject_manager_op_id /\ pc[n] = "save" /\ mbox[n] # <<>>
      PROVE  TnxBody'
  <2>1. /\ job'[n].cmd = job[n].cmd /\ job'[n].no = job[n].no /\ pc'[n] \in {"idle", "item"}
        /\ tnx'[n] = IF tnx[n] <= 0 THEN op ELSE tnx[n]
    BY <1>1, <1>9, AnswerFacts
  <2>2. Works(n) /\ Box' = Box /\ tnx[n] \in Int
    BY <1>1, <1>9 DEF Works, Box
  <2>3. mbox[n] = <<>> => op <= 0
    BY <1>9
  <2>4. mbox[n] # <<>> => op = op_id["subject"] /\ op > 0
    <3>1. pc[n] = "found" => mbox[n] = <<>>
      BY <1>1, CallFree
    <3> QED
      BY <1>9, <2>2, <3>1 DEF TnxBody, TnxOfRequest
  <2>5. TnxOfRequest(Flow)'
    <3>1. ASSUME NEW k \in 1 .. Len(Flow), Flow[k].part = life, Flow[k].item.no = requests
          PROVE  Flow[k].item.tnx = RequestTnx' /\ tnx'[n] > 0
      <4>1. Flow[k].item.tnx = RequestTnx /\ (tnx[n] <= 0 => mbox[n] # <<>>)
        BY <2>2, <3>1 DEF TnxBody, TnxOfRequest
      <4> QED
        BY <1>1, <1>2, <2>1, <2>2, <2>4, <4>1 DEF RequestTnx
    <3>2. tnx'[n] > 0 => \E k \in 1 .. Len(Flow) : Flow[k].part = life
                                                   /\ Flow[k].item.no = requests
      BY <1>1, <1>9, <2>1, <2>2, <2>3, <2>4 DEF TnxBody, TnxOfRequest
    <3>3. /\ job'[n].no = requests /\ requests > 0 /\ tnx'[n] <= op_id["subject"]
      BY <1>1, <2>1, <2>2, <2>3, <2>4 DEF TnxBody, TnxOfRequest
    <3>4. tnx'[n] \in Int
      BY <1>9, <2>1, <2>2
    <3> QED
      BY <1>2, <1>3, <1>9, <2>1, <2>2, <3>1, <3>2, <3>3, <3>4 DEF TnxOfRequest
  <2> QED
    BY <1>4, <2>1, <2>2, <2>5 DEF TnxBody, JobIsPut
<1>11. CASE Refuse(n)
  BY <1>9, <1>11 DEF Refuse
<1>12. CASE SaveAnswered(n)
  <2>1. subject_manager_op_id \in Int
    BY DEF TypeInv, ManagerType
  <2> QED
    BY <1>9, <1>12, <2>1 DEF SaveAnswered
<1>13. CASE Authenticate \/ TicketAnswered(n)
  BY <1>1, <1>5, <1>13 DEF Authenticate, SaveTicket, TicketAnswered, Works
<1>14. CASE SaveRemove(n)
  BY <1>14 DEF SaveRemove, TnxBody, TnxOfRequest, Works
<1> QED
  BY <1>6, <1>7, <1>8, <1>11, <1>12, <1>13, <1>14 DEF ClientMove

\* The subject manager works off a save() of the request.
LEMMA TnxWrite ==
  ASSUME TypeInv, PutsOnly, CallBody, TnxBody, [Next]_vars, HandleSave("subject")
  PROVE  TnxBody'
<1> DEFINE n == "n_channel"
           it == Box[1].item
           r == Record(it, op_id["subject"] + 1, life)
           N == Len(queue)
<1>1. /\ n \in Threads /\ Threads = {n} /\ tnx[n] \in Int /\ requests \in Nat
      /\ life \in Nat /\ UNCHANGED <<pc, job, tnx, requests>> /\ queue \in Seq(Rec)
  BY OneThread, FlowType DEF PutsOnly, TypeInv, ClientType, DataType, HandleSave, clientVars
<1>2. /\ it \in Item /\ op_id["subject"] \in Nat /\ op_id["subject"] + 1 \in Nat
      /\ Box[1].kind = "save" /\ 1 \in 1 .. Len(Box) /\ Box # <<>> /\ Box' = Tail(Box)
      /\ Flow' = Append(queue, r) /\ Flow = queue /\ life' = life
      /\ op_id'["subject"] = op_id["subject"] + 1 /\ Box[1].from = n
      /\ Head(Box) = Box[1]
  BY <1>1, FlowOfSave DEF FlowWrite
<1>3. subject_manager_op_id' = op_id["subject"] + 1
  BY <1>2 DEF HandleSave
<1>4. PendingFits("subject", Box[1])
  BY <1>2 DEF CallBody, CallPending, Box, Managers
<1>5. mbox[n] = <<>> /\ pc[n] \in {"save", "remove"}
  BY <1>2, <1>4 DEF PendingFits
<1>6. Works(n) /\ Works(n)'
  BY <1>1, <1>5 DEF Works
<1>7. mbox'[n] # <<>>
  <2>1. Reply(Sender("subject"), "subject", "Ok") /\ n = Sender("subject")
        /\ Handles("subject", "save") /\ "subject" \in Managers
    BY <1>2 DEF HandleSave, Sender, Box, Managers
  <2> QED
    BY <1>1, <2>1, ResultSent
<1>8. /\ job[n].no = requests /\ requests > 0 /\ pc[n] # "remove"
      /\ tnx[n] <= op_id["subject"]
      /\ it.no = requests /\ it.tnx = tnx[n]
      /\ \A k \in 1 .. Len(queue) :
           queue[k].part = life /\ queue[k].item.no = requests =>
             queue[k].item.tnx = tnx[n] /\ tnx[n] > 0
      /\ tnx[n] > 0 => \E k \in 1 .. Len(queue) : queue[k].part = life
                                                  /\ queue[k].item.no = requests
  BY <1>1, <1>2, <1>5, <1>6 DEF TnxBody, TnxOfRequest, RequestTnx
<1>9. /\ r \in Rec /\ r.part = life /\ r.item.no = requests
      /\ r.item.tnx = IF tnx[n] <= 0 THEN op_id["subject"] + 1 ELSE tnx[n]
  <2>1. /\ r \in Rec /\ r.part = life /\ r.item.no = it.no
        /\ r.item.tnx = IF it.tnx <= 0 THEN op_id["subject"] + 1 ELSE it.tnx
    BY <1>1, <1>2, RecordFacts
  <2> QED
    BY <1>8, <2>1
<1>10. /\ \A k \in 1 .. N : /\ queue[k].part <= life /\ queue[k].item.no <= requests
                            /\ queue[k].part = life =>
                                 queue[k].item.tnx \in 1 .. op_id["subject"]
       /\ \A j, k \in 1 .. N :
            queue[j].part = queue[k].part /\ queue[j].item.no # 0 /\ queue[k].item.no # 0 =>
              (queue[j].item.tnx = queue[k].item.tnx <=> queue[j].item.no = queue[k].item.no)
  BY <1>2 DEF TnxBody, TnxOfRecords
<1> HIDE DEF it, r
<1> DEFINE f == Append(queue, r)
<1>11. /\ N \in Nat /\ Len(f) = N + 1 /\ f[N + 1] = r /\ \A k \in 1 .. N : f[k] = queue[k]
  BY <1>1, <1>9, AppendFacts
<1>12. Flow' = f
  BY <1>2
<1> HIDE DEF f
<1>13. ASSUME NEW k \in 1 .. Len(f)
       PROVE  /\ f[k].part <= life /\ f[k].item.no <= requests
              /\ f[k].part = life => f[k].item.tnx \in 1 .. op_id["subject"] + 1
  <2>1. CASE k = N + 1
    BY <1>1, <1>2, <1>8, <1>9, <1>11, <2>1, SMTT(30)
  <2>2. CASE k \in 1 .. N
    BY <1>2, <1>10, <1>11, <2>2, SMTT(30)
  <2> QED
    BY <1>11, <2>1, <2>2
<1>14. ASSUME NEW k \in 1 .. N, queue[k].part = life, queue[k].item.no # 0
       PROVE  r.item.tnx = queue[k].item.tnx <=> r.item.no = queue[k].item.no
  <2>1. CASE tnx[n] <= 0
    BY <1>1, <1>2, <1>8, <1>9, <1>10, <1>14, <2>1, SMTT(30)
  <2>2. CASE tnx[n] > 0
    <3>1. PICK i \in 1 .. N : queue[i].part = life /\ queue[i].item.no = requests
                              /\ queue[i].item.tnx = tnx[n]
      BY <1>8, <2>2
    <3>2. r.item.tnx = queue[i].item.tnx /\ r.item.no = queue[i].item.no
          /\ queue[i].item.no # 0
      BY <1>1, <1>8, <1>9, <2>2, <3>1
    <3> QED
      BY <1>10, <1>14, <3>1, <3>2
  <2> QED
    BY <1>1, <2>1, <2>2
<1>15. ASSUME NEW j \in 1 .. Len(f), NEW k \in 1 .. Len(f),
              f[j].part = f[k].part, f[j].item.no # 0, f[k].item.no # 0
       PROVE  f[j].item.tnx = f[k].item.tnx <=> f[j].item.no = f[k].item.no
  <2>1. CASE j \in 1 .. N /\ k \in 1 .. N
    BY <1>10, <1>11, <1>15, <2>1
  <2>2. CASE j = N + 1 /\ k \in 1 .. N
    <3>1. f[j] = r /\ f[k] = queue[k]
      BY <1>11, <2>2
    <3> QED
      BY <1>9, <1>14, <1>15, <2>2, <3>1
  <2>3. CASE k = N + 1 /\ j \in 1 .. N
    <3>1. f[k] = r /\ f[j] = queue[j]
      BY <1>11, <2>3
    <3> QED
      BY <1>9, <1>14, <1>15, <2>3, <3>1
  <2>4. CASE j = N + 1 /\ k = N + 1
    BY <2>4
  <2> QED
    BY <1>11, <2>1, <2>2, <2>3, <2>4
<1>16. TnxOfRecords(Flow)'
  BY <1>1, <1>2, <1>12, <1>13, <1>15, SMTT(30) DEF TnxOfRecords
<1>17. ASSUME NEW k \in 1 .. Len(f), f[k].part = life, f[k].item.no = requests
       PROVE  f[k].item.tnx = RequestTnx'
  <2>1. RequestTnx' = r.item.tnx
    BY <1>1, <1>2, <1>9 DEF RequestTnx
  <2>2. CASE k = N + 1
    BY <1>11, <2>1, <2>2
  <2>3. CASE k \in 1 .. N
    <3>1. queue[k].item.tnx = tnx[n] /\ tnx[n] > 0
      BY <1>8, <1>11, <1>17, <2>3
    <3> QED
      BY <1>1, <1>9, <1>11, <2>1, <2>3, <3>1
  <2> QED
    BY <1>11, <2>2, <2>3
<1>18. N + 1 \in 1 .. Len(f) /\ f[N + 1].part = life /\ f[N + 1].item.no = requests
  BY <1>9, <1>11
<1>19. \A k \in 1 .. Len(Box') : \E j \in 1 .. Len(Box) : Box'[k] = Box[j]
  BY <1>2, BoxType, TailFacts
<1>20. TnxOfRequest(Flow)'
  <2>1. \A k \in 1 .. Len(Box') : Box'[k].kind = "save" =>
          /\ Box'[k].item.no = requests /\ Box'[k].item.tnx = tnx[n]
          /\ Box'[k].item.cmd = "put"
    BY <1>6, <1>19 DEF TnxBody, TnxOfRequest
  <2> QED
    BY <1>1, <1>2, <1>3, <1>7, <1>8, <1>12, <1>17, <1>18, <2>1, SMTT(30) DEF TnxOfRequest
<1> QED
  BY <1>1, <1>6, <1>16, <1>20 DEF TnxBody, JobIsPut

\* Every step keeps transactions apart.
LEMMA TnxStep ==
  ASSUME BaseInv, CallInv, TnxInv, [Next]_vars
  PROVE  TnxInv'
<1>1. UNCHANGED setting
  BY DEF Next, vars
<1> SUFFICES ASSUME PutsOnly, Calm, TypeInv, CallBody, TnxBody PROVE TnxBody'
  <2>1. PutsOnly' <=> PutsOnly
    BY <1>1 DEF PutsOnly, Starting
  <2>2. PutsOnly => Calm
    BY DEF PutsOnly, Calm
  <2> QED
    BY <2>1, <2>2 DEF TnxInv, BaseInv, CallInv
<1> DEFINE n == "n_channel"
<1>2. /\ Threads = {n} /\ Managers = {"subject", "ticket"} /\ op_id \in [Managers -> Nat]
      /\ inbox \in [Managers -> Seq(FindMsg \cup SaveMsg)] /\ pc \in [Threads -> Places]
  BY OneThread DEF PutsOnly, Managers, TypeInv, ManagerType, MailType, ClientType
<1>3. ASSUME ~Works(n)', TnxOfRecords(Flow)' PROVE TnxBody'
  BY <1>3 DEF TnxBody, JobIsPut, TnxOfRequest
<1>4. CASE \E t \in Threads : ClientMove(t)
  BY <1>1, <1>2, <1>4, TnxClient
<1>5. CASE HandleFind
  <2>1. /\ Box # <<>> /\ Box' = Tail(Box)
        /\ UNCHANGED <<job, tnx, mbox, managerVars, subject_manager_op_id, queue, life, requests>>
        /\ pc' = [pc EXCEPT ![Head(inbox["subject"]).from] = "found"]
        /\ Head(inbox["subject"]).kind = "find"
    BY <1>2, <1>5 DEF HandleFind, Handles, Box
  <2>2. /\ Head(inbox["subject"]).from = n /\ Head(inbox["subject"]) = inbox["subject"][1]
        /\ 1 \in 1 .. Len(inbox["subject"])
    BY <1>2, <2>1, HeadOfBox DEF Box
  <2>3. PendingFits("subject", inbox["subject"][1])
    BY <1>2, <2>2 DEF CallBody, CallPending
  <2>4. pc[n] = "find" /\ pc'[n] = "found"
    BY <1>2, <2>1, <2>2, <2>3 DEF PendingFits
  <2>5. Flow' = Flow /\ op_id' = op_id
    BY <2>1 DEF Flow, InHand, managerVars
  <2>6. TnxOfRecords(Flow)'
    BY <2>1, <2>5, RecordsFrame DEF TnxBody
  <2>7. \A k \in 1 .. Len(Box') : \E j \in 1 .. Len(Box) : Box'[k] = Box[j]
    BY <2>1, BoxType, TailFacts
  <2>8. TnxOfRequest(Flow)'
    BY <2>1, <2>4, <2>5, <2>7 DEF TnxBody, TnxOfRequest, Works, RequestTnx
  <2> QED
    BY <2>1, <2>4, <2>6, <2>8 DEF TnxBody, JobIsPut, Works
<1>6. CASE HandleSave("subject")
  BY <1>6, TnxWrite
<1>7. CASE HandleSave("ticket")
  <2>1. /\ UNCHANGED <<pc, job, queue, life, requests>> /\ Handles("ticket", "save")
        /\ op_id'["subject"] = op_id["subject"] /\ cur'["subject"] = cur["subject"]
        /\ at'["subject"] = at["subject"] /\ Reply(Sender("ticket"), "ticket", "Ok")
    <3>1. at \in [Managers -> {"loop", "replied", "informed"}]
          /\ cur \in [Managers -> SaveMsg \cup {<<>>}]
      BY DEF TypeInv, ManagerType
    <3> QED
      BY <1>2, <1>7, <3>1 DEF HandleSave, clientVars
  <2>2. PICK t : t = Sender("ticket")
    OBVIOUS
  <2>3. t \in Threads /\ pc[t] = "ticket"
    BY <1>2, <2>1, <2>2, ResultSent
  <2>4. Flow' = Flow
    BY <2>1 DEF Flow, InHand
  <2> QED
    BY <1>2, <1>3, <2>1, <2>3, <2>4, RecordsFrame DEF TnxBody, Works
<1>8. ASSUME NEW m \in Managers, StoreFails(m)
      PROVE  TnxBody'
  <2>1. m = "subject" /\ Head(inbox[m]).item.cmd = "remove" /\ inbox[m] # <<>>
        /\ Head(inbox[m]).kind = "save"
    BY <1>8 DEF StoreFails, PutsOnly, Handles
  <2>2. Head(inbox[m]) = Box[1] /\ 1 \in 1 .. Len(Box) /\ Box[1].from = n
    BY <1>2, <2>1, HeadOfBox DEF Box
  <2>3. PendingFits("subject", Box[1])
    BY <1>2, <2>2 DEF CallBody, CallPending, Box
  <2>4. Works(n)
    BY <2>1, <2>2, <2>3 DEF PendingFits, Works
  <2> QED
    BY <2>1, <2>2, <2>4 DEF TnxBody, TnxOfRequest
<1>9. CASE Restart
  <2>1. /\ pc'[n] = "idle" /\ requests' = requests /\ life' = life + 1 /\ life \in Nat
        /\ Flow' = queue
    BY <1>2, <1>9 DEF Restart, TypeInv, DataType, Flow
  <2>2. \A k \in 1 .. Len(queue) : k \in 1 .. Len(Flow) /\ queue[k] = Flow[k]
    BY QueueOfFlow
  <2>3. \A k \in 1 .. Len(queue) : queue[k].part \in Nat
    <3>1. \A k \in 1 .. Len(queue) : queue[k] \in Rec
      BY FlowType
    <3> QED
      BY <3>1 DEF Rec
  <2>5. /\ \A k \in 1 .. Len(queue) : /\ queue[k].part <= life
                                        /\ queue[k].item.no <= requests
        /\ \A j, k \in 1 .. Len(queue) :
             queue[j].part = queue[k].part /\ queue[j].item.no # 0 /\ queue[k].item.no # 0 =>
               (queue[j].item.tnx = queue[k].item.tnx <=>
                  queue[j].item.no = queue[k].item.no)
    BY <2>2, SMTT(30) DEF TnxBody, TnxOfRecords
  <2>6. \A k \in 1 .. Len(queue) : queue[k].part <= life + 1 /\ queue[k].part # life + 1
    BY <2>1, <2>3, <2>5
  <2>4. TnxOfRecords(Flow)'
    BY <2>1, <2>5, <2>6 DEF TnxOfRecords
  <2> QED
    BY <1>3, <2>1, <2>4 DEF Works
<1>10. CASE Quiet
  <2>1. UNCHANGED <<clientVars, mbox, inbox, subject_manager_op_id, requests, life, op_id>>
        /\ Flow' = Flow
    BY <1>10 DEF Quiet
  <2>2. TnxOfRecords(Flow)'
    BY <2>1, RecordsFrame DEF TnxBody
  <2>3. TnxOfRequest(Flow)'
    BY <2>1 DEF TnxBody, TnxOfRequest, Works, RequestTnx, clientVars, Box
  <2> QED
    BY <2>1, <2>2, <2>3 DEF TnxBody, JobIsPut, Works, clientVars
<1> QED
  BY <1>2, <1>4, <1>5, <1>6, <1>7, <1>8, <1>9, <1>10, CalmSteps

\* The records of one start with the same tnx_id are the records of one
\* request: for requests of any length and number, and any number of crashes.
THEOREM TransactionTheorem == Spec => []TransactionIsRequest
<1>1. Init => TnxInv
  <2> SUFFICES ASSUME Init PROVE TnxBody
    BY DEF TnxInv
  <2>1. Flow = <<>> /\ Len(<<>>) = 0 /\ setting \in Settings
    BY EmptySeq DEF Init, Flow, Managers
  <2>2. ~Works("n_channel")
    BY <2>1, SettingFacts DEF Works, Init
  <2> QED
    BY <2>1, <2>2 DEF TnxBody, JobIsPut, TnxOfRecords, TnxOfRequest
<1>2. BaseInv /\ TnxInv => TransactionIsRequest
  <2> SUFFICES ASSUME TypeInv, TnxOfRecords(Flow),
                      NEW j \in DOMAIN queue, NEW k \in DOMAIN queue,
                      queue[j].part = queue[k].part, queue[j].item.no # 0,
                      queue[k].item.no # 0
               PROVE  queue[j].item.tnx = queue[k].item.tnx <=>
                        queue[j].item.no = queue[k].item.no
    BY DEF BaseInv, TnxInv, TnxBody, PutsOnly, TransactionIsRequest
  <2>1. queue \in Seq(Rec)
    BY FlowType
  <2>2. DOMAIN queue = 1 .. Len(queue)
    BY <2>1
  <2>3. /\ j \in 1 .. Len(Flow) /\ queue[j] = Flow[j]
        /\ k \in 1 .. Len(Flow) /\ queue[k] = Flow[k]
    BY <2>2, QueueOfFlow
  <2> QED
    BY <2>3 DEF TnxOfRecords
<1>3. BaseInv /\ CallInv /\ TnxInv /\ [Next]_vars => TnxInv'
  BY TnxStep
<1>4. BaseInv /\ CallInv /\ [Next]_vars => CallInv'
  BY CallStep DEF BaseInv
<1> QED
  BY <1>1, <1>2, <1>3, <1>4, BaseInit, BaseStep, CallsInit, PTL DEF Spec
-----------------------------------------------------------------------------
(***************************************************************************)
(* The access index.                                                       *)
(***************************************************************************)

\* Steps that leave the access index alone.
LEMMA AclFrame ==
  ASSUME AclBody, acl' = acl, op_id'["subject"] = op_id["subject"],
         OkArrived("n_channel")' => /\ OkArrived("n_channel")
                                    /\ UNCHANGED subject_manager_op_id,
         \A a \in answers' : a.rc = "Ok" /\ a.acl => a \in answers
  PROVE  AclBody'
<1>1. AclType' /\ OpOfAnswer' /\ EventsInOrder'
  BY DEF AclBody, AclType, OpOfAnswer, EventsInOrder
<1>2. EventOfAnswer'
  BY DEF AclBody, EventOfAnswer, OkAnswers
<1> QED
  BY <1>1, <1>2 DEF AclBody

\* An answer that sends an event.
LEMMA AclEvent ==
  ASSUME TypeInv, CallBody, AclBody, Steady, UNCHANGED setting,
         SaveAnswered("n_channel"),
         NEW e \in Event, acl' = [acl EXCEPT !.inbox = Append(@, e)],
         OkArrived("n_channel"), e.req = job["n_channel"].req,
         e.op = subject_manager_op_id
  PROVE  AclBody'
<1> DEFINE n == "n_channel"
           q == acl.inbox
<1>1. /\ n \in Threads /\ ClientMove(n) /\ op_id' = op_id /\ op_id["subject"] \in Nat
      /\ mbox'[n] = <<>>
  <2>1. n \in Threads /\ ClientMove(n)
    BY OneThread DEF Steady, ClientMove
  <2> QED
    BY <2>1, FlowOfMove, ClientMoveFacts DEF TypeInv, ManagerType, Managers
<1>2. /\ acl.inbox \in Seq(Event) /\ acl.l_op_id \in Nat /\ acl.info = acl.l_op_id
      /\ acl'.inbox = Append(q, e) /\ acl'.l_op_id = acl.l_op_id
      /\ acl'.info = acl.info /\ acl'.applied = acl.applied
      /\ acl' \in [inbox: Seq(Event), l_op_id: Nat, committed: Nat, info: Nat,
                   applied: SUBSET Nat]
  <2>1. AclType /\ EventsInOrder
    BY DEF AclBody
  <2>2. acl.inbox \in Seq(Event) /\ acl.l_op_id \in Nat /\ acl.info = acl.l_op_id
    BY <2>1 DEF AclType, EventsInOrder
  <2>3. Append(acl.inbox, e) \in Seq(Event)
    BY <2>2, AppendFacts
  <2> QED
    BY <2>1, <2>2, <2>3 DEF AclType
<1>3. /\ e.op = op_id["subject"] /\ acl.l_op_id < op_id["subject"]
      /\ \A k \in 1 .. Len(q) : q[k].op < op_id["subject"]
  BY DEF AclBody, OpOfAnswer
<1>4. /\ \A k \in 1 .. Len(q) : q[k].op > acl.l_op_id
      /\ \A j, k \in 1 .. Len(q) : j < k => q[j].op < q[k].op
  BY DEF AclBody, EventsInOrder
<1> HIDE DEF q
<1> DEFINE g == Append(q, e)
<1>5. /\ Len(q) \in Nat /\ Len(g) = Len(q) + 1 /\ g[Len(q) + 1] = e
      /\ \A k \in 1 .. Len(q) : g[k] = q[k]
  BY <1>2, AppendFacts DEF q
<1>6. acl'.inbox = g
  BY <1>2 DEF q
<1> HIDE DEF g
<1>7. \A k \in 1 .. Len(g) : g[k].op > acl.l_op_id /\ g[k].op <= op_id["subject"]
  <2> SUFFICES ASSUME NEW k \in 1 .. Len(g)
               PROVE  g[k].op > acl.l_op_id /\ g[k].op <= op_id["subject"]
    OBVIOUS
  <2>1. CASE k = Len(q) + 1
    BY <1>1, <1>2, <1>3, <1>5, <2>1
  <2>2. CASE k \in 1 .. Len(q)
    <3>1. q[k].op \in Nat
      <4>1. q[k] \in Event
        BY <1>2, <2>2 DEF q
      <4> QED
        BY <4>1 DEF Event
    <3> QED
      BY <1>1, <1>2, <1>3, <1>4, <1>5, <2>2, <3>1
  <2> QED
    BY <1>5, <2>1, <2>2
<1>8. ASSUME NEW j \in 1 .. Len(g), NEW k \in 1 .. Len(g), j < k
      PROVE  g[j].op < g[k].op
  <2>1. j \in 1 .. Len(q)
    BY <1>5, <1>8
  <2>2. CASE k = Len(q) + 1
    BY <1>3, <1>5, <2>1, <2>2
  <2>3. CASE k \in 1 .. Len(q)
    BY <1>4, <1>5, <1>8, <2>1, <2>3
  <2> QED
    BY <1>5, <2>2, <2>3
<1>9. EventsInOrder'
  BY <1>1, <1>2, <1>3, <1>6, <1>7, <1>8 DEF EventsInOrder
<1>10. OpOfAnswer'
  BY <1>1 DEF OpOfAnswer, OkArrived
<1>11. ASSUME NEW a \in answers', a.rc = "Ok", a.acl
       PROVE  \/ a.req \in acl'.applied
              \/ \E k \in 1 .. Len(g) : g[k] = [req |-> a.req, op |-> a.op]
  <2>1. CASE a \in answers
    <3>1. \/ a.req \in acl.applied
          \/ \E k \in 1 .. Len(q) : q[k] = [req |-> a.req, op |-> a.op]
      BY <1>11, <2>1 DEF AclBody, EventOfAnswer, OkAnswers, q
    <3> QED
      BY <1>2, <1>5, <3>1
  <2>2. CASE a \notin answers
    <3>1. a.req = job[n].req /\ a.op = subject_manager_op_id
      BY <1>1, <1>11, <2>2, AnswerOfMove
    <3>2. e = [req |-> a.req, op |-> a.op]
      BY <3>1 DEF Event
    <3> QED
      BY <1>5, <3>2
  <2> QED
    BY <2>1, <2>2
<1>12. EventOfAnswer'
  BY <1>6, <1>11 DEF EventOfAnswer, OkAnswers
<1> QED
  BY <1>2, <1>9, <1>10, <1>12 DEF AclBody, AclType

\* The acl_manager applies an event.
LEMMA AclApplies ==
  ASSUME TypeInv, AclBody, HandleAcl, "acl" \notin setting.failures
  PROVE  AclBody'
<1> DEFINE q == acl.inbox
           e == Head(acl.inbox)
<1>1. /\ q # <<>> /\ UNCHANGED <<op_id, subject_manager_op_id, answers, job, pc, mbox>>
      /\ acl' = [acl EXCEPT !.inbox = Tail(q), !.l_op_id = e.op, !.info = e.op,
                            !.applied = acl.applied \cup {e.req}]
  BY DEF HandleAcl, managerVars, history, clientVars
<1>2. q \in Seq(Event) /\ acl.l_op_id \in Nat /\ op_id["subject"] \in Nat
  BY DEF AclBody, AclType, TypeInv, ManagerType, Managers
<1>3. /\ Tail(q) \in Seq(Event) /\ e = q[1] /\ e \in Event /\ 1 \in 1 .. Len(q)
      /\ Len(q) \in Nat
      /\ \A k \in 1 .. Len(Tail(q)) : k + 1 \in 1 .. Len(q) /\ Tail(q)[k] = q[k + 1]
                                      /\ k \in Nat \ {0}
      /\ Len(Tail(q)) = Len(q) - 1
  BY <1>1, <1>2, TailFacts
<1>4. e.req \in Nat /\ e.op \in Nat
  BY <1>3 DEF Event
<1> HIDE DEF q, e
<1>5. /\ acl'.inbox = Tail(q) /\ acl'.l_op_id = e.op /\ acl'.info = e.op
      /\ acl'.applied = acl.applied \cup {e.req} /\ AclType'
  <2>1. AclType
    BY DEF AclBody
  <2> QED
    BY <1>1, <1>3, <1>4, <2>1 DEF AclType
<1>6. /\ \A k \in 1 .. Len(q) : q[k].op <= op_id["subject"]
      /\ \A j, k \in 1 .. Len(q) : j < k => q[j].op < q[k].op
  BY DEF AclBody, EventsInOrder, q
<1>7. EventsInOrder'
  <2>1. \A k \in 1 .. Len(Tail(q)) : Tail(q)[k].op > e.op /\ Tail(q)[k].op <= op_id["subject"]
    <3> SUFFICES ASSUME NEW k \in 1 .. Len(Tail(q))
                 PROVE  Tail(q)[k].op > e.op /\ Tail(q)[k].op <= op_id["subject"]
      OBVIOUS
    <3>1. 1 < k + 1 /\ k + 1 \in 1 .. Len(q) /\ Tail(q)[k] = q[k + 1]
      BY <1>3
    <3>2. q[k + 1] \in Event
      BY <1>2, <3>1 DEF q
    <3>3. q[k + 1].op \in Nat /\ q[1].op < q[k + 1].op /\ q[k + 1].op <= op_id["subject"]
      BY <1>3, <1>6, <3>1, <3>2 DEF Event
    <3> QED
      BY <1>3, <1>4, <3>1, <3>3
  <2>2. \A j, k \in 1 .. Len(Tail(q)) : j < k => Tail(q)[j].op < Tail(q)[k].op
    BY <1>3, <1>6
  <2>3. e.op <= op_id["subject"]
    BY <1>3, <1>6
  <2> QED
    BY <1>1, <1>5, <2>1, <2>2, <2>3 DEF EventsInOrder
<1>8. OpOfAnswer'
  <2>1. OkArrived("n_channel")' <=> OkArrived("n_channel")
    BY <1>1 DEF OkArrived
  <2>2. OkArrived("n_channel") => /\ subject_manager_op_id = op_id["subject"]
                                  /\ \A k \in 1 .. Len(q) : q[k].op < op_id["subject"]
    BY DEF AclBody, OpOfAnswer, q
  <2> QED
    BY <1>1, <1>3, <1>5, <2>1, <2>2 DEF OpOfAnswer
<1>9. ASSUME NEW a \in OkAnswers, a.acl
      PROVE  \/ a.req \in acl'.applied
             \/ \E k \in 1 .. Len(Tail(q)) : Tail(q)[k] = [req |-> a.req, op |-> a.op]
  <2>1. CASE a.req \in acl.applied
    BY <1>5, <2>1
  <2>2. ASSUME NEW k \in 1 .. Len(q), q[k] = [req |-> a.req, op |-> a.op]
        PROVE  \/ a.req \in acl'.applied
               \/ \E j \in 1 .. Len(Tail(q)) : Tail(q)[j] = [req |-> a.req, op |-> a.op]
    <3>1. CASE k = 1
      BY <1>3, <1>5, <2>2, <3>1
    <3>2. CASE k # 1
      <4>1. k - 1 \in 1 .. Len(Tail(q)) /\ (k - 1) + 1 = k
        BY <1>3, <3>2
      <4>2. Tail(q)[k - 1] = q[k]
        BY <1>3, <4>1
      <4> QED
        BY <2>2, <4>1, <4>2
    <3> QED
      BY <3>1, <3>2
  <2> QED
    BY <1>9, <2>1, <2>2 DEF AclBody, EventOfAnswer, q
<1>10. EventOfAnswer'
  <2>1. OkAnswers' = OkAnswers
    BY <1>1 DEF OkAnswers
  <2> QED
    BY <1>5, <1>9, <2>1, ZenonT(30) DEF EventOfAnswer
<1> QED
  BY <1>5, <1>7, <1>8, <1>10 DEF AclBody

\* Every step keeps the access index up with what it reports.
LEMMA AclStep ==
  ASSUME BaseInv, CallInv, AclInv, [Next]_vars
  PROVE  AclInv'
<1>1. UNCHANGED setting
  BY DEF Next, vars
<1> SUFFICES ASSUME Steady, Calm, TypeInv, CallBody, AclBody PROVE AclBody'
  <2>1. Steady' <=> Steady
    BY <1>1 DEF Steady, Crash, Starting
  <2>2. Steady => Calm
    BY DEF Steady, Calm
  <2> QED
    BY <2>1, <2>2 DEF AclInv, BaseInv, CallInv
<1> DEFINE n == "n_channel"
<1>2. /\ Threads = {n} /\ Managers = {"subject", "ticket"} /\ op_id \in [Managers -> Nat]
      /\ n \in Threads
  BY OneThread DEF Steady, Managers, TypeInv, ManagerType
<1>3. ~Restart
  <2>1. life \in Nat /\ setting.crashes \in Nat
    BY SettingFacts, MStorageAssumption DEF TypeInv, DataType
  <2> QED
    BY <2>1 DEF Restart, Steady, Crash
<1>4. CASE ClientMove(n)
  <2>1. op_id' = op_id /\ UNCHANGED subject_manager_op_id /\ mbox'[n] = <<>>
    BY <1>2, <1>4, FlowOfMove, ClientMoveFacts
  <2>2. ~OkArrived(n)'
    BY <2>1 DEF OkArrived
  <2> DEFINE e == [req |-> job[n].req, op |-> subject_manager_op_id]
  <2>3. CASE SaveAnswered(n) /\ acl' # acl
    <3>1. /\ Received(n, "subject") = "Ok" /\ pc[n] = "save" /\ mbox[n] # <<>>
          /\ acl' = [acl EXCEPT !.inbox = Append(@, e)]
      BY <2>3 DEF SaveAnswered, PrepareEvent
    <3>2. OkArrived(n)
      <4>1. Head(mbox[n]) = mbox[n][1]
        BY <1>2, <2>3, ResultTaken DEF SaveAnswered
      <4> QED
        BY <3>1, <4>1 DEF OkArrived, Received
    <3>3. e \in Event /\ e.req = job[n].req /\ e.op = subject_manager_op_id
      BY <1>2 DEF Event, TypeInv, ClientType, Jobs, ManagerType
    <3> HIDE DEF e
    <3> QED
      BY <1>1, <2>3, <3>1, <3>2, <3>3, AclEvent
  <2>4. CASE acl' = acl
    <3>1. ASSUME NEW a \in answers', a.rc = "Ok", a.acl, a \notin answers
          PROVE  FALSE
      <4>1. /\ SaveAnswered(n) /\ OkArrived(n)
            /\ job[n].target = "all" /\ IsAcl(Uri(n))
        BY <1>2, <1>4, <3>1, AnswerOfMove
      <4>2. Head(mbox[n]) = mbox[n][1]
        BY <1>2, <4>1, ResultTaken DEF SaveAnswered
      <4>3. mbox[n][1].from = "subject"
        BY <1>2, <4>1 DEF CallBody, CallAnswered, AnswerFits, OkArrived
      <4>4. Received(n, "subject") = "Ok"
        BY <4>1, <4>2, <4>3 DEF Received, OkArrived
      <4>5. acl' = [acl EXCEPT !.inbox = Append(@, e)]
        BY <4>1, <4>4 DEF SaveAnswered, PrepareEvent
      <4>6. acl.inbox \in Seq(Event)
        BY DEF AclBody, AclType
      <4>7. e \in Event
        BY <1>2 DEF Event, TypeInv, ClientType, Jobs, ManagerType
      <4> HIDE DEF e
      <4>8. acl'.inbox = Append(acl.inbox, e)
        BY <4>5 DEF AclBody, AclType
      <4>9. Len(acl'.inbox) = Len(acl.inbox) + 1 /\ Len(acl.inbox) \in Nat
        BY <4>6, <4>7, <4>8, AppendFacts
      <4> QED
        BY <2>4, <4>9
    <3> QED
      BY <2>1, <2>2, <2>4, <3>1, AclFrame
  <2>5. acl' = acl \/ SaveAnswered(n)
    BY <1>4 DEF ClientMove, Request, Authenticate, InitTicket, InitPermission,
         SaveTicket, CallFind, AddToTransaction, Refuse, SaveRemove, TicketAnswered
  <2> QED
    BY <2>3, <2>4, <2>5
<1>5. ASSUME OkArrived(n)', ~HandleSave("subject") PROVE OkArrived(n) /\ Free(n)
  BY <1>2, <1>5, OkStep
<1>6. CASE HandleFind \/ \E m \in Managers : StoreFails(m)
  <2>1. UNCHANGED <<acl, op_id, subject_manager_op_id, answers>>
    BY <1>6 DEF HandleFind, StoreFails, managerVars, history
  <2>2. ~HandleSave("subject")
    BY <1>2, <2>1 DEF HandleSave
  <2> QED
    BY <1>5, <2>1, <2>2, AclFrame
<1>7. CASE HandleSave("ticket")
  <2>1. /\ UNCHANGED <<acl, answers>> /\ op_id'["subject"] = op_id["subject"]
        /\ inbox["ticket"] # <<>>
    BY <1>2, <1>7 DEF HandleSave, Handles
  <2>2. ~HandleSave("subject")
    BY <1>2, <2>1 DEF HandleSave
  <2>3. Head(inbox["ticket"]).from = n /\ 1 \in 1 .. Len(inbox["ticket"])
        /\ Head(inbox["ticket"]) = inbox["ticket"][1]
    BY <1>2, <2>1, HeadOfBox
  <2>4. ~Free(n)
    BY <1>2, <2>3 DEF Free
  <2> QED
    BY <1>5, <2>1, <2>2, <2>4, AclFrame
<1>8. CASE HandleSave("subject")
  <2>1. /\ UNCHANGED <<acl, answers>> /\ op_id'["subject"] = op_id["subject"] + 1
        /\ subject_manager_op_id' = op_id["subject"] + 1 /\ op_id["subject"] \in Nat
    BY <1>2, <1>8 DEF HandleSave
  <2>2. /\ acl.l_op_id \in Nat /\ \A k \in 1 .. Len(acl.inbox) : acl.inbox[k].op \in Nat
    <3>1. acl.inbox \in Seq(Event) /\ acl.l_op_id \in Nat
      BY DEF AclBody, AclType
    <3> QED
      <4> SUFFICES ASSUME NEW k \in 1 .. Len(acl.inbox) PROVE acl.inbox[k].op \in Nat
        BY <3>1
      <4>1. acl.inbox[k] \in Event
        BY <3>1
      <4> QED
        BY <4>1 DEF Event
  <2>3. OpOfAnswer' /\ EventsInOrder'
    BY <2>1, <2>2 DEF AclBody, OpOfAnswer, EventsInOrder
  <2>4. AclType' /\ EventOfAnswer'
    BY <2>1 DEF AclBody, AclType, EventOfAnswer, OkAnswers
  <2> QED
    BY <2>3, <2>4 DEF AclBody
<1>9. CASE HandleAcl
  BY <1>9, AclApplies DEF Steady
<1>10. CASE CommitAcl
  <2>1. /\ acl' = [acl EXCEPT !.committed = acl.l_op_id, !.info = acl.l_op_id]
        /\ UNCHANGED <<op_id, subject_manager_op_id, answers, pc, mbox>>
    BY <1>10 DEF CommitAcl, managerVars, history, clientVars
  <2>2. acl.info = acl.l_op_id /\ AclType
    BY DEF AclBody, EventsInOrder
  <2>3. /\ acl'.info = acl.info /\ acl'.inbox = acl.inbox /\ acl'.l_op_id = acl.l_op_id
        /\ acl'.applied = acl.applied /\ AclType'
    BY <2>1, <2>2 DEF AclType
  <2>4. OkArrived(n)' <=> OkArrived(n)
    BY <2>1 DEF OkArrived
  <2>5. OpOfAnswer' /\ EventsInOrder'
    BY <2>1, <2>3, <2>4 DEF AclBody, OpOfAnswer, EventsInOrder
  <2>6. EventOfAnswer'
    <3>1. OkAnswers' = OkAnswers
      BY <2>1 DEF OkAnswers
    <3>2. EventOfAnswer
      BY DEF AclBody
    <3> QED
      BY <2>3, <3>1, <3>2, ZenonT(30) DEF EventOfAnswer
  <2> QED
    BY <2>3, <2>5, <2>6 DEF AclBody
<1>11. CASE Quiet /\ acl' = acl
  <2>1. UNCHANGED <<op_id, subject_manager_op_id, answers, pc, mbox>>
    BY <1>11 DEF Quiet, clientVars, history
  <2>2. OkArrived(n)' => OkArrived(n)
    BY <2>1 DEF OkArrived
  <2> QED
    BY <1>11, <2>1, <2>2, AclFrame
<1>12. Quiet => acl' = acl \/ HandleAcl \/ CommitAcl \/ SaveAnswered(n)
  BY <1>2, <1>3 DEF Next, Step, vars, Request, Authenticate, InitTicket, InitPermission,
       SaveTicket, CallFind, AddToTransaction, Refuse, SaveRemove, TicketAnswered,
       HandleFind, HandleSave, StoreFails, PutInfo, CommitTick, Push, PushThrows
<1>13. SaveAnswered(n) => ClientMove(n)
  BY DEF ClientMove
<1> QED
  BY <1>2, <1>3, <1>4, <1>6, <1>7, <1>8, <1>9, <1>10, <1>11, <1>12, <1>13, CalmSteps

\* Once the acl_preparer reports the op_id answered for an access individual,
\* the access index holds it: for any number and kind of requests, while no
\* crash, failure or start is in the way.
THEOREM WaitedTheorem == Spec => []WaitedIsApplied
<1>1. Init => AclInv
  <2> SUFFICES ASSUME Init, Steady PROVE AclBody
    BY DEF AclInv
  <2>1. acl = [inbox |-> <<>>, l_op_id |-> 0, committed |-> 0, info |-> 0, applied |-> {}]
        /\ answers = {} /\ op_id["subject"] = 0 /\ Len(<<>>) = 0
    BY EmptySeq DEF Init, NewAcl, Managers
  <2>2. mbox["n_channel"] = <<>>
    BY SettingFacts DEF Init
  <2>3. AclType
    BY <2>1 DEF AclType
  <2>4. acl.inbox = <<>> /\ acl.l_op_id = 0 /\ acl.info = 0
    BY <2>1
  <2> QED
    BY <2>1, <2>2, <2>3, <2>4 DEF AclBody, OpOfAnswer, OkArrived, EventsInOrder,
                                  EventOfAnswer, OkAnswers
<1>2. AclInv => WaitedIsApplied
  <2> SUFFICES ASSUME AclBody, NEW a \in answers, a.rc = "Ok", a.acl, acl.info >= a.op
               PROVE  a.req \in acl.applied
    BY DEF AclInv, Steady, WaitedIsApplied
  <2> SUFFICES ASSUME NEW k \in 1 .. Len(acl.inbox),
                      acl.inbox[k] = [req |-> a.req, op |-> a.op]
               PROVE  FALSE
    BY DEF AclBody, EventOfAnswer, OkAnswers
  <2>1. acl.inbox \in Seq(Event) /\ acl.info \in Nat /\ acl.info = acl.l_op_id
    BY DEF AclBody, AclType, EventsInOrder
  <2>2. acl.inbox[k] \in Event /\ acl.inbox[k].op = a.op
    BY <2>1
  <2>3. a.op \in Nat /\ a.op > acl.info
    BY <2>1, <2>2 DEF Event, AclBody, EventsInOrder
  <2> QED
    BY <2>1, <2>3
<1>3. BaseInv /\ CallInv /\ AclInv /\ [Next]_vars => AclInv'
  BY AclStep
<1>4. BaseInv /\ CallInv /\ [Next]_vars => CallInv'
  BY CallStep DEF BaseInv
<1> QED
  BY <1>1, <1>2, <1>3, <1>4, BaseInit, BaseStep, CallsInit, PTL DEF Spec
=============================================================================
