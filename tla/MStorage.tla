------------------------------ MODULE MStorage ------------------------------
(***************************************************************************)
(* The storage process veda-mstorage (source/veda/mstorage): its threads   *)
(* and the mailboxes between them.                                         *)
(*                                                                         *)
(*   n_channel   executes the requests of all other processes one at a     *)
(*               time (nanomsg_channel, execute_json, add_to_transaction)  *)
(*   init        the main thread, which at each start creates the system   *)
(*               and guest tickets while n_channel already serves          *)
(*   subject     the individuals_manager that owns the individuals and     *)
(*               feeds the queue individuals-flow                          *)
(*   ticket      the individuals_manager that owns the tickets             *)
(*   acl         the acl_manager that owns the access index                *)
(*                                                                         *)
(* The content of an individual is abstracted to the number of its version *)
(* (v-s:updateCounter) and the mark v-s:deleted.  A crash is the death of  *)
(* the process: what was handed to the file system survives, mailboxes and *)
(* counters in memory do not.                                              *)
(***************************************************************************)
EXTENDS Integers, Sequences, FiniteSets

CONSTANTS
  Uris,        \* individuals that requests write
  AclUris,     \* the ones of type PermissionStatement, Membership, Filter
  Settings,    \* the settings of which a behaviour has one:
               \*   uris      the individuals it writes
               \*   commands  the request functions
               \*   targets   "all": assigned_subsystems = ALL_MODULES; "other":
               \*             a mask without the bits STORAGE and ACL
               \*   threads   {"n_channel"}, or with "init" to watch a start
               \*   failures  "store": the database refuses, "push": the queue
               \*             throws, "acl": the acl_manager cannot read a state,
               \*             or its database throws
               \*   items     bound: individuals in one request
               \*   requests  bound: requests
               \*   crashes   bound: crashes
  MaxCrash     \* bound of all crashes

ASSUME MStorageAssumption ==
  /\ AclUris \subseteq Uris
  /\ Uris \cap ((0 .. MaxCrash) \X {1, 2}) = {}   \* "p:" ~ ticket id is new
  /\ Settings \subseteq
       [uris: SUBSET Uris, commands: SUBSET {"put", "remove"},
        targets: SUBSET {"all", "other"},
        threads: {{"n_channel"}, {"n_channel", "init"}},
        failures: SUBSET {"store", "push", "acl"}, items: Nat, requests: Nat,
        crashes: 0 .. MaxCrash]
  /\ MaxCrash \in Nat

Managers == {"subject", "ticket"}

\* The permission individuals that init creates, "p:" ~ ticket id: new ones
\* at each start.
InitUris == (0 .. MaxCrash) \X {1, 2}
AllUris  == Uris \cup InitUris
IsAcl(u) == u \in AclUris \cup InitUris

Null  == [ctr |-> 0, deleted |-> FALSE]   \* no such individual
State == [ctr: Nat, deleted: BOOLEAN]

\* A transaction item on its way to a manager.  The numbers no (of the
\* request) and req (of the call of save()) are not in the code.
Item == [cmd: {"put", "remove"}, uri: AllUris \cup {"ticket"}, prev: State,
         new: State, tnx: Int, target: {"all", "other"}, no: Nat, req: Nat]
Find(t, u)  == [kind |-> "find", from |-> t, uri |-> u]
Save(t, it) == [kind |-> "save", from |-> t, item |-> it]

VARIABLES
  setting,   \* the setting of this behaviour
  pc,        \* of each client thread
  job,       \* the request it executes: command, uris still to do, target;
             \* no and req number the request and its last save()
  tnx,       \* transaction_id of the request
  prev,      \* prev_state that find() answered
  todo,      \* what init has still to do
  mbox,      \* (ResultCode, Tid) messages in the mailbox of each thread
  inbox,     \* mailbox of each manager
  at, cur,   \* where the handler of a manager is, and with what
  op_id, committed_op_id, info,   \* of each manager; info is its file
  subject_manager_op_id,          \* the atomic global of context.d
  store,     \* the database of individuals
  queue,     \* individuals-flow, part by part
  acl,       \* the acl_manager
  life,      \* number of this start, and of the part it writes
  requests,  \* requests so far
  saves,     \* calls of save() so far
  done,      \* history: what the subject manager did with each item
  answers    \* history: what add_to_transaction() answered

clientVars  == <<pc, job, tnx, prev, todo>>
managerVars == <<at, cur, op_id, committed_op_id, info>>
history     == <<saves, done, answers>>
vars == <<setting, clientVars, mbox, inbox, managerVars, subject_manager_op_id, store,
          queue, acl, life, requests, history>>

Threads == setting.threads
NoJob  == [cmd |-> "none", uris |-> <<>>, target |-> "all", no |-> 0, req |-> 0]
\* What init does: 0 is a ticket, k the permission k.  The guest ticket, the
\* last one, may be there from an earlier start.
InitTodo == IF "init" \in Threads THEN <<0, 0, 1, 0, 0, 2, 0>> ELSE <<>>
InitAgain == {InitTodo, SubSeq(InitTodo, 1, Len(InitTodo) - 1)}
NewAcl(i, done_) == [inbox |-> <<>>, l_op_id |-> 0, committed |-> 0, info |-> i,
                    applied |-> done_]

TypeOK ==
  /\ setting \in Settings
  /\ pc \in [Threads -> {"idle", "item", "find", "found", "save", "remove",
                         "ticket"}]
  /\ \A t \in Threads : /\ job[t].cmd \in {"none", "put", "remove"}
                        /\ job[t].uris \in Seq(AllUris)
                        /\ job[t].target \in {"all", "other"}
                        /\ tnx[t] \in Int
                        /\ prev[t] \in State
  /\ \A m \in Managers : /\ at[m] \in {"loop", "replied", "informed"}
                         /\ op_id[m] \in Nat
                         /\ committed_op_id[m] \in 0 .. op_id[m]
                         /\ info[m].op \in Nat
                         /\ info[m].committed \in 0 .. info[m].op
  /\ store \in [AllUris -> State]
  /\ \A k \in DOMAIN queue : queue[k].item \in Item
  /\ subject_manager_op_id \in Nat

Init ==
  /\ setting \in Settings
  /\ pc = [t \in Threads |-> "idle"]
  /\ job = [t \in Threads |-> NoJob]
  /\ tnx = [t \in Threads |-> 0]
  /\ prev = [t \in Threads |-> Null]
  /\ todo = InitTodo
  /\ mbox = [t \in Threads |-> <<>>]
  /\ inbox = [m \in Managers |-> <<>>]
  /\ at = [m \in Managers |-> "loop"]
  /\ cur = [m \in Managers |-> <<>>]
  /\ op_id = [m \in Managers |-> 0]
  /\ committed_op_id = [m \in Managers |-> 0]
  /\ info = [m \in Managers |-> [op |-> 0, committed |-> 0]]
  /\ subject_manager_op_id = 0
  /\ store = [u \in AllUris |-> Null]
  /\ queue = <<>>
  /\ acl = NewAcl(0, {})
  /\ life = 0
  /\ requests = 0
  /\ saves = 0 /\ done = {} /\ answers = {}
-----------------------------------------------------------------------------
(***************************************************************************)
(* The client threads.                                                     *)
(***************************************************************************)

\* Mutant of Request: transaction_id is not reset.
RequestKeepsTnx(c, us, tg) ==
  /\ pc["n_channel"] = "idle"
  /\ requests < setting.requests
  /\ requests' = requests + 1
  /\ pc' = [pc EXCEPT !["n_channel"] = "item"]
  /\ job' = [job EXCEPT !["n_channel"] =
               [cmd |-> c, uris |-> us, target |-> tg, no |-> requests',
                req |-> 0]]
  /\ UNCHANGED <<tnx, prev, todo, mbox, inbox, managerVars,
                 subject_manager_op_id, store, queue, acl, life, history>>

\* execute_json() of put, add_to, set_in, remove_from (all "put" here: they
\* differ in the new content only) and remove.
Request(c, us, tg) ==
  /\ pc["n_channel"] = "idle"
  /\ requests < setting.requests
  /\ requests' = requests + 1
  /\ pc' = [pc EXCEPT !["n_channel"] = "item"]
  /\ job' = [job EXCEPT !["n_channel"] =
               [cmd |-> c, uris |-> us, target |-> tg, no |-> requests',
                req |-> 0]]
  /\ tnx' = [tnx EXCEPT !["n_channel"] = 0]
  /\ UNCHANGED <<prev, todo, mbox, inbox, managerVars, subject_manager_op_id,
                 store, queue, acl, life, history>>

\* save() sends an item to manager m.
SendSave(t, m, it) ==
  /\ saves' = saves + 1
  /\ inbox' = [inbox EXCEPT ![m] = Append(@, Save(t, it))]

\* create_new_ticket(): the only effect of authenticate() modelled.
SaveTicket(t) ==
  /\ SendSave(t, "ticket",
       [cmd |-> "put", uri |-> "ticket", prev |-> Null, new |-> Null,
        tnx |-> -1, target |-> "all", no |-> 0, req |-> saves + 1])
  /\ pc' = [pc EXCEPT ![t] = "ticket"]
  /\ UNCHANGED <<job, tnx, prev, mbox, managerVars, subject_manager_op_id,
                 store, queue, acl, life, done, answers>>

Authenticate ==
  /\ pc["n_channel"] = "idle"
  /\ requests < setting.requests
  /\ requests' = requests + 1
  /\ SaveTicket("n_channel")
  /\ UNCHANGED todo

\* init() after the threads are started: sys_ticket() twice, each two saves
\* in the ticket database and one permission, then the guest ticket.
InitTicket ==
  /\ "init" \in Threads /\ pc["init"] = "idle"
  /\ todo # <<>> /\ Head(todo) = 0
  /\ todo' = Tail(todo)
  /\ SaveTicket("init")
  /\ UNCHANGED requests

InitPermission ==
  /\ "init" \in Threads /\ pc["init"] = "idle"
  /\ todo # <<>> /\ Head(todo) # 0
  /\ todo' = Tail(todo)
  /\ pc' = [pc EXCEPT !["init"] = "item"]
  /\ job' = [job EXCEPT !["init"] =
               [cmd |-> "put", uris |-> <<<<life, Head(todo)>>>>,
                target |-> "all", no |-> 0, req |-> 0]]
  /\ tnx' = [tnx EXCEPT !["init"] = -1]
  /\ UNCHANGED <<prev, mbox, inbox, managerVars, subject_manager_op_id, store,
                 queue, acl, life, requests, history>>

(***************************************************************************)
(* add_to_transaction() for the next individual of the request.            *)
(***************************************************************************)
Uri(t) == Head(job[t].uris)

\* Mutant of CallFind: an upsert that does not ask for the earlier state.
CallFindUpsert(t) ==
  /\ pc[t] = "item"
  /\ prev' = [prev EXCEPT ![t] = Null]
  /\ pc' = [pc EXCEPT ![t] = "found"]
  /\ UNCHANGED <<job, tnx, todo, mbox, inbox, managerVars,
                 subject_manager_op_id, store, queue, acl, life, requests,
                 history>>

\* find(): the state before the change is asked of the subject manager.
CallFind(t) ==
  /\ pc[t] = "item"
  /\ inbox' = [inbox EXCEPT !["subject"] = Append(@, Find(t, Uri(t)))]
  /\ pc' = [pc EXCEPT ![t] = "find"]
  /\ UNCHANGED <<job, tnx, prev, todo, mbox, managerVars,
                 subject_manager_op_id, store, queue, acl, life, requests,
                 history>>

TransactionItem(t, c, new) ==
  [cmd |-> c, uri |-> Uri(t), prev |-> prev[t], new |-> new, tnx |-> tnx[t],
   target |-> job[t].target, no |-> job[t].no, req |-> saves + 1]

\* A write, or the mark v-s:deleted that precedes a removal.
FirstItem(t) ==
  IF job[t].cmd = "put"
    THEN TransactionItem(t, "put", [ctr |-> prev[t].ctr + 1, deleted |-> FALSE])
  ELSE IF prev[t] # Null
    THEN TransactionItem(t, "put", [ctr |-> prev[t].ctr, deleted |-> TRUE])
    ELSE TransactionItem(t, "remove", Null)

AddToTransaction(t) ==
  /\ pc[t] = "found"
  /\ SendSave(t, "subject", FirstItem(t))
  /\ job' = [job EXCEPT ![t].req = saves + 1]
  /\ pc' = [pc EXCEPT ![t] = IF job[t].cmd = "remove" /\ prev[t] # Null
                               THEN "remove" ELSE "save"]
  /\ UNCHANGED <<tnx, prev, todo, mbox, managerVars, subject_manager_op_id,
                 store, queue, acl, life, requests, done, answers>>

\* The individual is done with: its answer, and the next one.  The first
\* op_id is the transaction_id of the rest of the request.
Answer(t, rc, op) ==
  /\ answers' = answers \cup
       {[req |-> job[t].req, rc |-> rc, op |-> op, life |-> life,
         acl |-> job[t].target = "all" /\ IsAcl(Uri(t))]}
  /\ job' = [job EXCEPT ![t].uris = Tail(@)]
  /\ tnx' = [tnx EXCEPT ![t] = IF @ <= 0 THEN op ELSE @]
  /\ pc' = [pc EXCEPT ![t] = IF Len(job[t].uris) = 1 THEN "idle" ELSE "item"]
  /\ UNCHANGED <<prev, todo>>

\* Not authorized, no content, too large: refused before save().
Refuse(t) ==
  /\ pc[t] = "found"
  /\ Answer(t, "NotAuthorized", -1)
  /\ UNCHANGED <<mbox, inbox, managerVars, subject_manager_op_id, store, queue,
                 acl, life, requests, saves, done>>

\* save() takes the oldest result code of its mailbox and the global op_id.
\* A code that another manager sent leaves rc at its initial value.
Received(t, m) == IF Head(mbox[t]).from = m THEN Head(mbox[t]).rc ELSE "zero"

\* The mark was answered: the removal itself follows.
SaveRemove(t) ==
  /\ pc[t] = "remove" /\ mbox[t] # <<>>
  /\ mbox' = [mbox EXCEPT ![t] = Tail(@)]
  /\ IF Received(t, "subject") = "Ok"
       THEN /\ SendSave(t, "subject", TransactionItem(t, "remove", Null))
            /\ job' = [job EXCEPT ![t].req = saves + 1]
            /\ pc' = [pc EXCEPT ![t] = "save"]
            /\ UNCHANGED <<tnx, prev, todo, answers>>
       ELSE /\ Answer(t, Received(t, "subject"), subject_manager_op_id)
            /\ UNCHANGED <<inbox, saves>>
  /\ UNCHANGED <<managerVars, subject_manager_op_id, store, queue, acl, life,
                 requests, done>>

\* Mutant of PrepareEvent: the op_id is one too high.
PrepareEventNextOp(t, rc, op) ==
  acl' = IF rc = "Ok" /\ job[t].target = "all" /\ IsAcl(Uri(t))
           THEN [acl EXCEPT !.inbox = Append(@, [req |-> job[t].req, op |-> op + 1])]
           ELSE acl

\* prepare_event(): an access individual is sent to the acl_manager.
PrepareEvent(t, rc, op) ==
  acl' = IF rc = "Ok" /\ job[t].target = "all" /\ IsAcl(Uri(t))
           THEN [acl EXCEPT !.inbox = Append(@, [req |-> job[t].req, op |-> op])]
           ELSE acl

SaveAnswered(t) ==
  /\ pc[t] = "save" /\ mbox[t] # <<>>
  /\ mbox' = [mbox EXCEPT ![t] = Tail(@)]
  /\ Answer(t, Received(t, "subject"), subject_manager_op_id)
  /\ PrepareEvent(t, Received(t, "subject"), subject_manager_op_id)
  /\ UNCHANGED <<inbox, managerVars, subject_manager_op_id, store, queue, life,
                 requests, saves, done>>

TicketAnswered(t) ==
  /\ pc[t] = "ticket" /\ mbox[t] # <<>>
  /\ mbox' = [mbox EXCEPT ![t] = Tail(@)]
  /\ pc' = [pc EXCEPT ![t] = "idle"]
  /\ UNCHANGED <<job, tnx, prev, todo, inbox, managerVars,
                 subject_manager_op_id, store, queue, acl, life, requests,
                 history>>
-----------------------------------------------------------------------------
(***************************************************************************)
(* individuals_manager().                                                  *)
(***************************************************************************)
Handles(m, k) == at[m] = "loop" /\ inbox[m] # <<>> /\ Head(inbox[m]).kind = k

\* Mutant of HandleFind: the thread goes on with the state it has read before.
HandleFindStale ==
  /\ Handles("subject", "find")
  /\ pc' = [pc EXCEPT ![Head(inbox["subject"]).from] = "found"]
  /\ inbox' = [inbox EXCEPT !["subject"] = Tail(@)]
  /\ UNCHANGED <<job, tnx, prev, todo, mbox, managerVars, subject_manager_op_id,
                 store, queue, acl, life, requests, history>>

\* CMD_FIND: the newest state, to the thread that waits in find().
HandleFind ==
  /\ Handles("subject", "find")
  /\ LET msg == Head(inbox["subject"]) IN
       /\ prev' = [prev EXCEPT ![msg.from] = store[msg.uri]]
       /\ pc' = [pc EXCEPT ![msg.from] = "found"]
  /\ inbox' = [inbox EXCEPT !["subject"] = Tail(@)]
  /\ UNCHANGED <<job, tnx, todo, mbox, managerVars, subject_manager_op_id,
                 store, queue, acl, life, requests, history>>

\* The thread that waits for the result of the message in hand.
Sender(m) == Head(inbox[m]).from

Reply(t, m, rc) == mbox' = [mbox EXCEPT ![t] = Append(@, [rc |-> rc, from |-> m])]

\* Mutant of Stores: assigned_subsystems is not looked at.
StoresAll(m, it) == m = "subject"

\* The item is for the database, and the database takes it.
Stores(m, it) == m = "subject" /\ it.target = "all"

HandleSave(m) ==
  /\ Handles(m, "save")
  /\ LET msg == Head(inbox[m])
         it  == msg.item
     IN  /\ Stores(m, it) /\ it.cmd = "remove" => store[it.uri] # Null
         /\ store' = IF Stores(m, it) THEN [store EXCEPT ![it.uri] = it.new]
                                      ELSE store
         /\ op_id' = [op_id EXCEPT ![m] = @ + 1]
         /\ subject_manager_op_id' = op_id'[m]
         /\ Reply(Sender(m), m, "Ok")
         /\ cur' = [cur EXCEPT ![m] = msg]
         /\ done' = IF m = "ticket" THEN done ELSE
                      done \cup {[req |-> it.req, op |-> op_id'[m]]}
  /\ at' = [at EXCEPT ![m] = "replied"]
  /\ inbox' = [inbox EXCEPT ![m] = Tail(@)]
  /\ UNCHANGED <<clientVars, committed_op_id, info, queue, acl, life, requests,
                 saves, answers>>

\* Mutant of StoreFails: the result of the database is not looked at.
StoreFailsOk(m) ==
  /\ Handles(m, "save")
  /\ LET it == Head(inbox[m]).item
     IN  /\ m = "ticket" \/ Stores(m, it)
         /\ \/ "store" \in setting.failures
            \/ m = "subject" /\ it.cmd = "remove" /\ store[it.uri] = Null
         /\ Reply(Sender(m), m, "Ok")
  /\ inbox' = [inbox EXCEPT ![m] = Tail(@)]
  /\ UNCHANGED <<clientVars, managerVars, subject_manager_op_id, store, queue,
                 acl, life, requests, history>>

\* The database refuses: a removal of what is not there, or an error.
StoreFails(m) ==
  /\ Handles(m, "save")
  /\ LET it == Head(inbox[m]).item
     IN  /\ m = "ticket" \/ Stores(m, it)
         /\ \/ "store" \in setting.failures
            \/ m = "subject" /\ it.cmd = "remove" /\ store[it.uri] = Null
         /\ Reply(Sender(m), m, "FailStore")
  /\ inbox' = [inbox EXCEPT ![m] = Tail(@)]
  /\ UNCHANGED <<clientVars, managerVars, subject_manager_op_id, store, queue,
                 acl, life, requests, history>>

\* Mutant of PutInfo: the two numbers are swapped.
PutInfoSwapped(m) ==
  /\ at[m] = "replied"
  /\ info' = [info EXCEPT ![m] = [op |-> committed_op_id[m], committed |-> op_id[m]]]
  /\ at' = [at EXCEPT ![m] = IF m = "subject" THEN "informed" ELSE "loop"]
  /\ UNCHANGED <<clientVars, mbox, inbox, cur, op_id, committed_op_id,
                 subject_manager_op_id, store, queue, acl, life, requests,
                 history>>

\* After the reply: put_info() ...
PutInfo(m) ==
  /\ at[m] = "replied"
  /\ info' = [info EXCEPT ![m] = [op |-> op_id[m], committed |-> committed_op_id[m]]]
  /\ at' = [at EXCEPT ![m] = IF m = "subject" THEN "informed" ELSE "loop"]
  /\ UNCHANGED <<clientVars, mbox, inbox, cur, op_id, committed_op_id,
                 subject_manager_op_id, store, queue, acl, life, requests,
                 history>>

\* The record of the item in hand, whose op_id is the transaction_id if the
\* request has none yet.
InHand ==
  [item |-> [cur["subject"].item EXCEPT
               !.tnx = IF @ <= 0 THEN op_id["subject"] ELSE @],
   op |-> op_id["subject"], part |-> life]

\* Mutant of Push: a change for other subsystems only is not queued.
PushAllOnly ==
  /\ at["subject"] = "informed"
  /\ queue' = IF cur["subject"].item.target = "all"
                THEN Append(queue, InHand) ELSE queue
  /\ at' = [at EXCEPT !["subject"] = "loop"]
  /\ UNCHANGED <<clientVars, mbox, inbox, cur, op_id, committed_op_id, info,
                 subject_manager_op_id, store, acl, life, requests, history>>

\* ... and, of the subject manager only, the push and the notification.
Push ==
  /\ at["subject"] = "informed"
  /\ queue' = Append(queue, InHand)
  /\ at' = [at EXCEPT !["subject"] = "loop"]
  /\ UNCHANGED <<clientVars, mbox, inbox, cur, op_id, committed_op_id, info,
                 subject_manager_op_id, store, acl, life, requests, history>>

\* An exception of push() is answered too, though the Ok was sent already.
PushThrows ==
  /\ "push" \in setting.failures
  /\ at["subject"] = "informed"
  /\ Reply(cur["subject"].from, "subject", "FailCommit")
  /\ at' = [at EXCEPT !["subject"] = "loop"]
  /\ UNCHANGED <<clientVars, inbox, cur, op_id, committed_op_id, info,
                 subject_manager_op_id, store, queue, acl, life, requests,
                 history>>

\* CMD_COMMIT, every 600 ms from the commiter thread.
CommitTick(m) ==
  /\ at[m] = "loop"
  /\ committed_op_id' = [committed_op_id EXCEPT ![m] = op_id[m]]
  /\ info' = IF committed_op_id[m] # op_id[m]
               THEN [info EXCEPT ![m] = [op |-> op_id[m], committed |-> op_id[m]]]
               ELSE info
  /\ UNCHANGED <<clientVars, mbox, inbox, at, cur, op_id,
                 subject_manager_op_id, store, queue, acl, life, requests,
                 history>>

\* acl_manager(): CMD_PUT and CMD_COMMIT.  The op_id is reported in a
\* "finally", after an early return or an exception too.
HandleAcl ==
  /\ acl.inbox # <<>>
  /\ \E fails \in {FALSE} \cup {f \in {TRUE} : "acl" \in setting.failures} :
       acl' = [acl EXCEPT !.inbox = Tail(@), !.l_op_id = Head(acl.inbox).op,
                          !.info = Head(acl.inbox).op,
                          !.applied = IF fails THEN @ ELSE @ \cup {Head(acl.inbox).req}]
  /\ UNCHANGED <<clientVars, mbox, inbox, managerVars, subject_manager_op_id,
                 store, queue, life, requests, history>>

CommitAcl ==
  /\ acl.committed # acl.l_op_id
  /\ acl' = [acl EXCEPT !.committed = acl.l_op_id, !.info = acl.l_op_id]
  /\ UNCHANGED <<clientVars, mbox, inbox, managerVars, subject_manager_op_id,
                 store, queue, life, requests, history>>

\* The process dies and is started again: op_id from the committed_op_id of
\* the file, committed_op_id from 0, a new part of the queue.
Restart ==
  /\ life < setting.crashes
  /\ life' = life + 1
  /\ pc' = [t \in Threads |-> "idle"]
  /\ job' = [t \in Threads |-> NoJob]
  /\ tnx' = [t \in Threads |-> 0]
  /\ prev' = [t \in Threads |-> Null]
  /\ todo' \in InitAgain
  /\ mbox' = [t \in Threads |-> <<>>]
  /\ inbox' = [m \in Managers |-> <<>>]
  /\ at' = [m \in Managers |-> "loop"]
  /\ cur' = [m \in Managers |-> <<>>]
  /\ op_id' = [m \in Managers |-> info[m].committed]
  /\ committed_op_id' = [m \in Managers |-> 0]
  /\ subject_manager_op_id' = 0
  /\ acl' = NewAcl(acl.info, acl.applied)
  /\ UNCHANGED <<info, store, queue, requests, history>>
-----------------------------------------------------------------------------
Lists == UNION {[1 .. n -> setting.uris] : n \in 1 .. setting.items}

Step ==
  \/ \E c \in setting.commands, us \in Lists, tg \in setting.targets :
       Request(c, us, tg)
  \/ Authenticate
  \/ InitTicket \/ InitPermission
  \/ \E t \in Threads : \/ CallFind(t) \/ AddToTransaction(t) \/ Refuse(t)
                        \/ SaveRemove(t) \/ SaveAnswered(t) \/ TicketAnswered(t)
  \/ \E m \in Managers : \/ HandleSave(m) \/ StoreFails(m) \/ PutInfo(m)
                         \/ CommitTick(m)
  \/ HandleFind \/ Push \/ PushThrows
  \/ HandleAcl \/ CommitAcl
  \/ Restart

Next == Step /\ UNCHANGED setting

Spec == Init /\ [][Next]_vars
-----------------------------------------------------------------------------
Crash    == setting.crashes > 0
Starting == "init" \in setting.threads

\* An Ok is the answer to this very save(), never to an earlier one: the
\* result code that save() takes from its mailbox is not left over.  This
\* takes a queue that does not throw: after PushThrows a second result is on
\* its way (storage_manager.d:471).
AnswerIsOwn ==
  "push" \notin setting.failures =>
    \A a \in answers : a.rc = "Ok" => \E d \in done : d.req = a.req

\* No update is lost: what a write replaces is the version its find() has
\* read, although find() and save() are two messages, a crash or an error may
\* come between them, and a left-over result code lets the client go on
\* before its write is done.
NoLostUpdate ==
  [][\A u \in Uris : store'[u] # store[u] =>
       cur'["subject"].item.prev.ctr = store[u].ctr]_vars

\* Within a part of the queue the records of an individual form its history:
\* the version before each change is the version the preceding record of
\* that individual has left, so that a reader of the queue sees no gap.  This
\* takes a queue that does not throw.
PartIsHistory ==
  "push" \notin setting.failures =>
  \A k \in DOMAIN queue : \A j \in 1 .. k - 1 :
    /\ queue[j].item.uri = queue[k].item.uri
    /\ queue[j].part = queue[k].part
    /\ queue[j].item.target = "all"
    /\ \A n \in j + 1 .. k - 1 : queue[n].item.uri # queue[k].item.uri
                                   \/ queue[n].item.target # "all"
    => queue[k].item.prev.ctr = queue[j].item.new.ctr

\* The records of one start with the same tnx_id are the records of one
\* request, which takes the id from the answer to its first individual.  A
\* removal takes two numbers, a first individual that the database refuses is
\* answered with an older one, and while init runs the op_id that is answered
\* may be that of one of its tickets (storage_manager.d:134), so all three are
\* excluded.
TransactionIsRequest ==
  setting.commands = {"put"} /\ setting.failures = {} /\ ~Starting =>
  \A j, k \in DOMAIN queue :
    queue[j].part = queue[k].part /\ queue[j].item.no # 0 /\ queue[k].item.no # 0 =>
      (queue[j].item.tnx = queue[k].item.tnx <=> queue[j].item.no = queue[k].item.no)

\* Once the acl_preparer reports the op_id that was answered for an access
\* individual, the access index holds it: what wait_module() waits for.  Not
\* so if the acl_manager has failed (it reports the op_id all the same,
\* acl_manager.d:157), over a crash, when op_id goes back (storage_manager.d:260), nor while
\* init runs, when the answered op_id is a global of both threads (134).
WaitedIsApplied ==
  ~Crash /\ ~Starting /\ setting.failures = {} =>
  \A a \in answers :
    a.rc = "Ok" /\ a.acl /\ acl.info >= a.op => a.req \in acl.applied

\* The answer precedes the push, yet at most the last change of a start that
\* was answered Ok can be missing from the queue, and it is missing only while
\* the manager has it in hand or if the process died then.  This takes a queue
\* that does not throw.
Unqueued(l) == {a \in answers : /\ a.rc = "Ok" /\ a.life = l
                                /\ \A k \in DOMAIN queue : queue[k].item.req # a.req}
QueuedButLast ==
  "push" \notin setting.failures =>
    /\ \A l \in 0 .. life : Cardinality(Unqueued(l)) <= 1
    /\ at["subject"] = "loop" => Unqueued(life) = {}

\* The queue with the record that the subject manager has in hand.
Flow == IF at["subject"] = "loop" THEN queue ELSE Append(queue, InHand)

Brief(r) == [uri |-> r.item.uri, prev |-> r.item.prev.ctr, new |-> r.item.new.ctr,
             stored |-> r.item.target = "all", part |-> r.part]

Log == INSTANCE StoreLog
         WITH Uris <- AllUris, version <- [w \in AllUris |-> store[w].ctr],
              log <- [k \in DOMAIN Flow |-> Brief(Flow[k])],
              held <- at["subject"] # "loop", part <- life,
              sure <- "push" \notin setting.failures

\* The threads, mailboxes and files of the storage process implement a store
\* with a log: find, check, save, answer, information file and push, with the
\* requests of two threads, crashes and failures between any two of them,
\* have the effect of one step that stores a version made from the newest one
\* and records it, and no record but the one in hand is ever lost.
StoreIsLog == Log!Spec
=============================================================================
