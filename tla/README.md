# Veda: a TLA+ model of the storage, its queue, the scripts behind it and the browser

Veda is an application server on top of a store of *individuals* (documents of
an ontology). This directory holds TLA+ modules for the part of it where the
order of steps matters: the storage process, the persistent queue it feeds, the
processes that read the queue, the service that tells browsers what has changed,
the two largest programs that run as event scripts (numeration and workflow),
and what a browser keeps of individuals. Paths below are relative to the
repository; `D/` is `source/veda/`, `J/` is `public/js/` and `W/` is
`public/modules/docflow/js/server/`.

## 1. Inventory

| Component | Code | State | Operations |
|---|---|---|---|
| storage process `veda-mstorage` | `D/mstorage/{mstorage,storage_manager,acl_manager,nanomsg_channel}.d` | databases of individuals, tickets and access rights; op_ids; mailboxes of its threads | requests put, add_to, set_in, remove_from, remove, authenticate, freeze, unfreeze |
| persistent queue | `D/util/queue.d` (and, in Rust, `source/v-queue`) | numbered parts with a record file and a count, a position file per consumer | open, push, pop, commit_and_next |
| module loop | `D/vmodule/vmodule.d` | consumers on one Queue object, op_id, committed_op_id | run, prepare_queue, prepare (of each module) |
| event scripts | `D/gluecode/{scripts,script,v8d_bind}.d` | position of each process, transaction of the running script | prepare, commit |
| full text indexer | `D/ft_indexer` | Xapian databases; two consumers, by the priority of the user | prepare, periodic commit |
| access rights | `D/authorization`, `source/authorization` | index written by the acl_manager | authorize |
| update service | `source/veda-ccus/src/main.rs`, `public/js/browser/update_service.js` | counters, subscriptions; the list and the send buffer of a browser | subscribe, unsubscribe, notify, reconnect |
| numeration | `J/common/numerator.js`, `ontology/generic-function/veda-numeration.ttl` | scopes and their committed intervals, numbers of documents | numerate: commitValue, revokeValue, getNextValueSimple |
| workflow engine | `W/docflow.js`, `W/docflow-util.js`, `W/codelets.js`, `ontology/generic-function/veda-workflow.ttl` | start forms, processes, work items, work orders, decision forms | one script for each type, and the stop of a process |
| browser individuals and drafts | `J/common/{individual_model,drafts_model,app_model}.js`, `J/browser/individual_presenter.js` | objects with isNew and isSync, a cache, drafts in memory and in localStorage | load, save, draft, reset, delete, recover, remove, updates |
| watchdog | `D/bootstrap/bootstrap.d` | running processes | start, restart one, restart all |
| others | fanout, ttl reader, user modules, queries, web server, browser application | see `components` in `PROJECT.json` | |

How they interact. A request reaches the `n_channel` thread of the storage. For
each individual it asks the subject manager thread for the earlier state, checks
rights, and sends it the change; the manager stores it, *answers*, writes its
information file and *pushes* a record (earlier state, new state, op_id, tnx_id,
event_id, src) to the queue `individuals-flow`. Access individuals are then
handed to the acl_manager. Every other process reads the queue at its own pace
with a position of its own; scripts write back through the same request path and
so feed the queue again. The numeration and the workflow engine are such scripts:
what one script writes triggers the next, and users write between any two of
them. `veda-ccus` reads the queue too and tells subscribed
browsers. A client that needs a change to be visible waits until the information
file of a module reports the op_id it was answered with (`wait_module`).

A browser works on copies: an update reloads the shown individual unless it has
unsaved changes, and unsaved changes of documents are kept as drafts.

What is hard. Threads that share a mailbox discipline and a global op_id; two
consumers on one Queue object; a crash between answer and push, between the
record and its count, between the removal of a position file and the creation of
its successor; op_ids that go back at a restart; retries that repeat a record;
scripts that trigger scripts; a script that reads the newest state of one
individual and an old state of another, and overwrites both; transactions that
are sent item by item; timers and sockets of a browser that outlive each other;
calls of a browser that fail after the server has done them. `hazards` in
`PROJECT.json` lists them with their lines.

What makes the parts correct.
* queue and loop: no announced record is left unread, every one is read in the
  end, and what is read is the record the position names;
* storage: an answer belongs to its request, no update is lost, the queue holds
  the history of each individual, an op_id that a module reports is applied;
* scripts: each script runs for a change in exactly one process, cascades over a
  fixed set of individuals end, what is written is stored;
* update service: a subscribed browser becomes current;
* numeration: a scope is a set of numbers, every document gets one, no two the
  same;
* workflow: a task waits for all its executors and is left once, a decision
  stands, a join fires once, a stop that has begun is final and leaves no question,
  what is sent ends;
* browser: what a user has typed is stored, unsaved, or given up by the user.

## 2. Modules

| Module | Models | Role |
|---|---|---|
| `VQueue` | `queue.d` | the files of a queue, the writer, the Queue object and the Consumer of a reader, as operators and actions |
| `VModule` | `vmodule.d`, watchdog | extends `VQueue` with the loop `prepare_queue()`; properties and inductive invariant |
| `VModuleProofs` | | TLAPS proofs about `VModule` |
| `StoreLog` | `storage_manager.d` | abstract specification: a store whose changes and records are one step |
| `MStorage` | `mstorage.d`, `storage_manager.d`, `acl_manager.d`, `module_info.d` | the threads of the storage process; implements `StoreLog` |
| `MStorageProofs` | | TLAPS proofs about `MStorage` |
| `Ccus` | `main.rs`, `update_service.js` | the update service with both ends |
| `CcusProofs` | | TLAPS proofs about `Ccus` |
| `Scripts` | `scripts.d`, `script.d`, `v8d_bind.d`, `commit()` of `thread_context.d` | the script processes on a queue |
| `ScriptsProofs` | | TLAPS proofs about `Scripts` |
| `NumberScope` | header of `numerator.js` | abstract specification: a scope is a set of numbers |
| `Numerator` | `numerator.js`, its event script | the interval lists, in transactions of the script; implements `NumberScope` |
| `NumeratorProofs` | | TLAPS proofs about `Numerator` |
| `Docflow` | `docflow.js`, `docflow-util.js`, `codelets.js`, `veda-workflow.ttl` | the workflow engine with its users |
| `DocflowProofs`, `DocflowStopProofs` | | TLAPS proofs about `Docflow` |
| `Client` | `individual_model.js`, `drafts_model.js`, `app_model.js`, `individual_presenter.js`, `update_service.js` | tabs of a browser, the localStorage they share and the server |
| `ClientProofs` | | TLAPS proofs about `Client` |
| `MCMStorage`, `MCScripts`, `MCNumerator`, `MCDocflow`, `MCClient` | | settings and values of constants for TLC |
| `MCCcus` | | compares the message loop of `Ccus` with its turns one by one |

Several modules have a constant `Settings` and a variable `setting` that no step
changes: the initial states choose one of the settings, a record of bounds and
of the kinds of faults and users there are. One run so covers several instances,
each as small as its question allows, and a property that holds under a
condition names the setting it needs.

A definition preceded by "Mutant" is a deliberately wrong variant of the
definition that follows it, used to show that a property depends on the code it
is about; no specification uses it.

### VQueue and VModule

`latest`, `log`, `announced` and `infoPop` are the files `_info_queue`, `_queue`,
`_info_push` and `_info_pop_<name>`; `q`, `id`, `popped`, `fresh`, `last` are the
fields of the Queue and Consumer objects. A record is a number, since the byte
position of a record is determined by the number of records before it. File
handles are modelled by the part they have open, because whether a handle is
reopened decides which part is read. `push` is two steps (record, count) since
`flush()` writes two files. `pop()` is split where another process can come
between: reading, looking for the next part, and creating the new position file.
A record that is on disk in part only reads like the end of the file.

`writer` has the state `fresh` (no push yet) and `first` apart from `idle` and
`half`, so that a configuration can say in `CrashPoints` where the writer may
die: after the death of the storage the watchdog stops all processes.

### MStorage

The threads `n_channel` and `init` are clients of the managers `subject` and
`ticket`. `inbox` and `mbox` are mailboxes in order of arrival; `save()` takes
the oldest result code of its own mailbox whoever it is for. The manager's
handler is three steps: store and answer, information file, push. The content of
an individual is its counter and the mark of deletion. `Restart` keeps what was
handed to the file system and loses the rest; a loss of power, which could lose
more, is not modelled. The numbers `no`, `req` and the variables under *history*
are not in the code; they let properties speak of requests.
`authenticate` is reduced to the ticket it saves. Refusals before `save()` (no
rights, no content) are one action.

`StoreLog` is the storage as a reader of the queue knows it. A step writes: it
makes a new version from the newest one and appends the record of it, which is
*held* for a moment; then it is settled, or lost with a restart (or, if the queue
may throw, without one). The mapping takes the log to the queue with the record
the subject manager has in hand, so that the step which stores and answers is
the write, the push settles, and all the rest of the handshake between the
threads stutters.

### Ccus

A message of a browser is a list of items that the server works off in a loop.
`Serve` gives the outcome of the whole list (`Subscribed`, `Followed`) and not a
fold over it, which the provers cannot reason about; `MCCcus` has TLC compare the
two for all messages of up to three items on two individuals (`LoopIsServed`).

`up` and `down` are the two directions of a socket, lost with it. A new socket
has a new id at the server, so a server that notices late that a socket is gone
keeps subscriptions nobody reads; they are dropped at once in the model. A
timer is `own` (started on the current socket), `old` (its socket was lost
since) or `late` (started on a closed socket). `reconnectDelay` is at least 5 s
and `socketDelay` 1 s, so an `old` timer fires before a new socket is made; a
`late` one need not. `Load` is a page that reads the newest version.

`receiveMessage` moves the counter of its list before it calls `reset()`, and
`reset()` only logs a load that fails, so `Receive` reloads any part of what a note
names. `asked` is the version a browser last set out to show, and differs from
`have` after a reload that failed (`Missed`): from then on the service, and the
browser's own list, believe what the page does not show, until the next change. Both
properties say so. Not modelled: an object that is new and not saved (the server has
nothing to tell of it), `unsubscribe()` without a uri or of one that is not listed,
which has no caller (`individual_presenter.js` subscribes and unsubscribes each page
once), and the removal of an individual in the storage (`Change` is a put; pages
delete by a put of `v-s:deleted`).

### Scripts

The position of a process is that of a module with one consumer, which
`VModule` shows to lose nothing, so the queue is a sequence here. What a script
computes is not known: `RunScript` takes any sequence of writes and removals.
`event_id` is the path of (individual, script) pairs; the loop rules are those of
`prepare()`. `commit()` is one step for each item with three outcomes: stored,
refused (repeat or give up, by the class of the error), or no answer, in which
case the counter in the database decides. A script's own JavaScript exception is
caught inside the script and is a shorter sequence of writes; `ScriptThrows` is
the exception that `prepare()` catches. Not modelled: the process `ltr`, loading
and ordering of scripts. `Numerator` and `Docflow` take from this module what
they need of the script process: one record at a time, a transaction sent item
by item, a record repeated after a crash.

### Numerator and NumberScope

`interval` and `scope` are the stored intervals and lists, `t_interval` and
`t_scope` the same as the running script sees them through its transaction, and
`todo` what is still to be sent, in the order of the code. `Save` is a user
who writes a document from the copy of it that is stored; `Numerate` runs the
script on the *actual* document and the *previous* state of the record, which is
how the event calls `numerate()`. `commitValue` and `revokeValue` are operators
with one definition for each case (join both neighbours, extend one, new
interval; cut at an end, remove, halve). `getNextValueSimple()`
returns a string in the code; its comment says why a number stands for it here.
The rules of numeration differ in scope and first value only, which are
constants. A scope is created by the first commit, so a missing one is an empty
one. In `NumberScope` a step commits a number, revokes one, or does both; the
mapping takes a scope to the numbers its intervals cover, as the script sees
them. `whole` becomes false when a crash cuts a transaction: the code repeats
the record on half-written lists and promises nothing then.

### Docflow

`db` has a sequence for each of the five types, the identifier of an individual
being its place. `Run` takes the first record, tries the script of its type
(`Triggered` is the condition in the ttl file with the loop check of the script
process) and collects its `Writes`; `CommitItem` sends one, which is a record
again. The state in the record is what the script works on (`d` in the
operators); `db` is what it reads. A write replaces the individual, so a stale
`d` overwrites what came between, exactly where the code writes `document` and
not a fresh copy. `Send`, `Answer` and `Stop` are users: the button of a form
(`J/browser/util.js`), a decision form, and the button in the journal of a document
(`veda-ui.ttl:2214`).

Variables. A mapping whose variable has the scope `v-wf:Net` adds the variable to
the process when it is not there (`generate_variable`), and that is a write of the
whole process as the script has read it. `local` has the names of a process'
variables, `starts` and `ends` of a net element those that its mappings make, and
`AddLocals` the writes, one for each new name; they come at a task's start, at its
end, at the begin of a process (`v-wf:localVariable`) and at its output
(`CompletedMapping`, `StartTask`, `prepare_process`, `ReachOutput`). The values of
variables are left out but for one result of each work order; a codelet and a
sub-process answer 1.

The output. `change_process_status` throws when it has written the form (it deletes
the list that its loop goes over), and the catch of `prepare_work_item` ends the
script; `CompleteProcess` has what is written in that case, and in the other one, of
a process without `docId` or with a form that no longer names it. In the script of
a stop the same call is the last one, and nothing is lost.

`Stop` saves the copy of the process that the page has. The page is subscribed to
the process and reloads it, so the copy is taken to be the stored state; the delay of
the update service is not in this module.

Left out: executor expressions, journals and messages (their mappings can make
variables of the net too, which would be more writes of the same kind), rights,
predicates at conditions, `v-wf:enforceProcessing`, a codelet without a result
(`docflow.js:267`, the task then waits), the output `s-wf:InterlayerNet_oc`, missing
parts of nets.

### Client

A tab has objects, a cache, drafts (`dr`) and a page. The functions of the code
are operators on a tab and the drafts on disk; a handler is one step, because
calls to the server are synchronous and the promises inside are settled. Content
is a number, new for every change. A call has an answer: "ok", "down" (it failed
before the server did it), "lost" (after it) or "refused" (error 472). `told` is
the version the update service was subscribed with. `stored` and `given` are
history: contents the server has had, and contents the user has cancelled,
deleted, or typed over. Objects that nothing refers to are overwritten, as the
garbage collector would. Not modelled: `DraftsModel.clear`, eviction from the
cache (`app_model.js:26`; a page whose object is evicted and a draft of the same
individual would be two objects), embedded individuals, rights. After the codes 470
and 471 `load()` returns an object outside the cache (`individual_model.js:312`) and
the page is left for the login; it is an error like the others here. `reset()`
compares values by the sums of their character codes (440); different contents are
taken to have different sums.

## 3. Runs

Passing runs. Every bound is a constant named in its module or a field of a
setting.

| Run | Checks | Bounds |
|---|---|---|
| `one` | `TypeOK`, `NothingSkipped`, `PopsOwnRecord`, `NoneBetweenConsumers`, `EveryRecordRead` | 1 consumer, 3 parts of 2 records, deaths of the writer between record and count, 1 death of the module, fairness |
| `storage` | `TypeOK`, `PartIsHistory`, `AnswerIsOwn`, `QueuedButLast`, `TransactionIsRequest`, `WaitedIsApplied`, `NoLostUpdate`, `StoreIsLog` | `Plain`: 3 requests, 2 individuals (one an access individual), 1 crash, refusals of the database. `Batch`: 2 requests of up to 2 individuals. `AtStart`: 1 request beside the initialisation. `Faults`: 3 requests, failures of database and queue, 1 crash. `AclErr`: 2 requests, failures of the access index |
| `ccus` | `TypeOK`, `BelievesWhatIsShown`, `StaysFresh`, and `LoopIsServed` as an assumption TLC evaluates | 2 versions, 2 places of a page, 3 messages, 2 lost connections, 1 restart, any reload may fail, fairness |
| `scripts` | `TypeOK`, `OneProcessRuns`, `CascadeEnds` | main and lp, 2 scripts. `Failing`: 2 parts of 2 records, 1 failure. `Whole`: a cascade with MAX_COUNT_LOOPS = 1 to its end, no unsafe script; fairness |
| `numerator` | `TypeOK`, `Apart`, `SentIsSeen`, `AllNumbered`, `UniqueIfGentle`, `ScopeIsSet` | 3 documents, 8 uris of intervals. `Mild`: 5 saves of patient users; `Patient`: the same with 2 crashes. `Typing`: 4 saves, typed numbers, recovered documents, hasty users. `Moving`: 3 saves over 2 scopes. `Dying`: 3 saves and a crash |
| `docflow` | `TypeOK`, `LeftByAll`, `DecisionIsResult`, `NextOnceIfCalm`, `JoinFiresOnce`, `StopLeavesNoForm`, `StopHolds`, `FormEnds` | nets with a fork and an AND join (`Plain`, `Hasty`, `Stopping`, `Dying`), a vote with an XOR split and a net as executor (`Vote`, `StopVote`), a task of two users who change their decisions (`Pair`) or whose process is stopped while they answer (`StopPair`), and a net whose mappings make variables and whose last task has no executor, for a form sent twice (`Resend`) and for a stop with a crash (`StopDying`); fairness |
| `client` | `TypeOK`, `SyncedIsStored`, `TextKept`, `ShownIsDraft` | 3 contents. `Old`: an existing individual, 2 failing calls, a closed tab. `Created`: a new one. `Both`: the two. `TwoTabs`, with 2 changes; `NoThings`: individuals that are not drafted, refusals; `Again`: a logout |

Why these bounds. Three parts are the least with an old, a current and a newer
part, and a reader can be two behind; two records make "between two records" and
"last of a part" different. Three requests let a left-over answer meet a later
request and let that one's own answer be left over in turn. A single browser is
enough since browsers meet only in `uri2counter`, where another browser's
subscription has the effect of `Known`. In `Whole` the longest cascade has 9
records and the queue has room for 10, so the bound never ends a cascade. Three
documents are the least in which an interval has a neighbour on both sides, or is
halved, and eight uris are never too few for three intervals of a list
(`Enough`); five saves are the least in which a number is given twice. In `Docflow`
the nets are the least with a join of two branches, with a task of two
executors, with a process in a process, and with variables made at each of the four
places. Three contents let an update meet a
text that was typed on an older version.

`CHECK_DEADLOCK FALSE` is said where users may stop for good and nothing is left
to do then: `Scripts`, `Numerator`, `Docflow` and `Client`.

Five runs end in a violation. Each states what a document of the repository says
and shows a behaviour of the code that does otherwise; `findings` in
`PROJECT.json` quotes the line.

| Run | Shows |
|---|---|
| `two_skips` | two consumers on one Queue object: a consumer that trails the other by a part takes the count of the newer part for its own and leaves records unread (`queue.d:789`) |
| `scripts_lost` | a script's write that got no answer is taken for done exactly when the database shows that it was not (`thread_context.d:717`) |
| `numerator_unique` | a document saved several times and deleted before its first event has run: its number is revoked by each of the later records, also after it was given to another document (`numerator.js:75`) |
| `docflow_twice` | two executors decide before the first decision is worked off: both work orders find all results and the task is left twice (`docflow.js:542`) |
| `docflow_open` | the process of a form that has come to its end: the form is completed, the process and its last work item never are (`codelets.js:150`) |

### Conditions of the results

Some properties hold under a condition that the code does not guarantee. The
condition is in the constants of the run or in the property, and dropping it
gives a counterexample:

* `EveryRecordRead`: the writer does not die before the first push of a part.
  With `"fresh"` among the `CrashPoints` of `VModuleOne.cfg` a part stays
  without a count, a reader on it keeps the count of the part before, reads at
  the end of the empty file and never looks for the next part (`queue.d:338`).
* `NoneBetweenConsumers` is checked with one consumer, where it says that a record of
  its own is committed only once it is prepared; the theorem `PrioritiesCover` has it
  for any number of them.
* `NothingSkipped`, `PopsOwnRecord`: one consumer. With two, a module that dies
  after a consumer has moved to the next part starts it at that part again, and
  the object is still on the part before; the consumer then moves the shared part
  number on while the record file stays, and the other consumer reads the record
  of the older part for its own.
* `AnswerIsOwn`, `PartIsHistory`, `QueuedButLast`: `push()` does not throw. With `"push"` among the `Failures` a
  second result is sent for one `save()` (`storage_manager.d:471`) and later
  requests take the answer of the one before. `NoLostUpdate` holds even then.
* `WaitedIsApplied`: no failure, since the `acl_manager` reports the op_id in a
  `finally` (`acl_manager.d:157`), also of an individual that it could not read or
  whose right sets it could not store; no crash, since op_id goes back to the last committed one
  (`storage_manager.d:260`) and the access module has reported the number
  already; and no initialisation at the same time, since `save()` reads the op_id
  from a global variable after the answer (`storage_manager.d:134`).
* `TransactionIsRequest`: no initialisation at the same time (the same reason),
  no removal and no database failure; the mark and the
  removal proper get two numbers, and a request whose first individual is
  refused by the database takes an older op_id for the rest.
* `QueuedButLast` allows one lost event for each crash: the answer is sent
  (`storage_manager.d:412`) before the push (458).
* `BelievesWhatIsShown`, `StaysFresh`: up to a reload of the browser that fails
  (`Missed`). The counter was moved before it (`update_service.js:82`), so neither end
  tries again.
* `StaysFresh`: the individual is known to the server (`Known`; otherwise the
  first subscription sets the server's counter to the browser's, `main.rs:253`,
  which hides a change consumed before), the service is not restarted (the same
  reason), and no page subscribes on a closed socket (the timer of that socket
  later drops what `restore()` has put into the shared buffer,
  `update_service.js:51`).
* `CascadeEnds`: scripts without `v-s:unsafe`, and a fixed finite set of individuals.
  The loop check counts the pairs of an individual and a script on the path of an
  event (`scripts.d:250`, 289), so a script that makes a new individual of the type it
  is triggered by goes on for ever, and it is skipped for unsafe scripts (283), which
  may trigger themselves for ever. The constants of the run have no unsafe script and
  one individual with two scripts.
* `Apart`, `ScopeIsSet`: no crash has cut a transaction in half (`whole`).
* `UniqueIfGentle`: users wait for the number before they save again, type no
  numbers, recover no deleted document and do not change what the scope depends
  on. Without any one of these it fails: `numerate()` takes a number that a user
  has typed without looking whether it is committed, a recovered or moved
  document keeps a number that another one may have, and hasty users give the
  finding `numerator_unique`. And no crash has cut a transaction (`whole`):
  `revokeValue()` stores the first half of the interval that it cuts, the second
  half and the list one by one (`numerator.js:279`). Take documents with 1, 2
  and 3, of which the second is deleted: a crash after 1 - 1 is stored leaves 3 in
  no interval, the record that is repeated finds nothing to revoke, and of the next
  two documents the second gets 3 again. It takes 5 documents and 6 saves, more
  than the run has.
* `DecisionIsResult`: no crash, no form written more than twice, and no form
  written over its deletion by a stop (`Decided`). Of three writes that go
  1, 2, 1 while the engine works on the first, the script of the last undoes to 2
  what the work order has as 1. A crash after a form is stored makes a second one
  for the same work order, and both may be decided, in different ways.
* `NextOnceIfCalm`: users answer while no script runs, and nothing dies; without
  the first it is the finding `docflow_twice`. It depends on the net as well: two
  sub-processes of one task, or a net that reaches its output twice, are two
  results that come without a user, and leave the task twice in the same way. The
  nets of the run have neither, so this is a result about such nets.
* `JoinFiresOnce`: no crash, and one executor for each task before the join, for
  the same reason; and no way back from the join to itself.
* `StopHolds`: the script of the stop has begun. Before that a stop can be undone, by
  any write of the process from a snapshot that was taken before it:
  `prepare_process()` writes what its record has, and a new variable of the net or
  the completion write what the script has read. The record of the stop is still to
  come then, and its script deletes the forms; but `v-wf:isStopped` is gone, and the
  work orders go on. The property holds with crashes and with variables.
* `StopLeavesNoForm`: no crash. One while the work orders of a task are stored
  repeats the record, which makes new ones and a new list; those stored before are
  in no list, and the stop does not find their forms. And each work item is in the
  list of the one before it (`Listed`): a task that is left twice, as in
  `docflow_twice`, keeps the list of the second time only, and the stop does not
  find what the first time has made.
* `FormEnds` asks for the form where the process has a `docId` and for the process
  where not, since the process of a completed form stays open (`docflow_open`); and
  for patient users, no crash, no stop. A crash after
  `v-s:isExecuted` is stored at a join leaves the process waiting for ever.
* `SyncedIsStored`, `TextKept`: individuals of the class `v-s:UserThing`, no
  answer 472 and no logout. `save()` takes a draft away before it calls the
  server and makes it again after any error but 472, and for `UserThing` only.
* `TextKept`: one tab, since each tab writes all of `localStorage.drafts` from
  its own memory; and not what is typed in the first 100 ms of a page, before the
  handler of drafts is installed.
* `ShownIsDraft`: no logout, which clears the cache and keeps the drafts.

Read in the code while modelling, and not stated as properties: `freeze` and
`unfreeze` have no effect in the storage (`thread_context.d:628` is compiled with
`isModule` only); low priority script processes may work on the record main has
in hand (`scripts.d:100` waits at `<` only); the writes of each script are stored
before the next script of the same event runs (`scripts.d:327`).

### Fairness

* `VModule!Fairness`: the writer finishes a push it has begun and is started
  again; the module is started again (the watchdog looks every 10 s) and polls
  ten times a second whether or not a notification comes; strong fairness of
  `PrepareDone`: preparation does not fail with a retryable error for ever. The
  writer need not push, and nothing need die.
* `Ccus!Fairness`: `veda-ccus` polls the queue and the pings of its sockets are
  answered, timers fire, sockets are opened again. Changes, pages and lost
  connections are not fair.
* `Scripts!FairSpec`: each process goes on, and the storage answers.
* `Docflow!FairSpec`: the script process goes on (it polls the queue, and the
  watchdog starts it again), and users answer every undecided form some day,
  which is what `FormEnds` is about: that the engine asks the right questions and
  then ends. Sending, stopping and changing a decision are not fair.

## 4. Proofs

Eight modules hold theorems. Each states a property of the runs for every value of
the constants under the assumption named in the component's module, and each
rests on an inductive invariant; what follows says which and why.

| Component | Theorems | Inductive invariant |
|---|---|---|
| `VModule` | `TypeOK`; `NothingSkipped`, `PopsOwnRecord` for one consumer; `NoneBetweenConsumers` for any number | `TypeInv`, `OneConsumerInv`, `ManyConsumersInv` |
| `MStorage` | `TypeOK`, `NoLostUpdate`, `StoreIsLog`, `AnswerIsOwn`, `PartIsHistory`, `QueuedButLast`, `TransactionIsRequest`, `WaitedIsApplied` | `TypeInv` and `VersionInv`, with `CallInv`, `DoneInv`, `HistoryInv`, `AnswersInv`, `TnxInv`, `AclInv` |
| `Numerator` | `TypeOK`, `SentIsSeen`, `AllNumbered`; `Apart`, `ScopeIsSet`, `UniqueIfGentle` | `BInv`; `NInv`, `GInv` |
| `Docflow` | `TypeOK`, `LeftByAll`, `StopHolds`, `DecisionIsResult`, `StopLeavesNoForm` | `TInv`, with `LInv`, `HInv`, `DInv`, `FInv` |
| `Scripts` | `TypeOK`, `OneProcessRuns` | `TypeInv` and `RunInv` |
| `Ccus` | `TypeOK`, `BelievesWhatIsShown` | `Inv` |
| `Client` | `TypeOK`, `SyncedIsStored`, `TextKept`, `ShownIsDraft` | `Inv` |

### VModule

`VModuleProofs` proves, for every number of consumers, parts, records, crash
points and deaths (assumptions `QueueAssumption` and `ModuleAssumption` only):

* `TypeCorrect`: `Spec => []TypeOK`. The invariant is `TypeInv`: `TypeOK` with
  the bounds of the writer (`WriterInv`), that a running module has seen a first
  part, and that the record in hand is a record. These are needed because a count
  is copied to a consumer and indexes the records.
* `OneConsumerSkipsNothing`: with `NumConsumers = 1`, `Spec => []NothingSkipped`.
  The property alone is not inductive: it speaks of the saved position, and the
  next position comes from memory, which in turn relies on what the Queue object
  has open. The invariant `OneConsumerInv` adds three parts:
  `HandlesInv`, the handles are null or on the consumer's own part while a round
  runs, so a count read is the count of that part; `PartInv`, neither the object
  nor a position is past the newest part, no reader runs while a part is being
  created, and at a change of part the old part is exhausted (its count cannot
  grow, for it is not the newest one); `HandledInv`, all records before the
  position in memory and before the saved one are committed. The
  assumption `NumConsumers = 1` is used in `HandlesInv`, which the run
  `two_skips` shows to fail with two.

* `OneConsumerPopsOwnRecord`: from the same invariant; the record in hand is the
  one after the position in memory.
* `PrioritiesCover`: `Spec => []NoneBetweenConsumers` for any number of consumers,
  although with two of them records are skipped. `ManyConsumersInv` adds to the
  types that the record in hand is on disk, and that what a consumer has committed
  was prepared or is for another consumer or subsystem (`PriorityInv`).

The argument goes action by action; lemmas give the effect of `GetInfoPush`,
`GetQueueFile` and `CloseQueue` on the object, and each part of the invariant has
its own preservation lemma that assumes the others.

### Numerator

`NumeratorProofs` proves, for any documents, scopes, first value, typed numbers
and number of saves, crashes and intervals (assumption `NumeratorAssumption`
only):

* `PromiseTheorem`: `Spec => ScopeIsSet`, that is, `Numerator` implements
  `NumberScope`. The mapping is a function of the lists alone, so every step but
  `Numerate` stutters or is a crash, and `Numerate` is a step of `Promised`.
* `ApartTheorem`: `Spec => []Apart`.
* `UniqueTheorem`: `Spec => []UniqueIfGentle`.
* Over crashes, `TypeTheorem`, `SentTheorem` and `NumberedTheorem`:
  `Spec => []TypeOK`, `Spec => []SentIsSeen`, `Spec => []AllNumbered`.

For the first two the inductive invariant is `NInv`: while `whole`, `TypeOK`, `Sound` and
`Bounded` hold of the lists as the script sees them. `Sound` says that intervals
are not empty (`Full`), that those of one scope neither overlap nor touch
(`Gaps`, which is `Apart`), and that an interval belongs to one scope (`Owned`):
without `Full` the joined interval could be wrong at an end, without `Gaps` a
revoked number could be left in a second interval, and without `Owned` a change
in one scope could change another. `Bounded`, that the numbers in use have an
upper bound, is needed for `getNextValueSimple` to have an end to look for; it
stands for the finiteness of the lists. The lemmas follow the code: one for each
case of `commitValue` (`JoinBothSound`, `JoinOneSound`, `NewIntervalSound`,
together `CommitSound`), `RevokeSound` with `OneHolds` and `HalvesExist`,
`NextIsFree`, and `NumerateSound`, which says which numbers a run may change.

`UniqueIfGentle` needs `GInv` beside it. A number must be known to be in use
before it is in the document (the write is still to be sent) and after it has left
it (the user has cleared it, the script will put it back), so `Has` collects the
three places of a number; and a deleted document keeps its number from others until
the script has seen the deletion, which is `Live`. `Alone` says that what a document
`Owns` is committed and owned by no other of the scope; `Tidy` says how the record
of a document agrees with it. Only `Numerate` can add an owner, with a number
that `NextIsFree` says is not committed, and only `revokeValue()` can free a number
that is owned, by the document that has just ceased to be live
(`GentleCases`, `GentleNumerate`); all other steps leave fewer owners
(`FewerOwners`). TLC checked `GInv` with 4 documents and 6 saves.

Over crashes nothing is left of `Sound`, and `BInv` does without it: all ends of
intervals, stored or seen, have an upper bound (`Capped`), a list or listed interval
that the script sees and the database has not is still to be sent (`Unsent`), and a
document without a number has a record that waits or its number is still to be sent
(`Awaited`). The lemmas are those of the code's operators on any lists, also
with intervals that overlap (`CommitWrote`, `RevokeWrote`, `NumerateWrote`);
several intervals may be cut at once then, for which the guard `Enough` of
`Numerate` gives as many unused uris as a list is long, and `HalvesEnough` their
assignment. The uris are a finite set (26 digits of base 36); `genUri` never runs
out of them in practice, which is what `Enough` stands for.

### MStorage and StoreLog

`MStorageProofs` proves, for any individuals, settings, requests of any length and
number, both client threads and any number of crashes (assumption
`MStorageAssumption`; that no individual of a user is one of the tickets and rights
that `init` creates comes from the random part of their names):

* `TypeTheorem`. `TypeInv` says more than `TypeOK`: which messages a mailbox may
  hold, and that a thread only works on individuals of its own (`Mine`).
* `NoLostUpdateTheorem`: `Spec => NoLostUpdate`, also with a queue that throws.
  `VersionInv` is about messages on their way: a save in the mailbox of the manager
  was made from the stored version (`SavesAreFresh`), and so was what a thread has
  found (`FoundIsFresh`). That stays so because the two threads never write the
  same individual, and because two messages of one thread are on their way only
  when the first is the mark of a removal, which makes no new version
  (`OrderOfThread`, `ThreadOfMessage`); with a queue that throws this really
  happens.
* `StoreIsLogTheorem`: `Spec => StoreIsLog`. `FlowStep` says that every step of the
  threads leaves the queue with the record in hand as it is, appends to it, pushes
  its last record, loses it, or restarts; each of the five is a step of `StoreLog`
  or a stutter. `VersionInv` gives the guard of `Write`, that the record was made
  from the newest version.
* `AnswerIsOwnTheorem` (a queue that does not throw): a thread that waits has
  either its message in one mailbox or its answer in the other, never both and
  never two (`CallInv`), and an Ok stands for a save that is done (`DoneInv`).
* `PartIsHistoryTheorem`: `HistoryInv` states it of the queue with the record in
  hand, and that the stored version is the one of the last record.
* `QueuedButLastTheorem`: `AnswersInv` numbers the answers; one that is not in the
  queue is the record in hand, and after a crash there is at most one of each life.
* `TransactionTheorem`: `TnxInv` gives the number the running request will use, and
  that no record of another request in this life has it.
* `WaitedTheorem`: `AclInv` has the events on their way to the access module in the
  order of their op_ids, all above the one it reports; without failures each of them
  is applied when it is reported.

The invariants of records are stated about `Flow`, which changes in five ways
only, and not about the steps of three threads.

### Docflow

`DocflowProofs` proves, for every net, every set of users and every setting
(`DocflowAssumption` says only what a net is made of):

* `TypeTheorem`. A record and a pending write hold a snapshot of an individual,
  and scripts follow its links in the database, so `TInv` says of every snapshot,
  in `db`, `queue` and `todo` alike, that it is `Good`: its links lead to stored
  individuals of the right type, and the fields that no script changes are those
  of the stored state (`Same`). New individuals are sent in the order of their
  numbers (`InLine`), which is what makes a link to one that comes later in the
  same transaction right when it is stored; a crash in between is allowed. What a
  script can write at all is said once, by `Item`, and shown for each script
  (`WritesList` and the lemmas before it); the later invariants read it from
  there.
* `LeftByAllTheorem`, with crashes and hasty users. The danger is a write from a
  snapshot that takes a result back after the task was left. For a user's work
  order the code reads the stored state; for one that a net has to do it writes
  the snapshot of the record. `LInv` says why that is right: until the first
  record of such a work order is handled (`NetOrder`), there is no process of it
  with a work item, hence nobody who could give the result (`OrdersOK`), and what
  is sent takes no result back and leaves a task when each result is stored or is
  sent before (`SendsOK`). A crash repeats that record: the process is made a
  second time, which does no harm here.
* `StopTheorem`, with crashes. Several scripts replace a process. The writes of a
  completion, a new variable and the stop of a sub-process take the state that is
  stored when the script runs, so a stop they do not know was stored later and its
  record is behind the one in hand (`UndoesOK`). `prepare_process()` takes the state
  of its record, which may be much older; but a record that lets it write is of a
  process that was not stopped, so the stop came after the record, and its record is
  behind that one (`BehindOK`). A user never unsets the flag. `HInv` is these two with
  `TInv`; when the record of the stop is in hand nothing is left that could undo it.
* `DecisionTheorem`. Under `Decided`, a form is untouched (`Untold`), deleted, or it
  has one decision `x` (`Told`): each record a user has made of it takes `x` for the
  first time or changes it, the work order of a form that is done has `x`, and
  while the form, or a write of it that is pending, shows something else, a write
  back to `x` is due, either as a later write of the running script or as the
  record of a change that its script will undo (`Due`). `Once` is what a form
  written once has in addition, so that the second write is a change of `x` and
  nothing else; a third one would be the counterexample above. For the result
  to stay `x` no other form of the work order and no later write may change it:
  `OneForm` and `AsksOK` (a work order makes its form once), `OutSent` (what is
  written to the result of a user's work order is the first decision in hand) and
  `SourceOK` (which records of forms come from users). A stop writes the forms it
  deletes over what users have written; `NoStops` is needed when users may write
  over a deletion in turn.

`FormSentOK`, `FormUserOK`, `FormRunOK` and `FormNextOK` are the four kinds of
steps for one form; `DInvNext` puts them together.

`DocflowStopProofs` proves `StopFormsTheorem`, `Spec => []StopLeavesNoForm`, without
crashes and as long as each work item is listed. Two things can go wrong: a form
that the stop does not find, and one that is made or written after it. `FInv` adds
to `TInv`, without crashes, for what is stored, the records and the writes to be sent:

* the lists lead to what is stored, from the process to its first work item, from a
  work item to its work orders and from a work order to its forms (`TreeOK`), where
  a list or a work order may still be on its way (`Rooted`, `Comes`); for that a
  process begins once and has no work item before (`BegunOK`), the work orders of a
  work item are made by one record (`VisitsOK`), and no snapshot in a record or in a
  write has an older list (`SteadyOK`, `CarriedOK`). A process is written from
  snapshots in several places; each such write only moves on from what is
  stored, in its list and in what is completed, or belongs to the script that begins
  the process (`ProcsOK`, `Onward`);
* a form that users have written shows a decision or is deleted in the end, though a
  user may take the decision away and the script will write it back
  (`WrittenOK`, `Settled`);
* the process of a form is not stopped, or the form is `Settled`, or the record of
  the stop is still to be handled (`StopDue`); a form that is still to be sent in a
  stopped process always has the last (`EndsOK`), since `prepare_work_order()`
  asks `isStopped` and makes none later.

`BelowFacts` gives the recursive function `Below` its equation, and `AllBelow` goes
up from a work item to the first one of its process along `prev`, which gets
smaller: that is an induction over a bounded set of numbers, done by the least
element. TLC checked `FInv` with all nets, two stops and hasty users (939,576
states). `StopSent`, `StopUser`, `StopRun` and `StopNext` are the kinds of steps;
`StopFinds` is the one where the stop meets the forms.

### Scripts

`ScriptsProofs` proves, for every order, filter and number of scripts, any cascade
and any deaths, errors and lost answers (assumption `ScriptsAssumption`), that each
script which a change triggers has run in exactly one process when all have passed
the record, unless one gave it up. `Tried`: of the record in hand every script is
still to be tried, has run, or is not for this process; `Finished`: so it is for
every record passed; `RanHere`: what has run was for this process. `Designated`
then names the process, by the source of the record, by its `run_at`, or by the
priority of the script, and `OneIsDesignated` shows that no other process meets
the conditions of `prepare()`.

### Ccus

`CcusProofs` proves, for any number of browsers and individuals (finitely many),
versions, messages, lost connections and restarts (assumption `CcusAssumption`),
that what the service believes a browser was told the browser has, or a note with
it is on the way, or the browser's own reload has failed. It needs that no counter is ahead of the database
(`QueueBound`), that a browser asks for a subscription with a version it has set
out to show, in its list, in its buffer and on the way (`AsksForOwn`), and that notes are of
versions that exist (`Told`). `Paired` ties the list to the subscribers and the
buffer to its timer.

### Client

`ClientProofs` proves, for any number of tabs, contents and failing calls and any
finite set of individuals (assumption `ClientAssumption`):

* `TypeTheorem`, with references that lead to objects of the same individual.
* `SyncedTheorem`, `TextKeptTheorem` and `ShownTheorem`.

The functions of the code are operators on a tab, and call each other up to four
deep: `save` is the draft handler, `undraft`, `draft` and the handler again. In
the middle of them the invariant does not hold: the object in hand is no longer a
draft and not yet stored. `Good(g, s, V, ok, e)` is the invariant of a tab with
the exception of one object `e`, for contents of `V` of which those of `ok` are
settled (stored, given up, or 0): references are right (`Pointers`), a draft is
unsaved (`Drafts`), the object of a page and the one of a draft is the object of
the cache (`Links`, without a logout), a content that is not settled is that of a
draft (`Held`), and the disk has the drafts (`OnDisk`, one tab). Each function has
a lemma that says for which `e` it needs `Good` and for which it leaves it
(`GoodDraft`, `GoodUndraft`, `GoodWith`, `GoodHandler`, `GoodSave`, `GoodReset`,
`GoodMade`, `LoadFacts`, `ShowFacts`), and a lemma for each handler composes them
(`SaveStep` and so on). `Fine` is what holds between handlers: the exception is the
page that is edited and not yet ready, in the first 100 ms, and what counts as
synchronised there is settled. `Somewhere` says that a content that is not settled
is in an object, or on disk while the tab is closed; with `Held` and `OnDisk` that
gives `TextKept`. A start of a tab is the converse (`StartStep`): it needs the set
of individuals to be finite, since the drafts on disk become a sequence of
objects.

### Only model-checked

* Liveness (`EveryRecordRead`, `StaysFresh`, `CascadeEnds`, `FormEnds`), which this
  prover does not handle. `LoopIsServed` needs an induction over a message.
* `NextOnceIfCalm` and `JoinFiresOnce` of `Docflow`, which do not hold for every net
  (see "Conditions of the results"); a theorem would need a notion of a net that
  is sound.

## 5. Not modelled

On the server: passwords and secrets of `authenticate`, backup, queries and the
Xapian index, SQL and mail output, encodings, drivers of databases, reading of
ttl files, installation of user modules, the HTTP server. In the browser: more
than half of the JavaScript is the libraries jsPlumb and CodeMirror, and most of
the rest is presentation (`veda_controls.js`, `veda_workflow_editor.js`, the
templates, the rendering part of `individual_presenter.js`), whose result is on
the screen and which keeps no state but that of the objects in `Client`. Of
`util.js` and `docflow-util.js` the rights, the journals and the transformation of
documents build individuals from data and keep nothing between calls.
`components` in `PROJECT.json` gives the reason for each part.

## 6. Plan

1. Done: queue and module loop, storage process with its abstract store, update
   service, scripts, numeration with its abstract specification, browser
   individuals and drafts, workflow engine, all with proofs.
2. Proofs: an abstract reader (records in order, each at least
   once) that `VModule` with one consumer implements.
3. `AclIndex`: the content of the access index (`prepare_right_set`,
   `update_right_set`, the string form of a right set) as operators, checked
   against the set of permission statements in force; then `Authorization`, the
   decision of `authorization.rs`, against a reference definition.
4. `Login`: the ticket in localStorage, the timer of its expiry and the codes 470
   and 471 in `backend.js`, over several tabs; `create_version` on `Scripts`.
5. `ScriptOrder` (`prepare_script`) and `indv_apply_cmd` as algorithms with
   reference definitions; the class hierarchy of `onto.d`.
6. `FtIndexer`: index commits and queue commits on `VModule`, with what
   `wait_module` may conclude from `committed_op_id`; `ltr_scripts.d`; the batch
   queue of `vmodule.d`.
