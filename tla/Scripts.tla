------------------------------- MODULE Scripts ------------------------------
(***************************************************************************)
(* The event scripts: the processes veda-scripts main, lp and lp1          *)
(* (source/veda/gluecode/scripts.d) read the queue individuals-flow, each  *)
(* with a position of its own, run the scripts that a change triggers, and *)
(* send what a script has written back to the storage, from where it comes *)
(* to the queue again.                                                     *)
(*                                                                         *)
(* What a script does is not known: it writes any sequence of individuals, *)
(* or throws.  event_id is the path of the scripts that led to a change,   *)
(* the newest first, each as the pair of the individual and the script.    *)
(* A process is written as its argument: "lp" and "lp1" stand for the      *)
(* V8.LowPriority and V8.LowPriority1 of v-s:runAt and for the names of    *)
(* their consumers in the src of a record.                                 *)
(* The position of a process is its _info_pop file, as VModule has it for  *)
(* a module with one consumer; a type that no script is run for            *)
(* (PermissionStatement, Membership) is a filter that does not pass.       *)
(***************************************************************************)
EXTENDS Integers, Sequences, SequencesExt

CONSTANTS
  VMs,           \* the processes, with "main" among them
  Uris,          \* individuals
  Order,         \* wpl.scripts_order
  Triggers,      \* pairs of an individual and a script whose filter it passes
  LowPriority,   \* the scripts whose v-s:runAt is the lp process; the others: main
  Unsafe,        \* the scripts with v-s:unsafe
  Settings,      \* the settings of which a behaviour has one:
                 \*   keep     the scripts with v-s:disallowChangingSource
                 \*   run_at   values of v-s:runAt in what is written, NoRunAt
                 \*            for none
                 \*   records  bound: records of a part of the queue
                 \*   parts    bound: restarts of the storage, each with a part
                 \*   fails    bound: failed commits, lost answers, exceptions
                 \*            and deaths
  UserPaths,     \* event_id of what users write: none or IGNORE
  MaxLoops,      \* MAX_COUNT_LOOPS
  MaxWrites,     \* bound: individuals one script writes
  MaxUser,       \* bound: changes that users make
  MaxRecords,    \* bound of all records
  MaxPart        \* bound of all parts

NoRunAt == "none"
Ignore  == <<"IGNORE", "IGNORE">>
AnySrc  == "?"
NoParent == <<-1, 0>>   \* of what users write; parent is not in the code

ASSUME ScriptsAssumption ==
  /\ "main" \in VMs /\ VMs \subseteq {"main", "lp", "lp1"}
  /\ Order \in Seq(ToSet(Order)) /\ IsInjective(Order)
  /\ LowPriority \cup Unsafe \subseteq ToSet(Order)
  /\ Triggers \subseteq Uris \X ToSet(Order)
  /\ LowPriority = {} \/ "lp" \in VMs
  /\ Settings \subseteq
       [keep: SUBSET ToSet(Order), run_at: SUBSET (VMs \cup {NoRunAt}),
        records: 0 .. MaxRecords, parts: 0 .. MaxPart, fails: Nat]
  /\ UserPaths \subseteq {<<>>, <<Ignore>>}
  /\ MaxLoops \in Nat /\ MaxWrites \in Nat /\ MaxUser \in Nat
  /\ MaxRecords \in Nat /\ MaxPart \in Nat

ScriptIds == ToSet(Order)
Parts     == 0 .. MaxPart

VARIABLES
  setting, \* the setting of this behaviour
  queue,   \* [Parts -> sequence of records]
  latest,  \* the part the storage writes
  pos,     \* _info_pop of each process: [id, popped]
  todo,    \* scripts the process has still to try for its record
  at,      \* "pop", "scripts" or "commit"
  tnx,     \* what the running script has written, as <<cmd, uri>>
  sent,    \* how many of these are sent
  users, fails,
  ran,     \* history: <<vm, record, script>> that ran to the end of its commit
  gave_up  \* history: <<vm, record>> left for an error not worth a retry

vars == <<setting, queue, latest, pos, todo, at, tnx, sent, users, fails, ran, gave_up>>

Record == [uri: Uris, cmd: {"put", "remove"}, run_at: VMs \cup {NoRunAt},
           src: VMs \cup {AnySrc}, path: Seq((Uris \X ScriptIds) \cup {Ignore}),
           parent: (Parts \X Nat) \cup {NoParent}]

TypeOK ==
  /\ setting \in Settings
  /\ \A p \in Parts : \A n \in DOMAIN queue[p] : queue[p][n] \in Record
  /\ latest \in Parts
  /\ \A v \in VMs : /\ pos[v].id \in 0 .. latest
                    /\ pos[v].popped \in 0 .. Len(queue[pos[v].id])
                    /\ at[v] # "pop" => pos[v].popped < Len(queue[pos[v].id])
                    /\ \E k \in 1 .. Len(Order) + 1 : todo[v] = SubSeq(Order, k, Len(Order))
                    /\ at[v] = "commit" => todo[v] # <<>>
                    /\ sent[v] \in 0 .. Len(tnx[v])

Init ==
  /\ setting \in Settings
  /\ queue = [p \in Parts |-> <<>>]
  /\ latest = 0
  /\ pos = [v \in VMs |-> [id |-> 0, popped |-> 0]]
  /\ todo = [v \in VMs |-> <<>>]
  /\ at = [v \in VMs |-> "pop"]
  /\ tnx = [v \in VMs |-> <<>>]
  /\ sent = [v \in VMs |-> 0]
  /\ users = 0 /\ fails = 0
  /\ ran = {} /\ gave_up = {}
-----------------------------------------------------------------------------
Put(r) == queue' = [queue EXCEPT ![latest] = Append(@, r)]
Room   == Len(queue[latest]) < setting.records

\* A user writes or removes an individual; the storage writes its src as "?".
UserPut(u, c, ra, path) ==
  /\ users < MaxUser /\ Room
  /\ users' = users + 1
  /\ Put([uri |-> u, cmd |-> c, run_at |-> ra, src |-> AnySrc, path |-> path,
          parent |-> NoParent])
  /\ UNCHANGED <<latest, pos, todo, at, tnx, sent, fails, ran, gave_up>>

\* The storage is started again, and with it all other processes.
StorageRestarts ==
  /\ latest < setting.parts
  /\ latest' = latest + 1
  /\ todo' = [v \in VMs |-> <<>>]
  /\ at' = [v \in VMs |-> "pop"]
  /\ tnx' = [v \in VMs |-> <<>>]
  /\ sent' = [v \in VMs |-> 0]
  /\ UNCHANGED <<queue, pos, users, fails, ran, gave_up>>
-----------------------------------------------------------------------------
Here(v)    == <<pos[v].id, pos[v].popped + 1>>   \* the record in hand
InHand(v)  == queue[pos[v].id][pos[v].popped + 1]
Passed(v, r) == r[1] < pos[v].id \/ (r[1] = pos[v].id /\ r[2] <= pos[v].popped)

\* Mutant of NextPart: the newest part is not looked up first.
NextPartUnchecked(v) ==
  /\ at[v] = "pop"
  /\ pos[v].popped = Len(queue[pos[v].id])
  /\ pos' = [pos EXCEPT ![v] = [id |-> @.id + 1, popped |-> 0]]
  /\ UNCHANGED <<queue, latest, todo, at, tnx, sent, users, fails, ran, gave_up>>

\* The part is read to its end and a newer one is there.
NextPart(v) ==
  /\ at[v] = "pop"
  /\ pos[v].popped = Len(queue[pos[v].id]) /\ pos[v].id < latest
  /\ pos' = [pos EXCEPT ![v] = [id |-> @.id + 1, popped |-> 0]]
  /\ UNCHANGED <<queue, latest, todo, at, tnx, sent, users, fails, ran, gave_up>>

\* The record is done with: the position moves on and is saved.
CommitAndNext(v) ==
  /\ pos' = [pos EXCEPT ![v].popped = @ + 1]
  /\ at' = [at EXCEPT ![v] = "pop"]

\* A low priority process waits for the position of main in the same part.
WaitsForMain(v) ==
  /\ v # "main"
  /\ InHand(v).cmd = "put"
  /\ pos["main"].id = pos[v].id
  /\ pos["main"].popped < pos[v].popped

\* Mutant of Foreign: the src of a record is not looked at.
ForeignRemove(v) == InHand(v).cmd = "remove"

\* Not for this process: a removal, or what a script of another one wrote.
Foreign(v) == \/ InHand(v).cmd = "remove"
              \/ InHand(v).src # AnySrc /\ InHand(v).src # v

\* prepare(), as far as the loop over the scripts.
Prepare(v) ==
  /\ at[v] = "pop"
  /\ pos[v].popped < Len(queue[pos[v].id])
  /\ ~WaitsForMain(v)
  /\ IF Foreign(v)
       THEN CommitAndNext(v) /\ UNCHANGED todo
       ELSE /\ at' = [at EXCEPT ![v] = "scripts"]
            /\ todo' = [todo EXCEPT ![v] = Order]
            /\ UNCHANGED pos
  /\ UNCHANGED <<queue, latest, tnx, sent, users, fails, ran, gave_up>>
-----------------------------------------------------------------------------
RunAt(s) == IF s \in LowPriority THEN "lp" ELSE "main"

\* The script is for this process: asked of what users have written only.
RunsAt(v, r, s) ==
  r.src = AnySrc => IF r.run_at # NoRunAt THEN r.run_at = v ELSE RunAt(s) = v

CountLoops(r, s) ==
  Cardinality({k \in DOMAIN r.path : r.path[k] = <<r.uri, s>>})

\* Mutant of Looped: the first element of the path only is looked at.
LoopedAtOnce(r, s) ==
  /\ s \notin Unsafe
  /\ r.path # <<>>
  /\ r.path[1] \in {<<r.uri, s>>, Ignore}

\* The path of the change shows a loop, or asks to be ignored.
Looped(r, s) ==
  /\ s \notin Unsafe
  /\ r.path # <<>>
  /\ r.path[1] \in {<<r.uri, s>>, Ignore} \/ CountLoops(r, s) > MaxLoops

Runs(v, r, s) == RunsAt(v, r, s) /\ <<r.uri, s>> \in Triggers /\ ~Looped(r, s)

NextScript(v) == todo' = [todo EXCEPT ![v] = Tail(@)]

\* The next script of the order is not run: not here, its filter does not
\* pass, or a loop.
SkipScript(v) ==
  /\ at[v] = "scripts" /\ todo[v] # <<>>
  /\ ~Runs(v, InHand(v), Head(todo[v]))
  /\ NextScript(v)
  /\ UNCHANGED <<queue, latest, pos, at, tnx, sent, users, fails, ran, gave_up>>

\* It is run, and has written or removed the individuals us.
RunScript(v, us) ==
  /\ at[v] = "scripts" /\ todo[v] # <<>>
  /\ Runs(v, InHand(v), Head(todo[v]))
  /\ at' = [at EXCEPT ![v] = "commit"]
  /\ tnx' = [tnx EXCEPT ![v] = us]
  /\ UNCHANGED <<queue, latest, pos, todo, sent, users, fails, ran, gave_up>>

\* An exception: the loop goes on with the next script.
ScriptThrows(v) ==
  /\ at[v] = "scripts" /\ todo[v] # <<>> /\ fails < setting.fails
  /\ Runs(v, InHand(v), Head(todo[v]))
  /\ fails' = fails + 1
  /\ NextScript(v)
  /\ ran' = ran \cup {<<v, Here(v), Head(todo[v])>>}
  /\ UNCHANGED <<queue, latest, pos, at, tnx, sent, users, gave_up>>

\* commit() sends what the script wrote item by item, each a request to the
\* storage, which puts it into the queue.
Sending(v) == at[v] = "commit" /\ sent[v] < Len(tnx[v])
ItemSent(v) == sent' = [sent EXCEPT ![v] = @ + 1]
Store(v, ra) ==
  LET r == InHand(v)
      s == Head(todo[v])
      w == tnx[v][sent[v] + 1]
  IN  /\ Room
      /\ Put([cmd |-> w[1], uri |-> w[2], run_at |-> ra,
              src |-> IF s \in setting.keep THEN r.src ELSE v,
              path |-> <<<<r.uri, s>>>> \o r.path,
              parent |-> Here(v)])

CommitItem(v, ra) ==
  /\ Sending(v)
  /\ Store(v, ra)
  /\ ItemSent(v)
  /\ UNCHANGED <<latest, pos, todo, at, tnx, users, fails, ran, gave_up>>

\* No answer (InternalServerError): commit() looks at the counter in the
\* database.  If it is still the one of the item, the item was not stored and
\* is taken for stored; if it has moved on, the item is sent again.
AnswerLost(v, ra) ==
  /\ Sending(v) /\ fails < setting.fails
  /\ fails' = fails + 1
  /\ \/ ItemSent(v) /\ UNCHANGED queue
     \/ Store(v, ra) /\ UNCHANGED sent
  /\ UNCHANGED <<latest, pos, todo, at, tnx, users, ran, gave_up>>

Forget(v) == /\ tnx' = [tnx EXCEPT ![v] = <<>>]
             /\ sent' = [sent EXCEPT ![v] = 0]

\* All of it is sent: on to the next script.
Committed(v) ==
  /\ at[v] = "commit" /\ ~Sending(v)
  /\ ran' = ran \cup {<<v, Here(v), Head(todo[v])>>}
  /\ at' = [at EXCEPT ![v] = "scripts"]
  /\ NextScript(v) /\ Forget(v)
  /\ UNCHANGED <<queue, latest, pos, users, fails, gave_up>>

\* An item is refused: prepare() ends, and the record is repeated from the
\* first script or left, as the error is worth a retry or not.
CommitFails(v) ==
  /\ Sending(v) /\ fails < setting.fails
  /\ fails' = fails + 1
  /\ Forget(v)
  /\ todo' = [todo EXCEPT ![v] = <<>>]
  /\ \/ /\ at' = [at EXCEPT ![v] = "pop"]
        /\ UNCHANGED <<pos, gave_up>>
     \/ /\ CommitAndNext(v)
        /\ gave_up' = gave_up \cup {<<v, Here(v)>>}
  /\ UNCHANGED <<queue, latest, users, ran>>

\* All scripts are tried.
Prepared(v) ==
  /\ at[v] = "scripts" /\ todo[v] = <<>>
  /\ CommitAndNext(v)
  /\ UNCHANGED <<queue, latest, todo, tnx, sent, users, fails, ran, gave_up>>

\* The process dies and is started again by the watchdog.
Dies(v) ==
  /\ at[v] # "pop" /\ fails < setting.fails
  /\ fails' = fails + 1
  /\ at' = [at EXCEPT ![v] = "pop"]
  /\ todo' = [todo EXCEPT ![v] = <<>>]
  /\ Forget(v)
  /\ UNCHANGED <<queue, latest, pos, users, ran, gave_up>>
-----------------------------------------------------------------------------
Writes  == {"put", "remove"} \X Uris
Outputs == UNION {[1 .. n -> Writes] : n \in 0 .. MaxWrites}

Process(v) ==
  /\ UNCHANGED setting
  /\ \/ NextPart(v) \/ Prepare(v) \/ SkipScript(v)
     \/ \E us \in Outputs : RunScript(v, us)
     \/ \E ra \in setting.run_at : CommitItem(v, ra)
     \/ Committed(v) \/ Prepared(v)

Other ==
  \/ \E u \in Uris, c \in {"put", "remove"}, ra \in setting.run_at, p \in UserPaths :
       UserPut(u, c, ra, p)
  \/ StorageRestarts
  \/ \E v \in VMs : \/ ScriptThrows(v) \/ CommitFails(v) \/ Dies(v)
                    \/ \E ra \in setting.run_at : AnswerLost(v, ra)

Next ==
  \/ \E v \in VMs : Process(v)
  \/ Other /\ UNCHANGED setting

Spec == Init /\ [][Next]_vars

\* Each process goes on: the loop polls, scripts end, the storage answers.
FairSpec == Spec /\ \A v \in VMs : WF_vars(Process(v))
-----------------------------------------------------------------------------
Positions == {r \in Parts \X (1 .. MaxRecords) : r[2] <= Len(queue[r[1]])}
At(r)     == queue[r[1]][r[2]]

\* Every script a change triggers is run for it, and by one process only:
\* when all processes have passed a record, exactly one of them has run the
\* script, whatever the crashes, errors and repetitions before, unless the
\* process gave the record up.
OneProcessRuns ==
  \A r \in Positions : \A s \in ScriptIds :
    (/\ At(r).cmd = "put" /\ <<At(r).uri, s>> \in Triggers /\ ~Looped(At(r), s)
     /\ \A v \in VMs : Passed(v, r)) =>
      \/ Cardinality({v \in VMs : <<v, r, s>> \in ran}) = 1
      \/ \E v \in VMs : <<v, r>> \in gave_up

\* A cascade of safe scripts that write individuals of a fixed finite set
\* ends: once users stop, the processes come to the end of the queue and stay
\* there.  The two conditions are needed: the loop check counts pairs of an
\* individual and a script, so that scripts that make new individuals are not
\* stopped by it (Uris is finite here), and it is skipped for a script with
\* v-s:unsafe.  The property is asked in the setting with all MaxRecords
\* records, where the bound does not cut the cascade short.
CascadeEnds ==
  Unsafe = {} /\ setting.records = MaxRecords =>
  <>[](\A v \in VMs : /\ at[v] = "pop" /\ pos[v].id = latest
                      /\ pos[v].popped = Len(queue[latest]))

\* What a script has written is stored when commit() has answered Ok for it.
WrittenIsStored ==
  [][\A v \in VMs : Committed(v) =>
       \A k \in DOMAIN tnx[v] : \E r \in Positions :
         /\ At(r).parent = Here(v)
         /\ At(r).path[1][2] = Head(todo[v])
         /\ <<At(r).cmd, At(r).uri>> = tnx[v][k]]_vars
=============================================================================
