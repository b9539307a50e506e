------------------------------- MODULE Docflow ------------------------------
(***************************************************************************)
(* The workflow engine (public/modules/docflow/js/server).  A start form   *)
(* starts a process of a net; a process has work items, one for each visit *)
(* of a net element; a work item of a task has work orders, one for each   *)
(* executor; a user answers the decision form of a work order.             *)
(*                                                                         *)
(* The engine is five event scripts, v-wf:event_df1 to df5, and            *)
(* v-wf:ProcessStopEvent, all run by one process of scripts, which takes   *)
(* the records of the queue in order.  A script sees the individual as its *)
(* record has it (document), reads all others as they are stored now, and  *)
(* collects its writes in a transaction that is sent item by item; each    *)
(* item is a record again.  Every write replaces the whole individual,     *)
(* with set_in and add_to on the state read while the script ran.  Users   *)
(* write between any two steps.  A crash drops what is not sent and        *)
(* repeats the record.                                                     *)
(*                                                                         *)
(* Of the variables of a process only their names are kept, and the one    *)
(* number that is the result of a work order; the individual of a variable *)
(* is left out, the write of the process that gets it is not.  The         *)
(* journals, traces, messages and rights the scripts write beside are left *)
(* out, with the variables their mappings may make, and so are             *)
(* v-wf:enforceProcessing, a codelet without a result, the output          *)
(* s-wf:InterlayerNet_oc and nets with parts missing.                      *)
(***************************************************************************)
EXTENDS Integers, Sequences, SequencesExt

CONSTANTS
  Net,      \* the net elements: [kind, flows, split, join, executors, starts,
            \* ends] each; starts and ends are the variables of scope v-wf:Net
            \* that its mappings make, of a task its startingMapping and
            \* completedMapping, of an input the v-wf:localVariable and of an
            \* output the completedMapping of its net
  Inputs,   \* the InputCondition of each net
  Users,    \* executors that answer a decision form; a net is an executor
            \* too, any other executor is a codelet, which answers at once
  Settings  \* the settings of which a behaviour has one:
            \*   net      the net of the start form
            \*   doc      its process has a variable docId, the form itself
            \*   patient  users answer only when the engine is idle
            \*   sends    bound: how often users send the start form
            \*   answers  bound: how often users write one decision form
            \*   stops    bound: how often users stop a process
            \*   stale    users write forms that the stop has deleted meanwhile
            \*   crashes  bound: crashes

Results == {1, 2}      \* decisions of users; codelets and nets give 1
Kinds == {"input", "condition", "task", "output"}
Flow  == [into: DOMAIN Net, when: Results \cup {0}]   \* when = 0: no predicate
Vars  == Nat           \* the names of variables

ASSUME DocflowAssumption ==
  /\ \A e \in DOMAIN Net :
       /\ Net[e].kind \in Kinds /\ Net[e].flows \in Seq(Flow)
       /\ Net[e].split \in {"none", "XOR", "OR"} /\ Net[e].join \in BOOLEAN
       /\ Net[e].executors \in Seq(STRING)
       /\ Net[e].starts \in SUBSET Vars /\ IsFiniteSet(Net[e].starts)
       /\ Net[e].ends \in SUBSET Vars /\ IsFiniteSet(Net[e].ends)
  /\ \A n \in DOMAIN Inputs : Inputs[n] \in DOMAIN Net
  /\ Settings \subseteq
       [net: DOMAIN Inputs, doc: BOOLEAN, patient: BOOLEAN, sends: Nat, answers: Nat,
        stops: Nat, stale: BOOLEAN, crashes: Nat]

VARIABLES
  setting,  \* the setting of this behaviour
  db,       \* the stored individuals: a sequence for each type
  queue,    \* records [t, id, v, was, by] of changes not yet handled
  todo,     \* what the running script has still to send, as [t, id, v]
  running,  \* a script has run for the first record
  sends, answers, stops, crashes

counts == <<sends, answers, stops, crashes>>
vars   == <<setting, db, queue, todo, running, counts>>

Types == {"form", "proc", "wi", "wo", "df"}
Ids   == Nat \ {0}
Ref   == Ids \cup {0}

\* v-wf:StartForm.  The document of the process is the form itself.
Form == [status: {"Draft", "ToBeSent", "IsSent", "Completed", "Interrupted"},
         procs: Seq(Ids)]
\* v-wf:Process; completed is absent until its first work item is made.
Process == [net: DOMAIN Inputs, parent: Ref, wil: Seq(Ids), stopped: BOOLEAN,
            completed: {"absent", "false", "true"}, local: SUBSET Vars]
WorkItem == [proc: Ids, elem: DOMAIN Net, prev: Ref, exec: BOOLEAN, done: BOOLEAN,
             wol: Seq(Ids), wil: Seq(Ids)]
Executor  == {"nobody"} \cup UNION {ToSet(Net[e].executors) : e \in DOMAIN Net}
WorkOrder == [wi: Ids, executor: Executor, out: Results \cup {0}, dfl: Seq(Ids), sub: Ref]
DecisionForm == [wo: Ids, taken: Results \cup {0}, done: BOOLEAN, deleted: BOOLEAN]

NewProcess(n, o) == [net |-> n, parent |-> o, wil |-> <<>>, stopped |-> FALSE,
                     completed |-> "absent", local |-> {}]
NewWorkItem(p, e, w) == [proc |-> p, elem |-> e, prev |-> w, exec |-> FALSE,
                         done |-> FALSE, wol |-> <<>>, wil |-> <<>>]
NewWorkOrder(w, x) == [wi |-> w, executor |-> x, out |-> 0, dfl |-> <<>>, sub |-> 0]
NewDecisionForm(o) == [wo |-> o, taken |-> 0, done |-> FALSE, deleted |-> FALSE]

Member(t, v) == CASE t = "form" -> v \in Form
                  [] t = "proc" -> v \in Process
                  [] t = "wi" -> v \in WorkItem
                  [] t = "wo" -> v \in WorkOrder
                  [] t = "df" -> v \in DecisionForm

TypeOK ==
  /\ setting \in Settings
  /\ \A t \in Types : \A i \in DOMAIN db[t] : Member(t, db[t][i])
  /\ \A k \in DOMAIN queue : /\ Member(queue[k].t, queue[k].v)
                             /\ queue[k].id \in DOMAIN db[queue[k].t]
  /\ \A k \in DOMAIN todo : Member(todo[k].t, todo[k].v)
  /\ running => queue # <<>>

Init ==
  /\ setting \in Settings
  /\ db = [form |-> <<[status |-> "Draft", procs |-> <<>>]>>, proc |-> <<>>,
           wi |-> <<>>, wo |-> <<>>, df |-> <<>>]
  /\ queue = <<>> /\ todo = <<>> /\ running = FALSE
  /\ sends = 0 /\ answers = <<>> /\ stops = 0 /\ crashes = 0
-----------------------------------------------------------------------------
Put(t, i, v) == [t |-> t, id |-> i, v |-> v]
New(t) == Len(db[t]) + 1   \* the next uri; one that a crash lost is given again
News(t, s) == [k \in DOMAIN s |-> New(t) + k - 1]

\* create_work_item(), for each element of es, after the work item w.
create_work_items(p, es, w) ==
  [k \in DOMAIN es |-> Put("wi", News("wi", es)[k], NewWorkItem(p, es[k], w))]

\* prepare_start_form().
prepare_start_form(d) ==
  IF d.status # "ToBeSent" \/ d.procs # <<>> THEN <<>>
  ELSE << Put("proc", New("proc"), NewProcess(setting.net, 0)),
          Put("form", 1, [status |-> "IsSent", procs |-> <<New("proc")>>]) >>

\* The numbers of S, from the smallest to the greatest.
InOrder(S) ==
  [k \in 1 .. Cardinality(S) |-> CHOOSE x \in S : Cardinality({y \in S : y < x}) = k - 1]

\* Mutant of AddLocals: the process is written without its stop.
AddLocalsAlone(p, have, vs) ==
  LET s == InOrder(vs \ have)
  IN  [k \in DOMAIN s |-> Put("proc", p, [db.proc[p] EXCEPT !.stopped = FALSE, !.local = ToSet(s)])]

\* generate_variable(), for each of vs that the script does not find among the
\* variables of the process: the process as it is stored, with one more.
AddLocals(p, have, vs) ==
  LET s == InOrder(vs \ have)
  IN  [k \in DOMAIN s |->
         Put("proc", p, [db.proc[p] EXCEPT !.local = @ \cup {s[j] : j \in 1 .. k}])]

\* prepare_process().
prepare_process(p, d) ==
  LET vs == Net[Inputs[d.net]].starts
  IN  IF d.completed # "absent" THEN <<>>
      ELSE AddLocals(p, d.local, vs)
           \o << Put("wi", New("wi"), NewWorkItem(p, Inputs[d.net], 0)),
                 Put("proc", p, [d EXCEPT !.wil = <<New("wi")>>, !.completed = "false",
                                          !.local = @ \cup vs]) >>

\* find_in_work_item_tree() and recursiveCall(): the work items below a list of
\* them, with the ones of processes that work orders have started if subs.
Children(w, subs) ==
  ToSet(db.wi[w].wil)
  \cup IF ~subs THEN {}
       ELSE UNION {ToSet(db.proc[db.wo[o].sub].wil) :
                     o \in {x \in ToSet(db.wi[w].wol) : db.wo[x].sub # 0}}
Below(list, subs) ==
  LET in[w \in DOMAIN db.wi] ==
        \/ w \in ToSet(list)
        \/ \E v \in 1 .. (w - 1) : in[v] /\ w \in Children(v, subs)
  IN  {w \in DOMAIN db.wi : in[w]}

\* The flows into e, as the element they come from and their place there.
InFlows(e) ==
  UNION {{<<s, k>> : k \in {j \in DOMAIN Net[s].flows : Net[s].flows[j].into = e}} : s \in DOMAIN Net}

\* Mutant of Joined: isExecuted is not looked at.
JoinAgain(p, e) ==
  LET open == {w \in Below(db.proc[p].wil, FALSE) : db.wi[w].elem = e /\ ~db.wi[w].done}
  IN  Cardinality(open) = Cardinality(InFlows(e))

\* The AND join: there are as many open work items as flows into the element,
\* one from every task with such a flow, and none is executed.
Joined(p, e) ==
  LET open == {w \in Below(db.proc[p].wil, FALSE) : db.wi[w].elem = e /\ ~db.wi[w].done}
      from == {db.wi[db.wi[w].prev].elem : w \in {v \in open : db.wi[v].prev # 0}}
  IN  /\ Cardinality(open) = Cardinality(InFlows(e))
      /\ \A f \in InFlows(e) : Net[f[1]].kind = "task" /\ f[1] \in from
      /\ \A w \in open : ~db.wi[w].exec

\* change_process_status(): the form that has the process.  Without a docId it
\* does nothing; where it finds the process it throws, after the write: it has
\* taken away the list that its loop goes over.
change_process_status(p, status) ==
  IF setting.doc /\ p \in ToSet(db.form[1].procs)
  THEN <<Put("form", 1, [status |-> status, procs |-> <<>>])>> ELSE <<>>

\* A task: its variables and its work orders, one without executor if it has none.
StartTask(w, d) ==
  LET xs  == IF Net[d.elem].executors = <<>> THEN <<"nobody">> ELSE Net[d.elem].executors
      ids == News("wo", xs)
  IN  AddLocals(d.proc, db.proc[d.proc].local, Net[d.elem].starts)
      \o <<Put("wi", w, [d EXCEPT !.wol = ids])>>
      \o [k \in DOMAIN xs |-> Put("wo", ids[k], NewWorkOrder(w, xs[k]))]

\* An input or inner condition: its flows are followed at once.
PassCondition(w, d) ==
  LET es == [k \in DOMAIN Net[d.elem].flows |-> Net[d.elem].flows[k].into]
  IN  IF es = <<>> THEN <<>>
      ELSE Append(create_work_items(d.proc, es, w),
                  Put("wi", w, [d EXCEPT !.wil = News("wi", es), !.done = TRUE, !.exec = FALSE]))

\* The end of the script at the output condition.  When change_process_status()
\* throws the script ends: the process and the work item stay open.
CompleteProcess(w, d, vs) ==
  LET status == change_process_status(d.proc, "Completed")
  IN  IF status # <<>> THEN status
      ELSE <<Put("proc", d.proc, [db.proc[d.proc] EXCEPT !.completed = "true", !.local = @ \cup vs]),
             Put("wi", w, [d EXCEPT !.done = TRUE])>>

\* Mutant of ReachOutput: the work order above gets no result.
ReachOutputAlone(w, d) == CompleteProcess(w, d, {})

\* The output condition: the work order that started the process has its
\* result, and the process and the form are completed.
ReachOutput(w, d) ==
  LET p == db.proc[d.proc]
  IN  IF p.parent = 0 THEN CompleteProcess(w, d, {})
      ELSE AddLocals(d.proc, p.local, Net[d.elem].ends)
           \o <<Put("wo", p.parent, [db.wo[p.parent] EXCEPT !.out = 1])>>
           \o CompleteProcess(w, d, Net[d.elem].ends)

\* prepare_work_item().
prepare_work_item(w, d) ==
  LET x == [d EXCEPT !.exec = TRUE]
  IN  IF d.done \/ (Net[d.elem].join /\ ~Joined(d.proc, d.elem)) THEN <<>>
      ELSE <<Put("wi", w, x)>>
           \o CASE Net[d.elem].kind = "task" -> StartTask(w, x)
                [] Net[d.elem].kind \in {"input", "condition"} -> PassCondition(w, x)
                [] Net[d.elem].kind = "output" -> ReachOutput(w, x)
-----------------------------------------------------------------------------
\* The variables that the completedMapping of the task of w makes.
CompletedMapping(w) ==
  LET p == db.wi[w].proc IN AddLocals(p, db.proc[p].local, Net[db.wi[w].elem].ends)

\* Mutant of Execute: a net is started for a work order with a result too.
ExecuteNetAgain(o, d) ==
  IF d.executor \in DOMAIN Inputs
  THEN << Put("proc", New("proc"), NewProcess(d.executor, o)),
          Put("wo", o, [d EXCEPT !.sub = New("proc")]) >>
  ELSE IF d.out # 0 THEN <<>>
  ELSE IF d.executor \in Users
  THEN << Put("df", New("df"), NewDecisionForm(o)),
          Put("wo", o, [db.wo[o] EXCEPT !.dfl = Append(@, New("df"))]) >>
  ELSE <<Put("wo", o, [d EXCEPT !.out = 1])>>

\* prepare_work_order(), first part, for a work order without result: a
\* decision form for a user, a process for a net, the result of a codelet, or
\* of the mapping where there is no executor.
Execute(o, d) ==
  IF d.out # 0 THEN <<>>
  ELSE IF d.executor \in Users
  THEN << Put("df", New("df"), NewDecisionForm(o)),
          Put("wo", o, [db.wo[o] EXCEPT !.dfl = Append(@, New("df"))]) >>
  ELSE IF d.executor \in DOMAIN Inputs
  THEN << Put("proc", New("proc"), NewProcess(d.executor, o)),
          Put("wo", o, [d EXCEPT !.sub = New("proc")]) >>
  ELSE (IF d.executor # "nobody" THEN <<>> ELSE CompletedMapping(d.wi))
       \o <<Put("wo", o, [d EXCEPT !.out = 1])>>

\* The result of the work order x, where o is the one in hand.  One that is not
\* there ends the script, like one without a result.
Result(o, d, x) ==
  IF x # o THEN IF x \in DOMAIN db.wo THEN db.wo[x].out ELSE 0
  ELSE IF d.out # 0 \/ d.executor \in Users \cup DOMAIN Inputs THEN d.out ELSE 1

\* The elements the flows of e lead to for the results rs of its work orders.
NextElements(e, rs) ==
  LET fl   == Net[e].flows
      open == {k \in DOMAIN fl : IF fl[k].when # 0 THEN fl[k].when \in rs
                                 ELSE Net[e].split = "none"}
      took == {k \in open : Net[e].split = "XOR" => \A j \in open : k <= j}
      ks   == InOrder(took)
  IN  [k \in DOMAIN ks |-> fl[ks[k]].into]

\* Mutant of AllResults: one result is enough.
AnyResult(o, d, w) == \E x \in ToSet(db.wi[w].wol) : Result(o, d, x) # 0

\* The second part: when every work order of the work item has its result, the
\* next work items are made and the work item is completed.
AllResults(o, d, w) ==
  db.wi[w].wol # <<>> /\ \A x \in ToSet(db.wi[w].wol) : Result(o, d, x) # 0

\* What has no executor has made the variables before.
GotoNext(o, d, w) ==
  LET es == NextElements(db.wi[w].elem, {Result(o, d, x) : x \in ToSet(db.wi[w].wol)})
  IN  (IF d.executor = "nobody" /\ d.out = 0 THEN <<>> ELSE CompletedMapping(w))
      \o Append(create_work_items(db.wi[w].proc, es, w),
             Put("wi", w, [db.wi[w] EXCEPT !.done = TRUE,
                                           !.wil = IF es = <<>> THEN @ ELSE News("wi", es)]))

\* Mutant of prepare_work_order: isStopped is not looked at.
OrderUnchecked(o, d) ==
  Execute(o, d) \o IF AllResults(o, d, d.wi) THEN GotoNext(o, d, d.wi) ELSE <<>>

prepare_work_order(o, d) ==
  IF db.proc[db.wi[d.wi].proc].stopped THEN <<>>
  ELSE Execute(o, d) \o IF AllResults(o, d, d.wi) THEN GotoNext(o, d, d.wi) ELSE <<>>

\* set_err_on_indv(): the form as it is stored, with a link to a report.
Report(f) == Put("df", f, db.df[f])

\* prepare_decision_form(), a first decision: the result of the work order.
TakeDecision(f, d) ==
  LET o == db.wo[d.wo]
  IN  IF d.taken = 0 \/ d.done THEN <<>>
      ELSE IF db.wi[o.wi].done THEN <<Report(f)>>
      ELSE IF db.proc[db.wi[o.wi].proc].stopped THEN <<>>
      ELSE << Put("wo", d.wo, [o EXCEPT !.out = d.taken]),
              Put("df", f, [db.df[f] EXCEPT !.done = TRUE]) >>

\* Mutant of prepare_decision_form: the decision before is not looked at.
DecisionChanges(f, d, was) == TakeDecision(f, d)

\* A decision is taken once: the change of one, was before, is undone.
prepare_decision_form(f, d, was) ==
  IF was.taken = 0 THEN TakeDecision(f, d)
  ELSE IF d.taken = was.taken THEN <<>>
  ELSE <<Report(f), Put("df", f, [db.df[f] EXCEPT !.taken = was.taken])>>

\* v-wf:ProcessStopEvent: the open decision forms are deleted, the processes
\* started by work orders are stopped, and the form is interrupted.  (The code
\* meets forms and processes in the order of the tree; their scripts do not
\* depend on it.)
StopAll(p, d) ==
  LET ws == Below(d.wil, TRUE)
      os == UNION {ToSet(db.wi[w].wol) : w \in ws}
      fs == {f \in DOMAIN db.df : /\ \E o \in os : f \in ToSet(db.wo[o].dfl)
                                  /\ ~db.df[f].done}
      ps == {q \in DOMAIN db.proc : /\ \E o \in os : db.wo[o].sub = q
                                    /\ db.proc[q].completed # "true"}
      s  == InOrder(fs)
      t  == InOrder(ps)
  IN  [k \in DOMAIN s |-> Put("df", s[k], [db.df[s[k]] EXCEPT !.deleted = TRUE])]
      \o [k \in DOMAIN t |-> Put("proc", t[k], [db.proc[t[k]] EXCEPT !.stopped = TRUE])]
      \o change_process_status(p, "Interrupted")
-----------------------------------------------------------------------------
(* The scripts of a record.                                                *)
User == <<"user", 0, "user">>

Script(r) == CASE r.t = "form" -> "df1"
               [] r.t = "proc" -> IF r.v.stopped THEN "stop" ELSE "df2"
               [] r.t = "wi" -> "df3"
               [] r.t = "wo" -> "df4"
               [] r.t = "df" -> "df5"

\* The condition in the script, and the loop check of the process of scripts.
Triggered(r) ==
  /\ r.by # <<r.t, r.id, Script(r)>>
  /\ CASE r.t = "form" -> r.by = User
       [] r.t = "proc" -> IF r.v.stopped THEN ~r.was.stopped
                          ELSE r.by[3] \in {"df1", "df2", "df3", "df4", "df5"}
       [] r.t = "wi" -> r.by[3] \in {"df1", "df2", "df3", "df4"}
       [] r.t = "wo" -> r.by[3] \in {"df1", "df2", "df3", "df4", "df5"}
       [] r.t = "df" -> ~r.v.deleted

Writes(r) == CASE r.t = "form" -> prepare_start_form(r.v)
               [] r.t = "proc" -> IF r.v.stopped THEN StopAll(r.id, r.v)
                                  ELSE prepare_process(r.id, r.v)
               [] r.t = "wi" -> prepare_work_item(r.id, r.v)
               [] r.t = "wo" -> prepare_work_order(r.id, r.v)
               [] r.t = "df" -> prepare_decision_form(r.id, r.v, r.was)

\* An individual is stored: the record has its previous state, which for a new
\* individual lacks what the scripts ask of it, like the individual itself.
Store(w, by) ==
  LET new == w.id > Len(db[w.t])
  IN  /\ db' = [db EXCEPT ![w.t] = IF new THEN Append(@, w.v) ELSE [@ EXCEPT ![w.id] = w.v]]
      /\ queue' = Append(queue, [t |-> w.t, id |-> w.id, v |-> w.v,
                                 was |-> IF new THEN w.v ELSE db[w.t][w.id], by |-> by])

\* The scripts are tried for the first record.
Run ==
  /\ queue # <<>> /\ ~running
  /\ LET r  == Head(queue)
         ws == IF Triggered(r) THEN Writes(r) ELSE <<>>
     IN  /\ todo' = ws
         /\ running' = (ws # <<>>)
         /\ queue' = IF ws = <<>> THEN Tail(queue) ELSE queue
  /\ UNCHANGED <<setting, db, counts>>

CommitItem ==
  /\ todo # <<>>
  /\ Store(Head(todo), <<Head(queue).t, Head(queue).id, Script(Head(queue))>>)
  /\ todo' = Tail(todo)
  /\ UNCHANGED <<setting, running, counts>>

\* Mutant of Finish: the record is kept in hand.
FinishRunning ==
  /\ running /\ todo = <<>>
  /\ queue' = Tail(queue)
  /\ UNCHANGED <<setting, db, running, todo, counts>>

Finish ==
  /\ running /\ todo = <<>>
  /\ running' = FALSE
  /\ queue' = Tail(queue)
  /\ UNCHANGED <<setting, db, todo, counts>>

Crash ==
  /\ running /\ crashes < setting.crashes
  /\ crashes' = crashes + 1
  /\ running' = FALSE /\ todo' = <<>>
  /\ UNCHANGED <<setting, db, queue, sends, answers, stops>>
-----------------------------------------------------------------------------
(* Users.                                                                  *)
Idle == queue = <<>> /\ ~running

\* The start form is saved with the status ToBeSent.
Send ==
  /\ sends < setting.sends
  /\ db.form[1].status # "IsSent"
  /\ Store(Put("form", 1, [db.form[1] EXCEPT !.status = "ToBeSent"]), User)
  /\ sends' = sends + 1
  /\ UNCHANGED <<setting, todo, running, answers, stops, crashes>>

\* A decision form is saved with a decision, or with none.
Written(f) == IF f \in DOMAIN answers THEN answers[f] ELSE 0
Answer(f, v) ==
  /\ setting.patient => Idle
  /\ Written(f) < setting.answers
  /\ db.df[f].deleted => setting.stale
  /\ v # db.df[f].taken
  /\ Store(Put("df", f, [db.df[f] EXCEPT !.taken = v, !.deleted = FALSE]), User)
  /\ answers' = [g \in DOMAIN db.df |-> Written(g) + IF g = f THEN 1 ELSE 0]
  /\ UNCHANGED <<setting, todo, running, sends, stops, crashes>>

\* A process that a form has started is stopped, on the page of its journal: that
\* has a copy of the process, which the update service keeps as it is stored.
Stop(p) ==
  /\ stops < setting.stops
  /\ db.proc[p].parent = 0 /\ db.proc[p].completed # "true" /\ ~db.proc[p].stopped
  /\ Store(Put("proc", p, [db.proc[p] EXCEPT !.stopped = TRUE]), User)
  /\ stops' = stops + 1
  /\ UNCHANGED <<setting, todo, running, sends, answers, crashes>>

Next ==
  \/ Run \/ CommitItem \/ Finish \/ Crash
  \/ Send
  \/ \E f \in DOMAIN db.df, v \in Results \cup {0} : Answer(f, v)
  \/ \E p \in DOMAIN db.proc : Stop(p)

Spec == Init /\ [][Next]_vars

\* The process of scripts goes on, and users answer every form some day.
Undecided == {f \in DOMAIN db.df : db.df[f].taken = 0 /\ ~db.df[f].deleted}
FairSpec ==
  /\ Spec
  /\ WF_vars(Run) /\ WF_vars(CommitItem) /\ WF_vars(Finish)
  /\ WF_vars(\E f \in Undecided, v \in Results : Answer(f, v))
-----------------------------------------------------------------------------
(* Properties.                                                             *)

ProcessOf(f) == db.wi[db.wo[db.df[f].wo].wi].proc
Calm == setting.patient /\ setting.crashes = 0

\* A task is left only when all its executors have given their results, with
\* users that answer while the scripts run, and with crashes.
LeftByAll ==
  \A w \in DOMAIN db.wi :
    db.wi[w].done /\ Net[db.wi[w].elem].kind = "task" =>
      \A o \in ToSet(db.wi[w].wol) : o \in DOMAIN db.wo /\ db.wo[o].out # 0

\* What a form shows as decided is what the work order was completed with,
\* although a user changes or clears the decision before, while or after the
\* script handles it.  (A second change is undone to the first, a record that a
\* crash repeats makes a second form for the work order, and the stop of a process
\* writes the forms it deletes over what users have written meanwhile.)
Decided == setting.crashes = 0 /\ setting.answers <= 2 /\ (setting.stale => setting.stops = 0)
DecisionIsResult ==
  Decided /\ Idle =>
    \A f \in DOMAIN db.df :
      db.df[f].done /\ ~db.df[f].deleted => db.wo[db.df[f].wo].out = db.df[f].taken

\* A work item leads to each of its next elements once.
NextOnce ==
  \A v, w \in DOMAIN db.wi :
    v # w /\ db.wi[v].prev = db.wi[w].prev /\ db.wi[v].proc = db.wi[w].proc =>
      db.wi[v].elem # db.wi[w].elem

\* The same for users that answer when the engine is idle, without a crash, in
\* nets where sub-processes end once, and no two of a task at a time: else the
\* records of two results find all results there, as in docflow_twice.
NextOnceIfCalm == Calm => NextOnce

Alone(e) == Net[e].kind = "task" => Len(Net[e].executors) = 1

\* Of the work items that meet at an AND join one is executed, in whatever
\* order the branches end, when every task before it has one executor and the
\* net has no way back to the join.
JoinFiresOnce ==
  setting.crashes = 0 =>
    \A v, w \in DOMAIN db.wi :
      /\ v # w /\ db.wi[v].proc = db.wi[w].proc /\ db.wi[v].elem = db.wi[w].elem
      /\ Net[db.wi[v].elem].join /\ \A f \in InFlows(db.wi[v].elem) : Alone(f[1])
      => ~(db.wi[v].exec /\ db.wi[w].exec)

\* Every work item is in the list of the one before it: a task that is left a
\* second time, as in docflow_twice, has only the work items of the second time.
Listed == \A w \in DOMAIN db.wi :
            db.wi[w].prev # 0 => w \in ToSet(db.wi[db.wi[w].prev].wil)

\* When a stopped process has come to rest no user has a form of it to answer,
\* whatever was on its way when it was stopped.  (A crash can leave a work order
\* that no list has, and its form; so can a task that is left twice.)
StopLeavesNoForm ==
  Idle /\ setting.crashes = 0 /\ Listed => \A f \in Undecided : ~db.proc[ProcessOf(f)].stopped

\* Once the script of a stop has begun with it, nothing undoes the stop, with
\* variables that are added to the process, work that goes on and crashes.  What
\* undoes one is a snapshot of the process taken before the stop: prepare_process()
\* writes the process as its record has it, and a new variable or the completion
\* writes it as it was when the script ran.  All of them come while the record of
\* the stop is behind the one in hand.
StopHolds ==
  [][\A p \in DOMAIN db.proc :
       db.proc[p].stopped /\ ~db'.proc[p].stopped =>
         \E k \in 2 .. Len(queue) : /\ queue[k].t = "proc" /\ queue[k].id = p
                                    /\ queue[k].v.stopped /\ ~queue[k].was.stopped]_vars

\* A form that is sent comes to its end, if users answer all forms: none is open,
\* and the form is completed where the process has a docId, where not the process
\* is.  (Not both: the process of a completed form stays open, docflow_open.)
FormEnds ==
  Calm /\ setting.stops = 0 =>
    (db.form[1].status = "ToBeSent" ~>
       /\ Undecided = {}
       /\ setting.doc => db.form[1].status = "Completed"
       /\ \A p \in DOMAIN db.proc :
            (setting.doc /\ db.proc[p].parent = 0) \/ db.proc[p].completed = "true")

\* A process is completed when its form is.
ProcessCompleted ==
  Idle /\ db.form[1].status = "Completed" =>
    \A p \in DOMAIN db.proc : db.proc[p].completed = "true"
=============================================================================
