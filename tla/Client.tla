-------------------------------- MODULE Client --------------------------------
(***************************************************************************)
(* What a browser keeps of individuals: the objects of                     *)
(* public/js/common/individual_model.js with their flags isNew and isSync, *)
(* the cache of app_model.js, the drafts of drafts_model.js, of which the  *)
(* browser's localStorage has a copy, and the handlers of                  *)
(* individual_presenter.js and update_service.js that use them.  Tabs      *)
(* share localStorage; each has its own objects, cache and drafts.         *)
(*                                                                         *)
(* Calls to the server are synchronous and the rest of reset() is a        *)
(* promise that is settled already, so what a handler does in one tab is   *)
(* one step.  The content of an individual is a number, a new one for      *)
(* every change; 0 is the content load() makes up when it gets none.       *)
(***************************************************************************)
EXTENDS Integers, Sequences, SequencesExt

CONSTANTS
  Tabs, Uris,
  Settings  \* the settings of which a behaviour has one:
            \*   tabs     the tabs that are used
            \*   uris     the individuals that are used
            \*   thing    the individuals are v-s:UserThing
            \*   errors   how calls to the server fail: "down" before, "lost"
            \*            after the server has done it, "refused" is error 472
            \*   failures bound: failing calls
            \*   changes  bound: contents that are made
            \*   closes   bound: tabs closed, or the browser gone
            \*   logouts  bound: logouts

ASSUME ClientAssumption ==
  /\ Uris # {} /\ IsFiniteSet(Uris)
  /\ Settings \subseteq [tabs: SUBSET Tabs, uris: SUBSET Uris, thing: BOOLEAN,
                         errors: SUBSET {"down", "lost", "refused"},
                         failures: Nat, changes: Nat, closes: Nat, logouts: Nat]

VARIABLES
  setting,  \* the setting of this behaviour
  db,       \* the server's content of each individual, 0 if there is none
  disk,     \* localStorage.drafts: the content of each draft, 0 if there is none
  tab,      \* the tabs
  last,     \* the last content made
  stored,   \* contents the server has had
  given,    \* contents the user has given up or replaced
  failures, closes, logouts

counts == <<failures, closes, logouts>>
vars   == <<setting, db, disk, tab, last, stored, given, counts>>

Content == 0 .. last
Object  == [u: Uris, v: Content, base: Content, new: BOOLEAN, sync: BOOLEAN]
Page    == [open: BOOLEAN, objs: Seq(Object), cache: [Uris -> Nat], dr: [Uris -> Nat],
            page: Nat, edit: BOOLEAN, ready: BOOLEAN, told: Content]
Garbage == [u |-> CHOOSE u \in Uris : TRUE, v |-> 0, base |-> 0, new |-> FALSE, sync |-> TRUE]
None    == [u \in Uris |-> 0]
Closed  == [open |-> FALSE, objs |-> <<>>, cache |-> None, dr |-> None,
            page |-> 0, edit |-> FALSE, ready |-> FALSE, told |-> 0]

TypeOK ==
  /\ setting \in Settings /\ stored \subseteq Content /\ given \subseteq Content
  /\ db \in [Uris -> Content] /\ disk \in [Uris -> Content]
  /\ tab \in [Tabs -> Page]
  /\ \A t \in Tabs : LET c == tab[t] IN
       /\ c.page \in 0 .. Len(c.objs)
       /\ \A u \in Uris : \A o \in {c.cache[u], c.dr[u]} \ {0} : c.objs[o].u = u
       /\ \A u \in Uris : c.dr[u] # 0 => ~c.objs[c.dr[u]].sync

\* One individual is stored, the others are yet to be created.
Init ==
  /\ setting \in Settings
  /\ db = [None EXCEPT ![CHOOSE u \in Uris : TRUE] = 1]
  /\ disk = None /\ last = 1 /\ stored = {1} /\ given = {}
  /\ tab = [t \in Tabs |-> Closed]
  /\ failures = 0 /\ closes = 0 /\ logouts = 0
-----------------------------------------------------------------------------
(* What the functions do to a tab c and the drafts on disk d, as a pair.   *)
In(t) == [c |-> tab[t], d |-> disk]

\* storage.drafts = JSON.stringify(this._)
Written(s) == [s EXCEPT !.d = [u \in Uris |-> IF s.c.dr[u] = 0 THEN 0 ELSE s.c.objs[s.c.dr[u]].v]]

\* The object o has new fields; the draft of u is the object o, 0 for none.
With(s, o, x)  == [s EXCEPT !.c.objs[o] = x]
Keeps(s, u, o) == [s EXCEPT !.c.dr[u] = o]

\* Mutant of draft: isSync is left as it is.
draftSynced(s, o) == Written(Keeps(s, s.c.objs[o].u, o))

\* Mutant of draft: localStorage is not written.
draftUnwritten(s, o) ==
  Keeps(With(s, o, [s.c.objs[o] EXCEPT !.sync = FALSE]), s.c.objs[o].u, o)

\* draft(), DraftsModel.set()
draft(s, o) ==
  Written(Keeps(With(s, o, [s.c.objs[o] EXCEPT !.sync = FALSE]), s.c.objs[o].u, o))

\* undraft(), DraftsModel.remove()
undraft(s, u) ==
  IF s.c.dr[u] = 0 THEN s
  ELSE Written(Keeps(With(s, s.c.dr[u], [s.c.objs[s.c.dr[u]] EXCEPT !.sync = TRUE]), u, 0))

\* isDraftHandler(), for the object on the page.
isDraftHandler(s, o) ==
  IF s.c.page = o /\ s.c.edit /\ s.c.ready /\ setting.thing /\ ~s.c.objs[o].sync
  THEN draft(s, o) ELSE s

\* set(): a new content.
set(s, o) ==
  isDraftHandler(With(s, o, [s.c.objs[o] EXCEPT !.v = last + 1, !.sync = FALSE]), o)

\* A new object, in the cache, in the place of one that nothing refers to.
Used(c) == ({c.page} \cup {c.cache[u] : u \in Uris} \cup {c.dr[u] : u \in Uris}) \ {0}
Made(s, x) ==
  LET k == CHOOSE i \in (1 .. Len(s.c.objs) + 1) \ Used(s.c) :
             \A j \in 1 .. (i - 1) : j \in Used(s.c)
      objs == IF k > Len(s.c.objs) THEN Append(s.c.objs, x) ELSE [s.c.objs EXCEPT ![k] = x]
  IN  [s EXCEPT !.c = [s.c EXCEPT !.objs = objs, !.cache = [s.c.cache EXCEPT ![x.u] = k]]]

\* load(): the object in the cache, or a new one with what the server answers.
\* (After the codes 470 and 471, a session that is over, the code hands out an
\* object that it does not put into the cache; the page is left for the login
\* then, and the case is not told apart from another error.)
Loaded(u, answer) ==
  LET found == answer = "ok" /\ db[u] # 0
  IN  [u |-> u, v |-> IF found THEN db[u] ELSE 0, base |-> IF found THEN db[u] ELSE 0,
       new |-> answer = "ok" /\ db[u] = 0, sync |-> ~(answer = "ok" /\ db[u] = 0)]

\* Mutant of load: the cache is not looked at.
loadUncached(s, u, answer) == Made(s, Loaded(u, answer))

load(s, u, answer) ==
  IF s.c.cache[u] # 0 THEN s
  ELSE Made(s, Loaded(u, answer))

\* save(), with put_individual() answering so.
Saves(s, o) == ~s.c.objs[o].sync /\ s.c.objs[o].v # 0

\* Mutant of save: a failed call counts as done.
saveForgets(s, o, answer) ==
  LET b == undraft(isDraftHandler(s, o), s.c.objs[o].u)
  IN  IF Saves(s, o) THEN With(b, o, [b.c.objs[o] EXCEPT !.new = FALSE, !.sync = TRUE]) ELSE s

save(s, o, answer) ==
  LET b == undraft(isDraftHandler(s, o), s.c.objs[o].u)
      a == IF answer = "ok" THEN With(b, o, [b.c.objs[o] EXCEPT !.new = FALSE, !.sync = TRUE])
           ELSE IF setting.thing /\ answer # "refused" THEN draft(b, o) ELSE b
  IN  IF Saves(s, o) THEN isDraftHandler(a, o) ELSE s

\* reset(), with get_individual() answering so.  (The code takes two values
\* with the same sum of character codes for equal; different versions are
\* taken to have different sums.)
reset(s, o, answer) ==
  LET u == s.c.objs[o].u
      a == IF s.c.objs[o].v = db[u] THEN s
           ELSE isDraftHandler(With(s, o, [s.c.objs[o] EXCEPT !.v = db[u]]), o)
      b == With(a, o, [a.c.objs[o] EXCEPT !.new = FALSE, !.sync = TRUE, !.base = db[u]])
  IN  isDraftHandler(undraft(IF ~s.c.objs[o].new /\ answer = "ok" /\ db[u] # 0
                             THEN b ELSE s, u), o)

\* What the user gives up with the object o, and with the draft of it.
Lets(s, o) == {s.c.objs[x].v : x \in {o, s.c.dr[s.c.objs[o].u]} \ {0}}
-----------------------------------------------------------------------------
(* Steps of a tab.                                                         *)
Answers == {"ok"} \cup setting.errors
Counts(answer) ==
  /\ answer # "ok" => failures < setting.failures
  /\ failures' = failures + IF answer = "ok" THEN 0 ELSE 1
GivesUp(vs) == given' = given \cup (vs \ stored)
Swept(c) == [c EXCEPT !.objs = [k \in DOMAIN @ |-> IF k \in Used(c) THEN @[k] ELSE Garbage]]
Out(t, s) == tab' = [tab EXCEPT ![t] = Swept(s.c)] /\ disk' = s.d

\* A call that writes v: what the server has after it, one version for
\* another; the module MStorage has its threads.
Puts(u, v, answer) ==
  IF answer \in {"ok", "lost"}
  THEN db' = [db EXCEPT ![u] = v] /\ stored' = stored \cup {v}
  ELSE UNCHANGED <<db, stored>>
Fresh == last < setting.changes /\ last' = last + 1

\* A tab starts: new DraftsModel() makes an object for every draft on disk.
Start(t) ==
  /\ ~tab[t].open
  /\ LET us   == SetToSeq({u \in Uris : disk[u] # 0})
         objs == [k \in DOMAIN us |-> [u |-> us[k], v |-> disk[us[k]], base |-> 0,
                                       new |-> FALSE, sync |-> FALSE]]
         at   == [u \in Uris |-> IF disk[u] = 0 THEN 0
                                 ELSE CHOOSE k \in DOMAIN us : us[k] = u]
     IN  tab' = [tab EXCEPT ![t] = [Closed EXCEPT !.open = TRUE, !.objs = objs,
                                                  !.cache = at, !.dr = at]]
  /\ UNCHANGED <<setting, db, disk, last, stored, given, counts>>

Away(c) == [c EXCEPT !.page = 0, !.edit = FALSE, !.ready = FALSE, !.told = 0]

\* What was typed before the page was ready is not a draft yet.
Early(t) == IF tab[t].page = 0 \/ tab[t].ready THEN {} ELSE {tab[t].objs[tab[t].page].v}

\* A tab is closed.
Close(t) ==
  /\ tab[t].open /\ closes < setting.closes
  /\ closes' = closes + 1
  /\ tab' = [tab EXCEPT ![t] = Closed]
  /\ GivesUp(Early(t))
  /\ UNCHANGED <<setting, db, disk, last, stored, failures, logouts>>

\* An individual is shown, and subscribed with the update service.
Show(s, u, edit) ==
  LET o == s.c.cache[u]
  IN  [s EXCEPT !.c = [@ EXCEPT !.page = o, !.edit = edit, !.ready = FALSE,
                                !.told = s.c.objs[o].base]]
Open(t, u, edit, answer) ==
  /\ tab[t].open /\ tab[t].page = 0
  /\ answer # "ok" => tab[t].cache[u] = 0
  /\ Counts(answer)
  /\ Out(t, Show(load(In(t), u, answer), u, edit))
  /\ UNCHANGED <<setting, db, last, stored, given, closes, logouts>>

\* An individual is created and shown.
Create(t, u) ==
  /\ tab[t].open /\ tab[t].page = 0
  /\ db[u] = 0 /\ disk[u] = 0
  /\ \A x \in Tabs : \A k \in DOMAIN tab[x].objs : tab[x].objs[k].u # u
  /\ Fresh
  /\ LET n == [u |-> u, v |-> last + 1, base |-> 0, new |-> TRUE, sync |-> FALSE]
     IN  Out(t, Show(Made(In(t), n), u, TRUE))
  /\ UNCHANGED <<setting, db, stored, given, counts>>

\* 100 ms later.
Ready(t) ==
  /\ tab[t].page # 0 /\ ~tab[t].ready
  /\ Out(t, isDraftHandler([In(t) EXCEPT !.c.ready = TRUE], tab[t].page))
  /\ UNCHANGED <<setting, db, last, stored, given, counts>>

\* The user turns to the list of drafts.
Leave(t) ==
  /\ tab[t].page # 0 /\ tab[t].ready
  /\ tab' = [tab EXCEPT ![t] = Swept(Away(@))]
  /\ UNCHANGED <<setting, db, disk, last, stored, given, counts>>

EditMode(t) ==
  /\ tab[t].page # 0 /\ ~tab[t].edit
  /\ tab' = [tab EXCEPT ![t].edit = TRUE]
  /\ UNCHANGED <<setting, db, disk, last, stored, given, counts>>

\* The user types.
Type(t) ==
  /\ tab[t].page # 0 /\ tab[t].edit /\ tab[t].objs[tab[t].page].v # 0
  /\ Fresh
  /\ Out(t, set(In(t), tab[t].page))
  /\ GivesUp({tab[t].objs[tab[t].page].v})
  /\ UNCHANGED <<setting, db, stored, counts>>

\* saveHandler()
Save(t, answer) ==
  /\ tab[t].page # 0
  /\ LET o == tab[t].page
         s == save(In(t), o, answer)
     IN  /\ answer # "ok" => Saves(In(t), o)
         /\ Counts(answer)
         /\ Out(t, [s EXCEPT !.c.edit = FALSE])
         /\ IF Saves(In(t), o) THEN Puts(tab[t].objs[o].u, tab[t].objs[o].v, answer)
            ELSE UNCHANGED <<db, stored>>
  /\ UNCHANGED <<setting, last, given, closes, logouts>>

\* draftHandler()
Draft(t) ==
  /\ tab[t].page # 0 /\ tab[t].objs[tab[t].page].v # 0
  /\ Out(t, [draft(In(t), tab[t].page) EXCEPT !.c.edit = FALSE])
  /\ UNCHANGED <<setting, db, last, stored, given, counts>>

\* cancelHandler()
Cancel(t, answer) ==
  /\ tab[t].page # 0
  /\ Counts(answer)
  /\ Out(t, [reset(In(t), tab[t].page, answer) EXCEPT !.c.edit = FALSE])
  /\ GivesUp(Lets(In(t), tab[t].page))
  /\ UNCHANGED <<setting, db, last, stored, closes, logouts>>

\* deleteHandler() and recoverHandler(): v-s:deleted is set or cleared, and the
\* individual is saved; a new one is only undrafted.
Delete(t, answer) ==
  /\ tab[t].page # 0
  /\ LET o == tab[t].page
         x == tab[t].objs[o]
     IN  /\ x.v # 0
         /\ IF x.new
            THEN /\ answer = "ok" /\ Out(t, undraft(In(t), x.u))
                 /\ GivesUp(Lets(In(t), o))
                 /\ UNCHANGED <<db, last, stored, failures>>
            ELSE /\ Counts(answer) /\ Fresh
                 /\ Out(t, save(set(In(t), o), o, answer))
                 /\ Puts(x.u, last + 1, answer)
                 /\ GivesUp({x.v})
  /\ UNCHANGED <<setting, closes, logouts>>

\* destroyHandler(): the individual is removed from the database; the user
\* leaves the page of an individual that is gone.
Destroy(t, answer) ==
  /\ tab[t].page # 0
  /\ LET o == tab[t].page
         x == tab[t].objs[o]
         s == undraft(In(t), x.u)
     IN  /\ ~x.new /\ db[x.u] # 0
         /\ Counts(answer)
         /\ Out(t, IF answer = "ok"
                   THEN [s EXCEPT !.c = [Away(@) EXCEPT !.cache[x.u] = 0]]
                   ELSE s)
         /\ db' = IF answer \in {"ok", "lost"} THEN [db EXCEPT ![x.u] = 0] ELSE db
         /\ GivesUp(Lets(In(t), o))
  /\ UNCHANGED <<setting, last, stored, closes, logouts>>

\* The button of the list of drafts: DraftsModel.reset().
DropDraft(t, u, answer) ==
  /\ tab[t].open /\ tab[t].page = 0 /\ tab[t].dr[u] # 0
  /\ Counts(answer)
  /\ LET o == tab[t].dr[u]
         s == undraft(In(t), u)
         r == Written(With(s, o, [s.c.objs[o] EXCEPT !.sync = FALSE]))
     IN  /\ Out(t, reset(IF tab[t].objs[o].new THEN s ELSE r, o, answer))
         /\ GivesUp(Lets(In(t), o))
  /\ UNCHANGED <<setting, db, last, stored, closes, logouts>>

\* receiveMessage(): the server has another content than the one it was told.
receiveMessage(t, u, answer) ==
  /\ tab[t].page # 0 /\ tab[t].objs[tab[t].page].u = u /\ tab[t].told # db[u]
  /\ Counts(answer)
  /\ LET s == load([In(t) EXCEPT !.c.told = db[u]], u, answer)
         o == s.c.cache[u]
     IN  Out(t, IF s.c.objs[o].base = db[u] \/ s.c.dr[u] # 0 THEN s ELSE reset(s, o, answer))
  /\ GivesUp(Early(t))
  /\ UNCHANGED <<setting, db, last, stored, closes, logouts>>

\* logout() and another login: the cache is cleared, the drafts are not.
Logout(t) ==
  /\ tab[t].open /\ logouts < setting.logouts
  /\ logouts' = logouts + 1
  /\ tab' = [tab EXCEPT ![t] = Swept([Away(@) EXCEPT !.cache = None])]
  /\ UNCHANGED <<setting, db, disk, last, stored, given, failures, closes>>

\* Somebody else saves the individual.
Other(u) ==
  /\ db[u] # 0 /\ Fresh
  /\ Puts(u, last + 1, "ok")
  /\ UNCHANGED <<setting, disk, tab, given, counts>>

Next ==
  \/ \E t \in setting.tabs :
       \/ Start(t) \/ Close(t) \/ Ready(t) \/ Leave(t) \/ EditMode(t) \/ Type(t)
       \/ Draft(t) \/ Logout(t)
       \/ \E u \in setting.uris : Create(t, u)
       \/ \E a \in Answers : Save(t, a) \/ Cancel(t, a) \/ Delete(t, a) \/ Destroy(t, a)
       \/ \E u \in setting.uris, a \in Answers : DropDraft(t, u, a) \/ receiveMessage(t, u, a)
       \/ \E u \in setting.uris, e \in BOOLEAN, a \in Answers : Open(t, u, e, a)
  \/ \E u \in setting.uris : Other(u)

Spec == Init /\ [][Next]_vars
-----------------------------------------------------------------------------
(* Properties.                                                             *)
Things == setting.thing /\ "refused" \notin setting.errors /\ setting.logouts = 0

\* isSync() says the truth of user things: a content the server never had is
\* still to be saved, or given up by the user, with calls that fail before and
\* after the server has stored, updates from others, drafts, closed tabs and a
\* second tab.  (Not so for other individuals, or when the server refuses a
\* draft with error 472: save() has taken it from the drafts by then.)
SyncedIsStored ==
  Things => \A t \in Tabs : \A k \in DOMAIN tab[t].objs :
              tab[t].objs[k].sync => tab[t].objs[k].v \in stored \cup given \cup {0}

Unsaved(t) == LET c == tab[t] IN
  {c.objs[o].v : o \in {x \in {c.page} \cup {c.dr[u] : u \in Uris} : x # 0 /\ ~c.objs[x].sync}}

\* What a user has typed in a user thing is not lost to failing calls, to
\* updates from others, to a closed tab or to leaving the page: until it is
\* stored or given up the tab has it unsaved, and when the tab is closed the
\* disk has it.  (What is typed in the first 100 ms of a page is not safe, and
\* a second tab overwrites the drafts on disk.)
TextKept ==
  Things => \A t \in Tabs : setting.tabs = {t} =>
    (1 .. last) \ (stored \cup given) \subseteq
      IF tab[t].open THEN Unsaved(t) ELSE {disk[u] : u \in Uris}

\* The object of a page is the object of the draft of the same individual, so
\* that saving the page saves the draft.  (Not so after a logout, which clears
\* the cache and keeps the drafts.)
ShownIsDraft ==
  setting.logouts = 0 =>
    \A t \in Tabs : LET c == tab[t] IN
      c.page # 0 /\ c.objs[c.page].v # 0 => c.dr[c.objs[c.page].u] \in {0, c.page}
=============================================================================
