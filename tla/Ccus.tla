-------------------------------- MODULE Ccus --------------------------------
(***************************************************************************)
(* The client cache update service: the process veda-ccus                  *)
(* (source/veda-ccus/src/main.rs) follows the queue individuals-flow and   *)
(* tells browsers over web sockets which individuals have changed; the     *)
(* browser side is public/js/browser/update_service.js.                    *)
(*                                                                         *)
(* An individual is its version, v-s:updateCounter.  The queue is the      *)
(* sequence of changes, of which veda-ccus has consumed the first read     *)
(* ones.  uri2counter's second number (count_subscribe) is written and     *)
(* never used, and is left out; so are drafts, which a browser does not    *)
(* reload.                                                                 *)
(***************************************************************************)
EXTENDS Integers, Sequences, SequencesExt

CONSTANTS
  Clients,     \* browsers
  Uris,        \* individuals
  Known,       \* the ones that uri2counter follows already, at version 0
  Offline,     \* TRUE if pages come and go while there is no connection
  MaxVersion,  \* bound: versions of an individual
  MaxShown,    \* bound: places of a page that show the same individual
  MaxMessages, \* bound: messages in the buffer and on the way up, and on the way down
  MaxClose,    \* bound: lost connections
  MaxRestart   \* bound: restarts of veda-ccus

ASSUME CcusAssumption ==
  /\ Known \subseteq Uris /\ IsFiniteSet(Uris)
  /\ Offline \in BOOLEAN
  /\ MaxVersion \in Nat /\ MaxShown \in Nat /\ MaxMessages \in Nat
  /\ MaxClose \in Nat /\ MaxRestart \in Nat

None == -1

VARIABLES
  version,      \* [Uris -> Nat], the individual in the database
  queue, read,  \* the changes, and how many of them veda-ccus has consumed
  uri2counter,  \* [Uris -> Nat or None]
  idws2uris,    \* the subscriptions of the current socket of each client
  have,         \* the version a browser shows
  asked,        \* history: the version it has last set out to show
  list,         \* UpdateService.list: [Uris -> updateCounter or None]
  subscribers,  \* subscribeCounter of each entry of the list
  socket,       \* "connecting", "open" or "closed"
  buffer,       \* messages waiting for the timer
  timer,        \* "off", "own", "old" or "late", see sendMessage below
  up, down,     \* messages on the way to the server and to the client
  closes, restarts

serverVars == <<read, uri2counter, idws2uris>>
clientVars == <<have, asked, list, subscribers, socket, buffer, timer>>
vars == <<version, queue, serverVars, clientVars, up, down, closes, restarts>>

Nothing == [u \in Uris |-> None]
Counter == 0 .. MaxVersion

TypeOK ==
  /\ version \in [Uris -> Counter]
  /\ read \in 0 .. Len(queue)
  /\ uri2counter \in [Uris -> Counter \cup {None}]
  /\ idws2uris \in [Clients -> [Uris -> Counter \cup {None}]]
  /\ have \in [Clients -> [Uris -> Counter]]
  /\ asked \in [Clients -> [Uris -> Counter]]
  /\ list \in [Clients -> [Uris -> Counter \cup {None}]]
  /\ socket \in [Clients -> {"connecting", "open", "closed"}]
  /\ timer \in [Clients -> {"off", "own", "old", "late"}]
  /\ \A c \in Clients, u \in Uris :
       /\ subscribers[c][u] \in 0 .. MaxShown
       /\ subscribers[c][u] = 0 <=> list[c][u] = None
  /\ \A c \in Clients : buffer[c] # <<>> <=> timer[c] # "off"
  /\ \A c \in Clients : socket[c] # "open" => up[c] = <<>> /\ down[c] = <<>>

Init ==
  /\ version = [u \in Uris |-> 0]
  /\ queue = <<>> /\ read = 0
  /\ uri2counter = [u \in Uris |-> IF u \in Known THEN 0 ELSE None]
  /\ idws2uris = [c \in Clients |-> Nothing]
  /\ have = [c \in Clients |-> version]
  /\ asked = have
  /\ list = [c \in Clients |-> Nothing]
  /\ subscribers = [c \in Clients |-> [u \in Uris |-> 0]]
  /\ socket = [c \in Clients |-> "open"]
  /\ buffer = [c \in Clients |-> <<>>]
  /\ timer = [c \in Clients |-> "off"]
  /\ up = [c \in Clients |-> <<>>]
  /\ down = [c \in Clients |-> <<>>]
  /\ closes = 0 /\ restarts = 0
-----------------------------------------------------------------------------
\* Somebody puts an individual: the storage stores it and queues it.  If it is
\* the user of a browser, that browser has the new version.  (Browsers mark an
\* individual as deleted by a put; what the storage removes is not modelled.)
Change(u, by) ==
  /\ version[u] < MaxVersion
  /\ version' = [version EXCEPT ![u] = @ + 1]
  /\ queue' = Append(queue, [uri |-> u, u_count |-> version'[u]])
  /\ have' = [c \in Clients |-> IF c \in by THEN [have[c] EXCEPT ![u] = version'[u]]
                                            ELSE have[c]]
  /\ asked' = [c \in Clients |-> IF c \in by THEN [asked[c] EXCEPT ![u] = version'[u]]
                                             ELSE asked[c]]
  /\ UNCHANGED <<serverVars, list, subscribers, socket, buffer, timer, up, down,
                 closes, restarts>>

\* subscribe_manager(): the next record of the queue.
Consume ==
  /\ read < Len(queue)
  /\ read' = read + 1
  /\ uri2counter' = [uri2counter EXCEPT ![queue[read'].uri] =
                       IF @ = None THEN None ELSE queue[read'].u_count]
  /\ UNCHANGED <<version, queue, idws2uris, clientVars, up, down, closes,
                 restarts>>

\* One item of a message: +uri=counter, -uri or -*.
Handshake == [op |-> "ccus"]
Add(u, n) == [op |-> "+", uri |-> u, counter |-> n]
Del(u)    == [op |-> "-", uri |-> u]
DelAll    == [op |-> "-*"]

\* One turn of the loop over the items of a message, for the subscriptions of
\* the socket and the counters.  (A handshake ends the loop; it is always the
\* only item of its message.)
SubscribeItem(s, it) ==
  CASE it.op = "+"  -> [subs |-> [s.subs EXCEPT ![it.uri] = IF @ = None THEN it.counter ELSE @],
                        cnt  |-> [s.cnt EXCEPT ![it.uri] = IF @ = None THEN it.counter ELSE @]]
    [] it.op = "-"  -> [s EXCEPT !.subs[it.uri] = None]
    [] it.op = "-*" -> [s EXCEPT !.subs = Nothing]
    [] OTHER        -> s

\* The whole loop: of the items that add u the first one after the last
\* that cancels it counts, unless u is subscribed to and not cancelled; the
\* first one of all begins the counter.
Adds(ms, u)    == {k \in DOMAIN ms : ms[k].op = "+" /\ ms[k].uri = u}
Cancels(ms, u) == {k \in DOMAIN ms : \/ ms[k].op = "-*"
                                     \/ ms[k].op = "-" /\ ms[k].uri = u}
First(ms, ks)  == IF ks = {} THEN None ELSE ms[Min(ks)].counter
Lasting(ms, u) == {k \in Adds(ms, u) : \A j \in Cancels(ms, u) : j < k}

Subscribed(s, ms, u) ==
  IF s.subs[u] # None /\ Cancels(ms, u) = {} THEN s.subs[u]
  ELSE First(ms, Lasting(ms, u))

Followed(s, ms, u) == IF s.cnt[u] # None THEN s.cnt[u] ELSE First(ms, Adds(ms, u))

\* A text message of a client: all its items.
Serve(c) ==
  /\ up[c] # <<>>
  /\ LET s == [subs |-> idws2uris[c], cnt |-> uri2counter]
     IN  /\ idws2uris' = [idws2uris EXCEPT ![c] =
                            [u \in Uris |-> Subscribed(s, Head(up[c]), u)]]
         /\ uri2counter' = [u \in Uris |-> Followed(s, Head(up[c]), u)]
  /\ up' = [up EXCEPT ![c] = Tail(@)]
  /\ UNCHANGED <<version, queue, read, clientVars, down, closes, restarts>>

\* "?": on every pong the client is told of what differs from what it was
\* told before.
Changed(c) == {u \in Uris : /\ idws2uris[c][u] # None /\ uri2counter[u] # None
                            /\ uri2counter[u] # idws2uris[c][u]}

Pong(c) ==
  /\ socket[c] = "open" /\ Changed(c) # {} /\ Len(down[c]) < MaxMessages
  /\ down' = [down EXCEPT ![c] = Append(@, [u \in Changed(c) |-> uri2counter[u]])]
  /\ idws2uris' = [idws2uris EXCEPT ![c] =
                     [u \in Uris |-> IF u \in Changed(c) THEN uri2counter[u] ELSE @[u]]]
  /\ UNCHANGED <<version, queue, read, uri2counter, clientVars, up, closes,
                 restarts>>
-----------------------------------------------------------------------------
\* sendMessage(): buffered, and sent by a timer of socketDelay that holds the
\* socket it was started on, unless a timer is running already.  "own" is a
\* timer of the current socket, "old" one of a socket that has been lost since,
\* and "late" one that was started on a socket already closed.
Buffer(c, ms) ==
  /\ buffer' = [buffer EXCEPT ![c] = @ \o ms]
  /\ timer' = [timer EXCEPT ![c] = IF @ # "off" \/ ms = <<>> THEN @
                                   ELSE IF socket[c] = "closed" THEN "late" ELSE "own"]

\* A page shows the individual: the model is loaded before or just now.
Load(c, u) ==
  /\ list[c][u] = None
  /\ have[c][u] # version[u]
  /\ have' = [have EXCEPT ![c][u] = version[u]]
  /\ asked' = [asked EXCEPT ![c][u] = version[u]]
  /\ UNCHANGED <<version, queue, serverVars, list, subscribers, socket, buffer,
                 timer, up, down, closes, restarts>>

CanCall(c) == /\ socket[c] = "open" \/ Offline
              /\ Len(buffer[c]) + Len(up[c]) < MaxMessages

Subscribe(c, u) ==
  /\ CanCall(c)
  /\ subscribers[c][u] < MaxShown
  /\ subscribers' = [subscribers EXCEPT ![c][u] = @ + 1]
  /\ IF list[c][u] # None
       THEN UNCHANGED <<list, buffer, timer>>
       ELSE /\ list' = [list EXCEPT ![c][u] = have[c][u]]
            /\ Buffer(c, <<Add(u, have[c][u])>>)
  /\ UNCHANGED <<version, queue, serverVars, have, asked, socket, up, down, closes,
                 restarts>>

\* Mutant: the first place of a page that goes cancels the subscription.
UnsubscribeFirst(c, u) ==
  /\ CanCall(c)
  /\ list[c][u] # None
  /\ subscribers' = [subscribers EXCEPT ![c][u] = @ - 1]
  /\ list' = [list EXCEPT ![c][u] = None]
  /\ Buffer(c, <<Del(u)>>)
  /\ UNCHANGED <<version, queue, serverVars, have, asked, socket, up, down, closes,
                 restarts>>

Unsubscribe(c, u) ==
  /\ CanCall(c)
  /\ list[c][u] # None
  /\ subscribers' = [subscribers EXCEPT ![c][u] = @ - 1]
  /\ IF subscribers[c][u] > 1
       THEN UNCHANGED <<list, buffer, timer>>
       ELSE /\ list' = [list EXCEPT ![c][u] = None]
            /\ Buffer(c, <<Del(u)>>)
  /\ UNCHANGED <<version, queue, serverVars, have, asked, socket, up, down, closes,
                 restarts>>

\* The timer: the buffer goes out on the socket the timer belongs to, or
\* nowhere.
TimerFires(c) ==
  /\ timer[c] # "off"
  /\ up' = IF timer[c] = "own" /\ socket[c] = "open"
             THEN [up EXCEPT ![c] = Append(@, buffer[c])] ELSE up
  /\ buffer' = [buffer EXCEPT ![c] = <<>>]
  /\ timer' = [timer EXCEPT ![c] = "off"]
  /\ UNCHANGED <<version, queue, serverVars, have, asked, list, subscribers, socket, down,
                 closes, restarts>>

\* receiveMessage(): the list takes over the counter of an individual with
\* another version, and reset() loads it anew; a load that fails is logged
\* and leaves the old content.
Receive(c) ==
  /\ down[c] # <<>>
  /\ LET told == Head(down[c])
         new  == {u \in DOMAIN told : told[u] # have[c][u]}
     IN  /\ \E loaded \in SUBSET new :
              have' = [have EXCEPT ![c] = [u \in Uris |->
                         IF u \in loaded THEN version[u] ELSE @[u]]]
         /\ asked' = [asked EXCEPT ![c] = [u \in Uris |->
                        IF u \in new THEN version[u] ELSE @[u]]]
         /\ list' = [list EXCEPT ![c] = [u \in Uris |->
                       IF u \in new /\ @[u] # None THEN told[u] ELSE @[u]]]
  /\ down' = [down EXCEPT ![c] = Tail(@)]
  /\ UNCHANGED <<version, queue, serverVars, subscribers, socket, buffer, timer, up,
                 closes, restarts>>
-----------------------------------------------------------------------------
\* Mutant of Lose: the subscriptions stay for the next socket.
LoseKeeps(cs) ==
  /\ socket' = [c \in Clients |-> IF c \in cs THEN "closed" ELSE socket[c]]
  /\ up' = [c \in Clients |-> IF c \in cs THEN <<>> ELSE up[c]]
  /\ down' = [c \in Clients |-> IF c \in cs THEN <<>> ELSE down[c]]
  /\ timer' = [c \in Clients |-> IF c \in cs /\ timer[c] # "off" THEN "old" ELSE timer[c]]
  /\ UNCHANGED <<version, queue, read, idws2uris, have, asked, list, subscribers, buffer>>

\* The connection is lost; both sides drop what belongs to the socket.
Lose(cs) ==
  /\ socket' = [c \in Clients |-> IF c \in cs THEN "closed" ELSE socket[c]]
  /\ up' = [c \in Clients |-> IF c \in cs THEN <<>> ELSE up[c]]
  /\ down' = [c \in Clients |-> IF c \in cs THEN <<>> ELSE down[c]]
  /\ idws2uris' = [c \in Clients |-> IF c \in cs THEN Nothing ELSE idws2uris[c]]
  /\ timer' = [c \in Clients |-> IF c \in cs /\ timer[c] # "off" THEN "old" ELSE timer[c]]
  /\ UNCHANGED <<version, queue, read, have, asked, list, subscribers, buffer>>

Close(c) ==
  /\ socket[c] # "closed" /\ closes < MaxClose
  /\ closes' = closes + 1
  /\ Lose({c})
  /\ UNCHANGED <<uri2counter, restarts>>

\* closedHandler(): a new socket after reconnectDelay.  It is at least five
\* times socketDelay, so a timer that ran when the socket was lost has fired.
Reconnect(c) ==
  /\ socket[c] = "closed" /\ timer[c] # "old"
  /\ socket' = [socket EXCEPT ![c] = "connecting"]
  /\ UNCHANGED <<version, queue, serverVars, have, asked, list, subscribers, buffer,
                 timer, up, down, closes, restarts>>

\* openedHandler() and restore(): the handshake and -* go out at once, the
\* subscriptions through the buffer.
Restored(c) == LET us == {u \in Uris : list[c][u] # None}
               IN  [k \in 1 .. Cardinality(us) |->
                      Add(SetToSeq(us)[k], list[c][SetToSeq(us)[k]])]

\* Mutant: a new socket without the subscriptions of the old one.
OpenNoRestore(c) ==
  /\ socket[c] = "connecting"
  /\ socket' = [socket EXCEPT ![c] = "open"]
  /\ up' = [up EXCEPT ![c] = <<<<Handshake>>>>]
  /\ UNCHANGED <<version, queue, serverVars, have, asked, list, subscribers, buffer,
                 timer, down, closes, restarts>>

Open(c) ==
  /\ socket[c] = "connecting"
  /\ socket' = [socket EXCEPT ![c] = "open"]
  /\ up' = [up EXCEPT ![c] = <<<<Handshake>>, <<DelAll>>>>]
  /\ Buffer(c, Restored(c))
  /\ UNCHANGED <<version, queue, serverVars, have, asked, list, subscribers, down, closes,
                 restarts>>

\* veda-ccus is started again: its position in the queue is on disk, the
\* counters are not.
Restart ==
  /\ restarts < MaxRestart
  /\ restarts' = restarts + 1
  /\ uri2counter' = Nothing
  /\ Lose({c \in Clients : socket[c] # "closed"})
  /\ UNCHANGED closes
-----------------------------------------------------------------------------
Next ==
  \/ \E u \in Uris, by \in {{}} \cup {{c} : c \in Clients} : Change(u, by)
  \/ Consume \/ Restart
  \/ \E c \in Clients : \/ Serve(c) \/ Pong(c) \/ TimerFires(c) \/ Receive(c)
                        \/ Close(c) \/ Reconnect(c) \/ Open(c)
  \/ \E c \in Clients, u \in Uris : Load(c, u) \/ Subscribe(c, u) \/ Unsubscribe(c, u)

Spec == Init /\ [][Next]_vars

\* veda-ccus polls the queue and its clients, the heartbeat comes once in
\* HEARTBEAT_INTERVAL, timers fire, and a closed socket is opened again.
Fairness ==
  /\ WF_vars(Consume)
  /\ \A c \in Clients :
       /\ WF_vars(Serve(c)) /\ WF_vars(Pong(c)) /\ WF_vars(TimerFires(c))
       /\ WF_vars(Receive(c)) /\ WF_vars(Reconnect(c)) /\ WF_vars(Open(c))

FairSpec == Spec /\ Fairness
-----------------------------------------------------------------------------
\* The last reload of the individual failed in reset(), and nothing has
\* loaded it since.
Missed(c, u) == have[c][u] # asked[c][u]

\* What the server believes a client was told, the client has, unless its own
\* reload failed: otherwise it would not be told again.  Messages on the way,
\* lost connections and repeated subscriptions included.
BelievesWhatIsShown ==
  \A c \in Clients, u \in Uris :
    socket[c] = "open" /\ down[c] = <<>> /\ ~Missed(c, u) =>
      idws2uris[c][u] <= have[c][u]

\* As long as veda-ccus is not restarted and no page subscribes while its
\* socket is closed, a browser that is subscribed to an individual comes to
\* show its newest version, lost connections included, or its attempt to load
\* it fails.
StaysFresh ==
  [](restarts = 0 /\ \A c \in Clients : timer[c] # "late") =>
    \A c \in Clients, u \in Uris :
      (list[c][u] # None /\ have[c][u] # version[u]) ~>
        (list[c][u] = None \/ have[c][u] = version[u] \/ Missed(c, u))
=============================================================================
