------------------------------- MODULE MCCcus -------------------------------
(* The message loop of veda-ccus: its result, as Ccus states it for a whole *)
(* message, compared with its turns one by one, for two individuals.       *)
EXTENDS Ccus

M == INSTANCE Ccus WITH Uris <- {"v", "w"}, Known <- {}

Items    == {DelAll} \cup {Add(u, n) : u \in {"v", "w"}, n \in 1 .. 2}
              \cup {Del(u) : u \in {"v", "w"}}
Messages == {<<Handshake>>} \cup UNION {[1 .. n -> Items] : n \in 0 .. 3}
States   == [subs: [{"v", "w"} -> {None, 0}], cnt: [{"v", "w"} -> {None, 0}]]

ASSUME LoopIsServed ==
  \A s \in States, ms \in Messages :
    FoldLeft(M!SubscribeItem, s, ms) =
      [subs |-> [u \in {"v", "w"} |-> Subscribed(s, ms, u)],
       cnt  |-> [u \in {"v", "w"} |-> Followed(s, ms, u)]]
=============================================================================
