----------------------------- MODULE NumberScope ----------------------------
(***************************************************************************)
(* What the numeration promises (public/js/common/numerator.js, header):   *)
(* a scope is a set of numbers; to commit a number adds it to the set, to  *)
(* revoke a number removes it, and nothing else in any scope changes.      *)
(* A document whose number changes commits the new one and revokes the old *)
(* one at once.  The promise ends with a crash that leaves half of a       *)
(* transaction in the database (whole = FALSE).                            *)
(***************************************************************************)
EXTENDS Naturals

CONSTANT Scopes

VARIABLES
  committed,  \* the committed numbers of each scope
  whole       \* no transaction was cut in half by a crash

Init ==
  /\ committed = [s \in Scopes |-> {}]
  /\ whole = TRUE

Commit(s, n) == committed' = [committed EXCEPT ![s] = @ \cup {n}]
Revoke(s, n) == committed' = [committed EXCEPT ![s] = @ \ {n}]
Change(s, n, t, m) ==
  committed' = [[committed EXCEPT ![s] = @ \cup {n}] EXCEPT ![t] = @ \ {m}]

Promised ==
  \/ \E s \in Scopes : \E n \in committed'[s] : Commit(s, n)
  \/ \E s \in Scopes : \E n \in committed[s] : Revoke(s, n)
  \/ \E s, t \in Scopes : \E n \in committed'[s], m \in committed[t] :
       Change(s, n, t, m)

Next ==
  \/ Promised /\ UNCHANGED whole
  \/ whole' = FALSE

Spec == Init /\ [][Next]_<<committed, whole>>
=============================================================================
