------------------------------ MODULE StoreLog ------------------------------
(***************************************************************************)
(* What the storage promises to the readers of its queue                   *)
(* (source/veda/mstorage/storage_manager.d): a change of an individual and *)
(* its record in the queue are one step, made on the newest version of the *)
(* individual.  The newest record is held back for a moment, in which a    *)
(* crash may lose it, or a queue that cannot be trusted (sure = FALSE); no *)
(* earlier one can be lost, and none is ever changed or moved.             *)
(***************************************************************************)
EXTENDS Naturals, Sequences

CONSTANT Uris

VARIABLES
  version,  \* the number of the stored version of each individual
  log,      \* the records of the queue, the one held back included
  held,     \* whether the newest record is still held back
  part,     \* number of the part of the queue in use
  sure      \* whether the queue takes every record

Init ==
  /\ version = [u \in Uris |-> 0]
  /\ log = <<>>
  /\ held = FALSE
  /\ part = 0
  /\ sure \in BOOLEAN

\* A change for all subsystems is stored; one for others is only queued.
Write ==
  /\ ~held
  /\ held' = TRUE
  /\ UNCHANGED part
  /\ LET r == log'[Len(log')] IN
       /\ r.uri \in Uris /\ r.prev = version[r.uri] /\ r.part = part
       /\ version' = IF r.stored THEN [version EXCEPT ![r.uri] = r.new]
                                 ELSE version
       /\ log' = Append(log, r)

Settle == held /\ held' = FALSE /\ UNCHANGED <<version, log, part>>

Settled == IF held THEN SubSeq(log, 1, Len(log) - 1) ELSE log

Lose ==
  /\ ~sure /\ held
  /\ held' = FALSE
  /\ log' = Settled
  /\ UNCHANGED <<version, part>>

Restart ==
  /\ part' = part + 1
  /\ held' = FALSE
  /\ log' = Settled
  /\ UNCHANGED version

Next ==
  /\ Write \/ Settle \/ Lose \/ Restart
  /\ UNCHANGED sure

Spec == Init /\ [][Next]_<<version, log, held, part, sure>>
=============================================================================
