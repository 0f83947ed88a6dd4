---------------------------- MODULE TxnScheduling ---------------------------
(***************************************************************************)
(* What Puppetmaster promises its users, with nothing about queues,        *)
(* threads or hardware: a submitted transaction waits, runs on a puppet    *)
(* and finishes; it starts only when no running transaction conflicts with *)
(* it, and, on the software path, only after every transaction submitted   *)
(* before it has started.                                                  *)
(***************************************************************************)
EXTENDS Transactions

VARIABLES waiting,    \* submitted, not yet handed to a puppet
          running,    \* handed to a puppet, not yet reported done
          finished    \* reported done

avars == <<waiting, running, finished>>

AInit == waiting = {} /\ running = {} /\ finished = {}

\* The client submits its transactions in workload order.
Submit(t) ==
  /\ waiting \cup running \cup finished = 1..(t - 1)
  /\ waiting' = waiting \cup {t}
  /\ UNCHANGED <<running, finished>>

\* The scheduler hands t to a puppet.
Start(t) ==
  /\ t \in waiting
  /\ \A u \in waiting : t <= u
  /\ \A u \in running : ~ check_txn_conflict(t, u)
  /\ waiting' = waiting \ {t}
  /\ running' = running \cup {t}
  /\ UNCHANGED finished

\* A puppet reports t done.
Finish(t) ==
  /\ t \in running
  /\ running'  = running \ {t}
  /\ finished' = finished \cup {t}
  /\ UNCHANGED waiting

ANext == \E t \in Txns : Submit(t) \/ Start(t) \/ Finish(t)

AbstractSpec == AInit /\ [][ANext]_avars
=============================================================================
