---------------------------- MODULE RealExecutor ----------------------------
(***************************************************************************)
(* mkRealExecutor of new-pmhw/src/Executor.bsv: the id of a scheduled      *)
(* transaction goes to the host, whose Workers work on it and report it    *)
(* with reportWorkDone (Connectal.bsv).  Of the Puppetmaster there are the *)
(* lists of active transactions, their number and the queues of both       *)
(* messages.  The host is external: pmhw.cpp refuses the messages so far.  *)
(***************************************************************************)
EXTENDS Integers, Sequences, FiniteSets

CONSTANTS NumTxns, NumPuppets, ActivePerPuppet,
          Workers        \* transactions the host works on at a time

VARIABLES
  active,               \* puppetTxns, as ids
  numTxnScheduled,
  next,                 \* the next transaction to be scheduled
  schedQ, workDoneQ,    \* messages from and to the Puppetmaster
  reqFF, doneFF,        \* bypass FIFOs of ids, to the host and from it
  atHost                \* what the host works on

vars == <<active, numTxnScheduled, next, schedQ, workDoneQ, reqFF, doneFF, atHost>>

Puppets == 0..(NumPuppets - 1)

Init ==
  /\ active = [p \in Puppets |-> <<>>] /\ numTxnScheduled = 0 /\ next = 1
  /\ schedQ = <<>> /\ workDoneQ = <<>>
  /\ reqFF = <<>> /\ doneFF = <<>> /\ atHost = {}

-----------------------------------------------------------------------------
\* The Puppetmaster schedules on any puppet that is not full.
Schedule(p) ==
  /\ next <= NumTxns /\ Len(active[p]) < ActivePerPuppet
  /\ active' = [active EXCEPT ![p] = Append(@, next)]
  /\ numTxnScheduled' = numTxnScheduled + 1
  /\ schedQ' = Append(schedQ, [txnId |-> next, puppetId |-> p])
  /\ next' = next + 1
  /\ UNCHANGED <<workDoneQ, reqFF, doneFF, atHost>>

\* Faulty variant: the FIFO is not guarded, and its place is overwritten.
request_put_Unguarded ==
  /\ schedQ # <<>> /\ schedQ' = Tail(schedQ)
  /\ reqFF' = <<Head(schedQ).txnId>>
  /\ UNCHANGED <<active, numTxnScheduled, next, workDoneQ, doneFF, atHost>>

\* executor.request.put, connected to pm.scheduled
request_put ==
  /\ schedQ # <<>> /\ schedQ' = Tail(schedQ)
  /\ reqFF = <<>> /\ reqFF' = <<Head(schedQ).txnId>>
  /\ UNCHANGED <<active, numTxnScheduled, next, workDoneQ, doneFF, atHost>>

\* toHost, connected to transactionScheduled
transactionScheduled ==
  /\ reqFF # <<>> /\ reqFF' = <<>>
  /\ Cardinality(atHost) < Workers
  /\ atHost' = atHost \cup {Head(reqFF)}
  /\ UNCHANGED <<active, numTxnScheduled, next, schedQ, workDoneQ, doneFF>>

\* fromHost.put
reportWorkDone(t) ==
  /\ t \in atHost /\ atHost' = atHost \ {t}
  /\ doneFF = <<>> /\ doneFF' = <<t>>
  /\ UNCHANGED <<active, numTxnScheduled, next, schedQ, workDoneQ, reqFF>>

\* executor.response.get, connected to pm.workDone.  "TODO: fix"
response_get ==
  /\ doneFF # <<>> /\ doneFF' = <<>>
  /\ workDoneQ' = Append(workDoneQ, [txnId |-> Head(doneFF), puppetId |-> 0])
  /\ UNCHANGED <<active, numTxnScheduled, next, schedQ, reqFF, atHost>>

\* The oldest transaction of the puppet is removed, whatever id was reported.
clearWorkDone ==
  /\ workDoneQ # <<>>
  /\ LET p == Head(workDoneQ).puppetId
     IN  active[p] # <<>> /\ active' = [active EXCEPT ![p] = Tail(@)]
  /\ numTxnScheduled' = numTxnScheduled - 1
  /\ workDoneQ' = Tail(workDoneQ)
  /\ UNCHANGED <<next, schedQ, reqFF, doneFF, atHost>>

Next ==
  \/ request_put \/ transactionScheduled \/ response_get \/ clearWorkDone
  \/ \E p \in Puppets : Schedule(p)
  \/ \E t \in atHost : reportWorkDone(t)

Spec == Init /\ [][Next]_vars

-----------------------------------------------------------------------------
\* The ids between the schedule and the removal, and the places they take.
OnTheWay ==
  {schedQ[k].txnId : k \in DOMAIN schedQ} \cup {reqFF[k] : k \in DOMAIN reqFF}
    \cup atHost \cup {doneFF[k] : k \in DOMAIN doneFF}
    \cup {workDoneQ[k].txnId : k \in DOMAIN workDoneQ}

PlacesTaken == Len(schedQ) + Len(reqFF) + Cardinality(atHost)
                 + Len(doneFF) + Len(workDoneQ)

(***************************************************************************)
(* Through four FIFOs and the host, which answers in any order, none of    *)
(* the ids is lost or doubled (Executor.bsv:48-66): as many are on the way *)
(* as the Puppetmaster believes to be active, and each in one place.  The  *)
(* puppet and the order that the Puppetmaster expects (Puppetmaster.bsv:   *)
(* 254) are not claimed: every report names puppet 0, which the source     *)
(* marks as a TODO (Executor.bsv:68).                                      *)
(***************************************************************************)
EachReportedOnce ==
  /\ numTxnScheduled = PlacesTaken
  /\ Cardinality(OnTheWay) = PlacesTaken
=============================================================================
