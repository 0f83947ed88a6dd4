---------------------------- MODULE SwProperties ----------------------------
(***************************************************************************)
(* What the software Puppetmaster must satisfy: invariants, liveness, and  *)
(* the refinement of TxnScheduling.                                        *)
(***************************************************************************)
EXTENDS SwScheduler

Holding(p) == puppetPc[p] \in {"recv", "work", "report"}

TypeOK ==
  /\ clientPc \in {"log", "enq", "exited"}
  /\ next \in 1..(NumTxns + 1)
  /\ clientPc # "exited" => next \in Txns
  /\ pending \in Seq(Txns)
  /\ schedPc \in {"check", "drain", "drainDeq", "pending", "publish", "exited"}
  /\ drainAt \in Puppets /\ current \in Puppets
  /\ taken \in Txns \cup {NoTxn}
  /\ schedPc = "publish" <=> taken # NoTxn
  /\ active \in [Puppets -> Seq(Txns)]
  /\ sched \in [Puppets -> Seq(Txns)]
  /\ done \in [Puppets -> Seq(Txns)]
  /\ puppetPc \in [Puppets -> {"check", "deq", "recv", "work", "report",
                               "count", "exited"}]
  /\ puppetTxn \in [Puppets -> Txns \cup {NoTxn}]
  /\ \A p \in Puppets : Holding(p) <=> puppetTxn[p] # NoTxn
  /\ completed \in [Puppets -> Nat]
  /\ running \in BOOLEAN /\ freed \in BOOLEAN /\ success \in BOOLEAN
  /\ mainPc \in {"sample", "judge", "sleep", "stop", "joinSched", "join",
                 "report", "exited"}
  /\ sampleAt \in Puppets
  /\ sum \in Nat /\ prev \in Nat \cup {-1}
  /\ events \in [Txns -> Seq(Kinds)]

-----------------------------------------------------------------------------
OptSeq(t) == IF t = NoTxn THEN <<>> ELSE <<t>>

\* The transaction the scheduler has moved to active[p] but not yet to
\* sched_qs[p].
Unpublished(p) == OptSeq(IF p = current THEN taken ELSE NoTxn)

(***************************************************************************)
(* The scheduler's private list of a puppet's active transactions is, at   *)
(* every moment and whatever the four threads have interleaved, what       *)
(* travels through the puppet: reported, executing, scheduled, taken, in   *)
(* that order.  ("we expect the worker to return transaction in FIFO       *)
(* order", pmhw_sim.c:71.)                                                 *)
(***************************************************************************)
QueueAgreement ==
  ~ freed => \A p \in Puppets :
    active[p] = done[p] \o OptSeq(puppetTxn[p]) \o sched[p] \o Unpublished(p)

(***************************************************************************)
(* No ASSERT of scheduler_loop fails: a reported transaction is the oldest *)
(* active one of its puppet (74-75), there is room in active (100) and in  *)
(* sched_qs (106); and pmhw_report_done never has to spin (183).           *)
(***************************************************************************)
AssertionsHold ==
  /\ schedPc = "drainDeq" /\ done[drainAt] # <<>> =>
       active[drainAt] # <<>> /\ Head(active[drainAt]) = Head(done[drainAt])
  /\ schedPc = "publish" => Len(active[current]) <= ActiveCapacity
  /\ schedPc = "publish" => Len(sched[current]) < ActiveCapacity
  /\ \A p \in Puppets : puppetPc[p] = "report" => Len(done[p]) < ActiveCapacity

-----------------------------------------------------------------------------
\* Between the scheduler's decision and the puppet's report.
InFlight ==
  ({taken} \cup (UNION {RangeOf(sched[p]) : p \in Puppets})
           \cup {puppetTxn[p] : p \in Puppets}) \ {NoTxn}

(***************************************************************************)
(* Mutual exclusion: no two conflicting transactions are out with the      *)
(* puppets at the same time, on any two puppets or in one puppet's queue.  *)
(***************************************************************************)
NoConflictInFlight ==
  \A t, u \in InFlight : t # u => ~ check_txn_conflict(t, u)

Logged(t, kind) == kind \in RangeOf(events[t])

(***************************************************************************)
(* Conflicting transactions run in submission order: a puppet does not     *)
(* receive one before every earlier conflicting one has been reported and  *)
(* removed, although they are scheduled to different puppets and reported  *)
(* through different queues.                                               *)
(***************************************************************************)
ConflictOrder ==
  \A t, u \in Txns :
    t < u /\ check_txn_conflict(t, u) /\ Logged(u, "SCHED_READY")
      => Logged(t, "CLEANUP")

(***************************************************************************)
(* The events of a transaction are recorded in the order of its life, by   *)
(* four different threads, and none twice (analyze.c:182 rejects a log     *)
(* where they are not).                                                    *)
(***************************************************************************)
LogOrder ==
  LET life == <<"SUBMIT", "SCHED_READY", "WORK_RECV", "DONE", "CLEANUP">>
  IN \A t \in Txns : events[t] = SubSeq(life, 1, Len(events[t]))

(***************************************************************************)
(* A buffer that pmhw_shutdown has freed is never read or written, although*)
(* a puppet that has seen scheduler_running set may still be on its way    *)
(* to its queue.  The queues' head and tail stay valid, so an access to an *)
(* empty queue touches no buffer.                                          *)
(***************************************************************************)
FreedQueuesUntouched ==
  freed => /\ schedPc = "exited"
           /\ clientPc # "enq"
           /\ \A p \in Puppets : /\ puppetPc[p] = "deq" => sched[p] = <<>>
                                 /\ puppetPc[p] # "report"

(***************************************************************************)
(* main takes the graceful path only when every transaction has been       *)
(* executed and reported, although it adds up the puppets' counters while  *)
(* they change.                                                            *)
(***************************************************************************)
SuccessIsComplete ==
  success => /\ clientPc = "exited" /\ InFlight = {}
             /\ \A t \in Txns : Logged(t, "DONE")

-----------------------------------------------------------------------------
GaveUp == mainPc \in {"report", "exited"} /\ ~ success

(***************************************************************************)
(* Every transaction of the workload is eventually executed, unless main   *)
(* gives up first: no ordering of conflicts, full queues and busy puppets  *)
(* leaves the scheduler waiting for ever.                                  *)
(***************************************************************************)
EveryTxnFinishes == \A t \in Txns : <>(Logged(t, "DONE") \/ GaveUp)

(***************************************************************************)
(* pmhw_shutdown and the joins return: no thread misses the shutdown.      *)
(***************************************************************************)
ShutdownTerminates == mainPc = "stop" ~> mainPc = "exited"

(***************************************************************************)
(* The threads and queues implement TxnScheduling: a transaction runs from *)
(* the scheduler's decision to the end of the puppet's work.               *)
(***************************************************************************)
absWaiting  == RangeOf(pending)
absRunning  == {t \in InFlight : \A p \in Puppets : puppetPc[p] = "report"
                                                      => puppetTxn[p] # t}
absFinished == (1..(next - 1)) \ (absWaiting \cup absRunning)

Abs == INSTANCE TxnScheduling WITH waiting <- absWaiting,
                                   running <- absRunning,
                                   finished <- absFinished

ImplementsScheduling == Abs!AbstractSpec

-----------------------------------------------------------------------------
(***************************************************************************)
(* "Wait until we're sure everything is done" (main.c:268): when main      *)
(* writes the log after a graceful shutdown, the log is complete - what    *)
(* analyze.c:170 calls a completeness violation otherwise.  The code does  *)
(* not guarantee it: see the README.                                       *)
(***************************************************************************)
LogComplete ==
  mainPc = "report" /\ success =>
    \A t \in Txns : \A kind \in Kinds : Logged(t, kind)
=============================================================================
