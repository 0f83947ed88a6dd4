----------------------------- MODULE SwScheduler ----------------------------
(***************************************************************************)
(* The software Puppetmaster: wrapper/src/pmhw_sim.c driven by the client, *)
(* puppet and main threads of runner/src/main.c.                           *)
(*                                                                         *)
(* A step is what one thread does up to and including its next access to   *)
(* something another thread also touches (an SPSC queue, scheduler_running,*)
(* num_completed).  Queues hold what their ring buffers hold, one slot less *)
(* than allocated.  Spinning on a full queue is a disabled action; polling *)
(* an empty one is a loop of two steps, because the shutdown may fall      *)
(* between the test of scheduler_running and the access to the queue.      *)
(***************************************************************************)
EXTENDS Transactions, Sequences

CONSTANTS NumPuppets,               \* main's --puppets
          MAX_ACTIVE_PER_PUPPET,    \* slots of active_txns, sched_qs, done_qs
          MAX_PENDING_PER_CLIENT    \* slots of pending_qs

ASSUME SwAssumption ==
         /\ NumPuppets \in Nat \ {0}
         /\ MAX_ACTIVE_PER_PUPPET \in Nat /\ MAX_ACTIVE_PER_PUPPET >= 2
         /\ MAX_PENDING_PER_CLIENT \in Nat /\ MAX_PENDING_PER_CLIENT >= 2

Puppets == 0..(NumPuppets - 1)
ActiveCapacity  == MAX_ACTIVE_PER_PUPPET - 1
PendingCapacity == MAX_PENDING_PER_CLIENT - 1
NoTxn == 0

VARIABLES
  clientPc,      \* "log", "enq": inside pmhw_schedule; "exited"
  next,          \* the transaction the client thread is at
  pending,       \* pending_qs[0]
  schedPc,       \* "check", "drain", "drainDeq", "pending", "publish", "exited"
  drainAt,       \* scheduler_loop: puppet whose done queue is drained
  current,       \* scheduler_loop: current_puppet_id
  taken,         \* scheduler_loop: txn moved to active, not yet in sched_qs
  active,        \* active_txns[p], private to the scheduler thread
  sched,         \* sched_qs[p]
  done,          \* done_qs[p]
  puppetPc,      \* "check", "deq", "recv", "work", "report", "count", "exited"
  puppetTxn,     \* the transaction puppet p holds, or NoTxn
  completed,     \* puppets[p].num_completed
  running,       \* scheduler_running
  freed,         \* pmhw_shutdown has freed the queues' buffers
  mainPc,        \* "sample", "judge", "sleep", "stop", "joinSched", "join",
                 \* "report", "exited"
  sampleAt,      \* main: next puppet whose num_completed is added
  sum, prev,     \* main: the progress counters
  success,       \* main: graceful path taken
  events         \* events[t]: the kinds pmlog has recorded for t, in order

clientVars == <<clientPc, next>>
schedVars  == <<schedPc, drainAt, current, taken, active>>
puppetVars == <<puppetPc, puppetTxn, completed>>
mainVars   == <<running, freed, mainPc, sampleAt, sum, prev, success>>
vars == <<clientVars, pending, schedVars, sched, done, puppetVars, mainVars,
          events>>

Kinds == {"SUBMIT", "SCHED_READY", "WORK_RECV", "DONE", "CLEANUP"}

\* Faulty variant: the record reuses the slot of the previous one.
pmlog_record_Overwrites(t, kind) == events' = [events EXCEPT ![t] = <<kind>>]

pmlog_record(t, kind) == events' = [events EXCEPT ![t] = Append(@, kind)]

\* Returning from main ends the process and every thread in it.
Alive == mainPc # "exited"

-----------------------------------------------------------------------------
Init ==
  /\ clientPc = IF NumTxns = 0 THEN "exited" ELSE "log"
  /\ next = 1
  /\ pending = <<>>
  /\ schedPc = "check" /\ drainAt = 0 /\ current = 0 /\ taken = NoTxn
  /\ active = [p \in Puppets |-> <<>>]
  /\ sched = [p \in Puppets |-> <<>>]
  /\ done = [p \in Puppets |-> <<>>]
  /\ puppetPc = [p \in Puppets |-> "check"]
  /\ puppetTxn = [p \in Puppets |-> NoTxn]
  /\ completed = [p \in Puppets |-> 0]
  /\ running = TRUE /\ freed = FALSE
  /\ mainPc = "sample" /\ sampleAt = 0 /\ sum = 0 /\ prev = -1
  /\ success = FALSE
  /\ events = [t \in Txns |-> <<>>]

-----------------------------------------------------------------------------
(* The client thread: pmhw_schedule for every transaction, in order.       *)

ClientLog ==
  /\ Alive /\ clientPc = "log"
  /\ pmlog_record(next, "SUBMIT")
  /\ clientPc' = "enq"
  /\ UNCHANGED <<next, pending, schedVars, sched, done, puppetVars, mainVars>>

ClientEnq ==
  /\ Alive /\ clientPc = "enq"
  /\ Len(pending) < PendingCapacity
  /\ pending' = Append(pending, next)
  /\ next' = next + 1
  /\ clientPc' = IF next = NumTxns THEN "exited" ELSE "log"
  /\ UNCHANGED <<schedVars, sched, done, puppetVars, mainVars, events>>

ClientStep == ClientLog \/ ClientEnq

-----------------------------------------------------------------------------
(* The scheduler thread.                                                   *)

SchedCheck ==
  /\ Alive /\ schedPc = "check"
  /\ schedPc' = IF running THEN "drain" ELSE "exited"
  /\ drainAt' = 0
  /\ UNCHANGED <<current, taken, active, clientVars, pending, sched, done,
                 puppetVars, mainVars, events>>

\* Faulty variant: the loop over the puppets stops one short.
DrainNext_OffByOne ==
  /\ schedPc' = IF drainAt = NumPuppets - 2 THEN "pending" ELSE "drain"
  /\ drainAt' = IF drainAt = NumPuppets - 2 THEN 0 ELSE drainAt + 1

DrainNext ==
  /\ schedPc' = IF drainAt = NumPuppets - 1 THEN "pending" ELSE "drain"
  /\ drainAt' = IF drainAt = NumPuppets - 1 THEN 0 ELSE drainAt + 1

\* No active transactions, or the done queue is found empty.
SchedDrainSkip ==
  /\ Alive
  /\ \/ schedPc = "drain"    /\ active[drainAt] = <<>>
     \/ schedPc = "drainDeq" /\ done[drainAt] = <<>>
  /\ DrainNext
  /\ UNCHANGED <<current, taken, active, clientVars, pending, sched, done,
                 puppetVars, mainVars, events>>

SchedDrainEnter ==
  /\ Alive /\ schedPc = "drain"
  /\ active[drainAt] # <<>>
  /\ schedPc' = "drainDeq"
  /\ UNCHANGED <<drainAt, current, taken, active, clientVars, pending, sched,
                 done, puppetVars, mainVars, events>>

\* The transaction at the head of active is removed whatever id was reported:
\* that the two agree is an assertion of the code (AssertionsHold).
SchedDrainDeq ==
  /\ Alive /\ schedPc = "drainDeq"
  /\ done[drainAt] # <<>>
  /\ done' = [done EXCEPT ![drainAt] = Tail(@)]
  /\ active' = [active EXCEPT ![drainAt] = Tail(@)]
  /\ pmlog_record(Head(done[drainAt]), "CLEANUP")
  /\ UNCHANGED <<schedPc, drainAt, current, taken, clientVars, pending, sched,
                 puppetVars, mainVars>>

\* Faulty variant: full only once the ring has overflowed.
Full_OffByOne(p) == Len(active[p]) > ActiveCapacity

Full(p) == Len(active[p]) >= ActiveCapacity

RangeOf(s) == {s[i] : i \in 1..Len(s)}

\* Faulty variants: only the puppet to be given t is looked at; the scan starts
\* after the oldest active transaction.
conflicts_with_active_OwnPuppet(t) ==
  \E u \in RangeOf(active[current]) : check_txn_conflict(t, u)
conflicts_with_active_SkipsHead(t) ==
  \E p \in Puppets : \E i \in 2..Len(active[p]) :
    check_txn_conflict(t, active[p][i])

conflicts_with_active(t) ==
  \E p \in Puppets : \E u \in RangeOf(active[p]) : check_txn_conflict(t, u)

\* Nothing can be scheduled: no room, nothing pending, or the oldest pending
\* transaction conflicts.
SchedGiveUp ==
  /\ Alive /\ schedPc = "pending"
  /\ \/ Full(current)
     \/ pending = <<>>
     \/ pending # <<>> /\ conflicts_with_active(Head(pending))
  /\ schedPc' = "check"
  /\ UNCHANGED <<drainAt, current, taken, active, clientVars, pending, sched,
                 done, puppetVars, mainVars, events>>

\* Faulty variant: no conflict check.
SchedTake_Unchecked ==
  /\ Alive /\ schedPc = "pending"
  /\ ~ Full(current) /\ pending # <<>>
  /\ taken' = Head(pending) /\ pending' = Tail(pending)
  /\ active' = [active EXCEPT ![current] = Append(@, Head(pending))]
  /\ pmlog_record(Head(pending), "SCHED_READY")
  /\ schedPc' = "publish"
  /\ UNCHANGED <<drainAt, current, clientVars, sched, done, puppetVars,
                 mainVars>>

SchedTake ==
  /\ Alive /\ schedPc = "pending"
  /\ ~ Full(current)
  /\ pending # <<>>
  /\ ~ conflicts_with_active(Head(pending))
  /\ taken' = Head(pending)
  /\ pending' = Tail(pending)
  /\ active' = [active EXCEPT ![current] = Append(@, Head(pending))]
  /\ pmlog_record(Head(pending), "SCHED_READY")
  /\ schedPc' = "publish"
  /\ UNCHANGED <<drainAt, current, clientVars, sched, done, puppetVars,
                 mainVars>>

\* Faulty variant: no wrap-around.
NextPuppet_NoWrap(p) == p + 1

NextPuppet(p) == (p + 1) % NumPuppets

\* Faulty variant: moves on to the next puppet before publishing.
SchedPublish_AdvanceFirst ==
  /\ Alive /\ schedPc = "publish"
  /\ sched' = [sched EXCEPT ![NextPuppet(current)] = Append(@, taken)]
  /\ taken' = NoTxn
  /\ current' = NextPuppet(current)
  /\ schedPc' = "pending"
  /\ UNCHANGED <<drainAt, active, clientVars, pending, done, puppetVars,
                 mainVars, events>>

SchedPublish ==
  /\ Alive /\ schedPc = "publish"
  /\ sched' = [sched EXCEPT ![current] = Append(@, taken)]
  /\ taken' = NoTxn
  /\ current' = NextPuppet(current)
  /\ schedPc' = "pending"
  /\ UNCHANGED <<drainAt, active, clientVars, pending, done, puppetVars,
                 mainVars, events>>

SchedStep ==
  \/ SchedCheck \/ SchedDrainSkip \/ SchedDrainEnter \/ SchedDrainDeq
  \/ SchedGiveUp \/ SchedTake \/ SchedPublish

-----------------------------------------------------------------------------
(* The puppet threads.                                                     *)

\* pmhw_poll_scheduled: the test of scheduler_running.
PuppetCheck(p) ==
  /\ Alive /\ puppetPc[p] = "check"
  /\ puppetPc' = [puppetPc EXCEPT ![p] = IF running THEN "deq" ELSE "exited"]
  /\ UNCHANGED <<puppetTxn, completed, clientVars, pending, schedVars, sched,
                 done, mainVars, events>>

\* pmhw_poll_scheduled: the access to sched_qs[p] that follows it.
PuppetPollEmpty(p) ==
  /\ Alive /\ puppetPc[p] = "deq"
  /\ sched[p] = <<>>
  /\ puppetPc' = [puppetPc EXCEPT ![p] = "check"]
  /\ UNCHANGED <<puppetTxn, completed, clientVars, pending, schedVars, sched,
                 done, mainVars, events>>

PuppetPoll(p) ==
  /\ Alive /\ puppetPc[p] = "deq"
  /\ sched[p] # <<>>
  /\ puppetTxn' = [puppetTxn EXCEPT ![p] = Head(sched[p])]
  /\ sched' = [sched EXCEPT ![p] = Tail(@)]
  /\ puppetPc' = [puppetPc EXCEPT ![p] = "recv"]
  /\ UNCHANGED <<completed, clientVars, pending, schedVars, done, mainVars,
                 events>>

PuppetRecv(p) ==
  /\ Alive /\ puppetPc[p] = "recv"
  /\ pmlog_record(puppetTxn[p], "WORK_RECV")
  /\ puppetPc' = [puppetPc EXCEPT ![p] = "work"]
  /\ UNCHANGED <<puppetTxn, completed, clientVars, pending, schedVars, sched,
                 done, mainVars>>

\* The simulated work ends and pmhw_report_done records it.
PuppetWorked(p) ==
  /\ Alive /\ puppetPc[p] = "work"
  /\ pmlog_record(puppetTxn[p], "DONE")
  /\ puppetPc' = [puppetPc EXCEPT ![p] = "report"]
  /\ UNCHANGED <<puppetTxn, completed, clientVars, pending, schedVars, sched,
                 done, mainVars>>

PuppetReport(p) ==
  /\ Alive /\ puppetPc[p] = "report"
  /\ Len(done[p]) < ActiveCapacity
  /\ done' = [done EXCEPT ![p] = Append(@, puppetTxn[p])]
  /\ puppetTxn' = [puppetTxn EXCEPT ![p] = NoTxn]
  /\ puppetPc' = [puppetPc EXCEPT ![p] = "count"]
  /\ UNCHANGED <<completed, clientVars, pending, schedVars, sched, mainVars,
                 events>>

PuppetCount(p) ==
  /\ Alive /\ puppetPc[p] = "count"
  /\ completed' = [completed EXCEPT ![p] = @ + 1]
  /\ puppetPc' = [puppetPc EXCEPT ![p] = "check"]
  /\ UNCHANGED <<puppetTxn, clientVars, pending, schedVars, sched, done,
                 mainVars, events>>

PuppetStep(p) ==
  \/ PuppetCheck(p) \/ PuppetPollEmpty(p) \/ PuppetPoll(p) \/ PuppetRecv(p)
  \/ PuppetWorked(p) \/ PuppetReport(p) \/ PuppetCount(p)

-----------------------------------------------------------------------------
(* The main thread: the once-a-second progress loop, then the shutdown.    *)

\* Adds up num_completed one puppet at a time while the puppets run.
MainSample ==
  /\ mainPc = "sample"
  /\ sum' = sum + completed[sampleAt]
  /\ sampleAt' = IF sampleAt = NumPuppets - 1 THEN 0 ELSE sampleAt + 1
  /\ mainPc' = IF sampleAt = NumPuppets - 1 THEN "judge" ELSE "sample"
  /\ UNCHANGED <<prev, running, freed, success, clientVars, pending, schedVars,
                 sched, done, puppetVars, events>>

\* Same sum as a second ago: "Terminated due to no progress".
MainNoProgress ==
  /\ mainPc = "judge"
  /\ sum = prev
  /\ mainPc' = "report"
  /\ UNCHANGED <<sampleAt, sum, prev, running, freed, success, clientVars,
                 pending, schedVars, sched, done, puppetVars, events>>

MainJudge ==
  /\ mainPc = "judge"
  /\ sum # prev
  /\ prev' = sum
  /\ success' = (sum = NumTxns)
  /\ mainPc' = IF sum = NumTxns THEN "stop" ELSE "sleep"
  /\ UNCHANGED <<sampleAt, sum, running, freed, clientVars, pending, schedVars,
                 sched, done, puppetVars, events>>

\* Faulty variant: the sum is not reset.
MainWake_KeepsSum ==
  /\ mainPc = "sleep"
  /\ mainPc' \in {"sample", "report"}
  /\ UNCHANGED <<sampleAt, sum, prev, running, freed, success, clientVars,
                 pending, schedVars, sched, done, puppetVars, events>>

\* After sleep(1): another round, or test_timeout_sec is over.
MainWake ==
  /\ mainPc = "sleep"
  /\ mainPc' \in {"sample", "report"}
  /\ sum' = 0
  /\ UNCHANGED <<sampleAt, prev, running, freed, success, clientVars, pending,
                 schedVars, sched, done, puppetVars, events>>

\* Faulty variant: scheduler_running is not cleared.
MainStop_LeavesRunning ==
  /\ mainPc = "stop"
  /\ mainPc' = "joinSched"
  /\ UNCHANGED <<sampleAt, sum, prev, running, freed, success, clientVars,
                 pending, schedVars, sched, done, puppetVars, events>>

\* pmhw_shutdown: scheduler_running is cleared ...
MainStop ==
  /\ mainPc = "stop"
  /\ running' = FALSE
  /\ mainPc' = "joinSched"
  /\ UNCHANGED <<sampleAt, sum, prev, freed, success, clientVars, pending,
                 schedVars, sched, done, puppetVars, events>>

\* Faulty variant: the scheduler is not joined first.
MainFree_NoJoin ==
  /\ mainPc = "joinSched"
  /\ freed' = TRUE
  /\ active' = [p \in Puppets |-> <<>>]
  /\ mainPc' = "join"
  /\ UNCHANGED <<schedPc, drainAt, current, taken, sampleAt, sum, prev,
                 running, success, clientVars, pending, sched, done,
                 puppetVars, events>>

\* ... the scheduler is joined and every queue is freed.  stq_txn_free resets
\* head and tail; spsc_*_free leaves them as they are.
MainFree ==
  /\ mainPc = "joinSched"
  /\ schedPc = "exited"
  /\ freed' = TRUE
  /\ active' = [p \in Puppets |-> <<>>]
  /\ mainPc' = "join"
  /\ UNCHANGED <<schedPc, drainAt, current, taken, sampleAt, sum, prev,
                 running, success, clientVars, pending, sched, done,
                 puppetVars, events>>

MainJoin ==
  /\ mainPc = "join"
  /\ clientPc = "exited"
  /\ \A p \in Puppets : puppetPc[p] = "exited"
  /\ mainPc' = "report"
  /\ UNCHANGED <<sampleAt, sum, prev, running, freed, success, clientVars,
                 pending, schedVars, sched, done, puppetVars, events>>

\* Writes the log, frees the workload and the log, and returns.
MainExit ==
  /\ mainPc = "report"
  /\ mainPc' = "exited"
  /\ UNCHANGED <<sampleAt, sum, prev, running, freed, success, clientVars,
                 pending, schedVars, sched, done, puppetVars, events>>

MainLoop     == MainSample \/ MainNoProgress \/ MainJudge \/ MainWake
MainShutdown == MainStop \/ MainFree \/ MainJoin \/ MainExit

Terminated == mainPc = "exited" /\ UNCHANGED vars

-----------------------------------------------------------------------------
Next ==
  \/ ClientStep
  \/ SchedStep
  \/ \E p \in Puppets : PuppetStep(p)
  \/ MainLoop
  \/ MainShutdown
  \/ Terminated

Spec == Init /\ [][Next]_vars

(***************************************************************************)
(* Every thread has a core of its own (pin_thread_to_core) and never       *)
(* blocks except on a join, so each keeps taking steps.  Nothing is        *)
(* assumed of the progress loop of main, which sleeps between rounds.      *)
(***************************************************************************)
Fairness ==
  /\ WF_vars(ClientStep)
  /\ WF_vars(SchedStep)
  /\ \A p \in Puppets : WF_vars(PuppetStep(p))
  /\ WF_vars(MainShutdown)

FairSpec == Spec /\ Fairness
=============================================================================
