------------------------------ MODULE EventLog ------------------------------
(***************************************************************************)
(* wrapper/src/pmlog.c, with the threads that record events and the end of *)
(* main in runner/src/main.c, which writes the log and frees it.           *)
(*                                                                         *)
(* A transaction is recorded at five stages, the next one only after the   *)
(* record before it has returned (it is handed on through a queue later).  *)
(* Conflicts and full queues would only delay a stage and are left out.    *)
(* Two steps of pmlog_record: claiming a slot, and filling it.             *)
(***************************************************************************)
EXTENDS Sorting

CONSTANTS NumTxns, NumPuppets,
          Periods,       \* bound: the sample periods
          Impatient      \* bound: those with which main may give up

ASSUME EventLogAssumption ==
         /\ NumTxns \in Nat \ {0} /\ NumPuppets \in Nat \ {0}
         /\ Periods \subseteq Nat /\ Impatient \subseteq Periods

Txns    == 0..(NumTxns - 1)
Puppets == 0..(NumPuppets - 1)
Client  == -1
Scheduler == -2
Threads == {Client, Scheduler} \cup Puppets

max_num_events == NumTxns * 6

Slots == 0..(max_num_events - 1)
\* What malloc leaves in a slot, here all zero.
Hole    == [tsc |-> 0, txn |-> -1, kind |-> 0, aux_data |-> 0]
Nothing == [slot |-> -1, txn |-> -1]

VARIABLES
  sample_period,
  stage,       \* stage[t]: how many stages t has passed
  writing,     \* writing[th]: the slot thread th has claimed, and for what
  num_events, buf, now,
  mainAt,      \* "wait", "join", "sort", "count", "body", "dump", "free",
               \* "cleanup", "return", "exited"
  stopped,     \* the scheduler thread has returned
  success,
  header, body, text,    \* the log file, and the dump
  freed        \* "workload", "log"

threadVars == <<sample_period, stage, writing, num_events, buf, now>>
fileVars   == <<header, body, text>>
vars == <<threadVars, mainAt, stopped, success, fileVars, freed>>

Init ==
  /\ sample_period \in Periods
  /\ stage = [t \in Txns |-> 0]
  /\ writing = [th \in Threads |-> Nothing]
  /\ num_events = 0 /\ now = 1
  /\ buf = [i \in Slots |-> Hole]
  /\ mainAt = "wait" /\ stopped = FALSE /\ success = FALSE
  /\ header = -1 /\ body = <<>> /\ text = <<>> /\ freed = {}

Alive == mainAt # "exited"

-----------------------------------------------------------------------------
\* The scheduler goes round the puppets.
puppet(t) == t % NumPuppets

\* Who records t's next stage, and whether it is t's turn: the queues between
\* the threads are first-in first-out.
Recorder(t) ==
  CASE stage[t] = 0 -> Client
    [] stage[t] \in {1, 4} -> Scheduler
    [] stage[t] \in {2, 3} -> puppet(t)

MayRecord(th, t) ==
  /\ stage[t] < 5 /\ Recorder(t) = th /\ writing[th] = Nothing
  /\ \A u \in 0..(t - 1) : stage[u] = stage[t] =>
       stage[t] \notin {0, 1} /\ puppet(u) # puppet(t)
  /\ th \in Puppets /\ stage[t] = 2 =>
       \A u \in Txns \ {t} : puppet(u) = th => stage[u] # 3
  /\ th = Scheduler => ~ stopped
  /\ th = Client => "workload" \notin freed

\* The transactions whose events are kept, while there is a log.
Sampled == {t \in Txns : sample_period > 0 /\ t % sample_period = 0}

Unsampled(t) == t \notin Sampled \/ "log" \in freed

RecordSkips(th, t) ==
  /\ Alive /\ MayRecord(th, t) /\ Unsampled(t)
  /\ stage' = [stage EXCEPT ![t] = @ + 1]
  /\ UNCHANGED <<sample_period, writing, num_events, buf, now, mainAt, stopped,
                 success, fileVars, freed>>

\* Faulty variant: the slot is the number of records that are written.
RecordClaims_Written(th, t) ==
  /\ Alive /\ MayRecord(th, t) /\ ~ Unsampled(t)
  /\ writing' = [writing EXCEPT ![th] =
                  [slot |-> Cardinality({i \in Slots : buf[i] # Hole}),
                   txn |-> t]]
  /\ num_events' = num_events + 1
  /\ UNCHANGED <<sample_period, stage, buf, now, mainAt, stopped, success,
                 fileVars, freed>>

RecordClaims(th, t) ==
  /\ Alive /\ MayRecord(th, t) /\ ~ Unsampled(t)
  /\ writing' = [writing EXCEPT ![th] = [slot |-> num_events, txn |-> t]]
  /\ num_events' = num_events + 1
  /\ UNCHANGED <<sample_period, stage, buf, now, mainAt, stopped, success,
                 fileVars, freed>>

\* Once the buffer is freed, this writes into memory that is not the log's.
RecordFills(th) ==
  /\ Alive /\ writing[th] # Nothing
  /\ LET slot == writing[th].slot
         t    == writing[th].txn
     IN  /\ buf' = IF "log" \in freed THEN buf ELSE
                   [buf EXCEPT ![slot] =
                      [tsc |-> now, txn |-> t, kind |-> stage[t],
                       aux_data |-> IF stage[t] \in 1..3
                                    THEN puppet(t) ELSE -1]]
         /\ stage' = [stage EXCEPT ![t] = @ + 1]
  /\ writing' = [writing EXCEPT ![th] = Nothing]
  /\ now' = now + 1
  /\ UNCHANGED <<sample_period, num_events, mainAt, stopped, success, fileVars,
                 freed>>

-----------------------------------------------------------------------------
(* The end of main.                                                        *)

Busy == {th \in Threads : writing[th] # Nothing}

\* Faulty variant: completion is counted before it is recorded.
MainSucceeds_Early ==
  /\ mainAt = "wait" /\ \A t \in Txns : stage[t] >= 3
  /\ mainAt' = "join" /\ success' = TRUE
  /\ UNCHANGED <<threadVars, stopped, fileVars, freed>>

MainSucceeds ==
  /\ mainAt = "wait" /\ \A t \in Txns : stage[t] >= 4
  /\ mainAt' = "join" /\ success' = TRUE
  /\ UNCHANGED <<threadVars, stopped, fileVars, freed>>

\* Both ways of giving up, the timeout and the lack of progress.
MainGivesUp ==
  /\ sample_period \in Impatient /\ mainAt = "wait"
  /\ mainAt' = "sort"
  /\ UNCHANGED <<threadVars, stopped, success, fileVars, freed>>

\* Wherever it is with the done queues.
SchedulerStops ==
  /\ mainAt = "join" /\ ~ stopped /\ writing[Scheduler] = Nothing
  /\ stopped' = TRUE
  /\ UNCHANGED <<threadVars, mainAt, success, fileVars, freed>>

\* Faulty variant: the scheduler is told to stop, but not joined.
MainJoins_NotScheduler ==
  /\ mainAt = "join" /\ Busy \subseteq {Scheduler}
  /\ mainAt' = "sort"
  /\ UNCHANGED <<threadVars, stopped, success, fileVars, freed>>

MainJoins ==
  /\ mainAt = "join" /\ stopped /\ Busy = {}
  /\ mainAt' = "sort"
  /\ UNCHANGED <<threadVars, stopped, success, fileVars, freed>>

Recorded == [i \in 1..num_events |-> buf[i - 1]]
SortBuffer ==
  LET sorted == SortedByTsc(Recorded)
  IN  buf' = [i \in Slots |-> IF i < num_events THEN sorted[i + 1] ELSE buf[i]]

\* pmlog_write: three reads of num_events.
MainSorts ==
  /\ mainAt = "sort"
  /\ SortBuffer
  /\ mainAt' = "count"
  /\ UNCHANGED <<sample_period, stage, writing, num_events, now, stopped,
                 success, fileVars, freed>>

MainWritesCount ==
  /\ mainAt = "count"
  /\ header' = num_events
  /\ mainAt' = "body"
  /\ UNCHANGED <<threadVars, stopped, success, body, text, freed>>

\* Faulty variant: slots that are not filled yet are left out.
MainWritesBody_Compacts ==
  /\ mainAt = "body"
  /\ body' = SelectSeq(Recorded, LAMBDA r : r # Hole)
  /\ mainAt' = "dump"
  /\ UNCHANGED <<threadVars, stopped, success, header, text, freed>>

MainWritesBody ==
  /\ mainAt = "body"
  /\ body' = Recorded
  /\ mainAt' = "dump"
  /\ UNCHANGED <<threadVars, stopped, success, header, text, freed>>

\* pmlog_dump_text
MainDumps ==
  /\ mainAt = "dump"
  /\ SortBuffer
  /\ text' = SortedByTsc(Recorded)
  /\ mainAt' = "free"
  /\ UNCHANGED <<sample_period, stage, writing, num_events, now, stopped,
                 success, header, body, freed>>

MainFrees ==
  /\ mainAt = "free"
  /\ freed' = {"workload"}
  /\ mainAt' = "cleanup"
  /\ UNCHANGED <<threadVars, stopped, success, fileVars>>

pmlog_cleanup ==
  /\ mainAt = "cleanup"
  /\ num_events' = 0
  /\ freed' = freed \cup {"log"}
  /\ mainAt' = "return"
  /\ UNCHANGED <<sample_period, stage, writing, buf, now, stopped, success,
                 fileVars>>

MainReturns ==
  /\ mainAt = "return"
  /\ mainAt' = "exited"
  /\ UNCHANGED <<threadVars, stopped, success, fileVars, freed>>

\* What a reader of the file gets.
pmlog_read == SubSeq(body, 1, header)

Main == \/ MainSucceeds \/ MainGivesUp \/ SchedulerStops \/ MainJoins
        \/ MainSorts \/ MainWritesCount \/ MainWritesBody \/ MainDumps
        \/ MainFrees \/ pmlog_cleanup \/ MainReturns

Next ==
  \/ \E th \in Threads, t \in Txns : RecordSkips(th, t) \/ RecordClaims(th, t)
  \/ \E th \in Threads : RecordFills(th)
  \/ Main

Spec == Init /\ [][Next]_vars

-----------------------------------------------------------------------------
(***************************************************************************)
(* While the run lasts, each slot that is claimed belongs to one thread,   *)
(* is free, and is inside the buffer: the test that would say so is        *)
(* commented out (pmlog.c:77-80), and the slots must suffice for all that  *)
(* the threads record between them.                                        *)
(***************************************************************************)
SlotsAreGood ==
  mainAt \in {"wait", "join"} =>
    \A th \in Busy :
      /\ writing[th].slot \in Slots /\ buf[writing[th].slot] = Hole
      /\ \A other \in Busy \ {th} : writing[th].slot # writing[other].slot

(***************************************************************************)
(* The header never announces more records than follow, although both are  *)
(* counted at different moments and threads may still record; after a      *)
(* success they agree with each other and with the dump (pmlog.c:102-131). *)
(***************************************************************************)
FileIsReadable ==
  /\ body # <<>> => header <= Len(body)
  /\ success /\ text # <<>> => header = Len(body) /\ text = body

(***************************************************************************)
(* After a success the file shows each sampled transaction once at every   *)
(* stage up to done, in the order of time, and done by the puppet that     *)
(* received it: what analyze.c calls ordered, but for the clean-up.  Of    *)
(* the others it shows nothing.                                            *)
(***************************************************************************)
SuccessIsOrdered ==
  success /\ body # <<>> =>
    LET Shown(t) == {i \in 1..Len(pmlog_read) : pmlog_read[i].txn = t}
    IN  \A t \in Txns :
          IF t \notin Sampled THEN Shown(t) = {}
          ELSE /\ \A k \in 0..3 :
                    \E i \in Shown(t) :
                      {j \in Shown(t) : pmlog_read[j].kind = k} = {i}
               /\ \A i, j \in Shown(t) :
                    LET e == pmlog_read[i]
                        f == pmlog_read[j]
                    IN  /\ e.kind < f.kind => e.tsc <= f.tsc
                        /\ e.kind = 2 /\ f.kind = 3 =>
                             e.aux_data = f.aux_data

(***************************************************************************)
(* Whatever the end of a run, its log can be analyzed: it is readable, and *)
(* in order if the run succeeded.                                          *)
(***************************************************************************)
LogIsSound == FileIsReadable /\ SuccessIsOrdered
=============================================================================
