-------------------------------- MODULE Parts -------------------------------
(***************************************************************************)
(* The parts of the system that run on their own, one of them at a time:   *)
(* the programs of runner/src around a run, and the data structures and    *)
(* circuits with a single user.  Variables of the same name are shared;    *)
(* what the running part does not use stays at 0, the ring empty.  The     *)
(* constants are those of the parts, which say what they are.              *)
(***************************************************************************)
EXTENDS StQueue, FiniteSets

CONSTANTS
  MAX_TXN_OBJS, num_threads, RandMax, Inputs,           \* Workloads
  MAX_CLIENTS, MAX_PUPPETS, Second, Gap, Args,          \* RunnerClock
  NumTxns,                                              \* and LogAnalysis
  Objects, reads, writes, num_puppets, num_buckets,
    num_throughput_windows, Logs,                       \* LogAnalysis
  IntWord, Word,                                        \* and HwLog
  Outputs,                                              \* HwLog
  Objids, BLOOM_TOTAL_BITS, BLOOM_NUM_HASHES, WordBits,
    HashModulus, HashShift, hash_constants,             \* Bloom
  ObjectBits, NumBloomParts, LogBloomChunks,
    LogBloomChunkSize, Golden,                          \* TxnHasher
  Scheduled, NumPuppets, Workers, ActivePerPuppet       \* RealExecutor

\* StQueue declares the variables of both rings and its own.
VARIABLES
  part,
  at, file, args, next, active,                         \* shared
  cdf, txns, whole, workload,                           \* Workloads
  sample_period, now, submitted, client_left, left,
    started, num_completed, second, prev, wake,         \* RunnerClock
  log, tl, sched, idx, w, conflicts, windows, hist,     \* LogAnalysis
  lines, event_count, pos, min_tsc, evt_buf,            \* HwLog
  inside,                                               \* VisibleFifo
  bits, inserted,                                       \* Bloom
  in, out, object,                                      \* TxnHasher
  numTxnScheduled, schedQ, workDoneQ, reqFF, doneFF,
    atHost                                              \* RealExecutor

programVars  == <<at, file>>
workloadVars == <<cdf, txns, whole, workload>>
clockVars    == <<sample_period, now, submitted, client_left, left, started,
                  num_completed, second, prev, wake>>
analysisVars == <<log, tl, sched, idx, w, conflicts, windows, hist>>
hwLogVars    == <<lines, event_count, pos, min_tsc, evt_buf>>
ringVars     == <<head, tail, buffer>>
queueVars    == <<arg, item, result>>
bloomVars    == <<bits, inserted>>
hasherVars   == <<in, out, object>>
executorVars == <<numTxnScheduled, schedQ, workDoneQ, reqFF, doneFF, atHost>>
vars == <<part, programVars, args, next, active, workloadVars, clockVars,
          analysisVars, hwLogVars, ringVars, queueVars, inside, bloomVars,
          hasherVars, executorVars>>

Parts == {"generate", "run", "analyze", "hwlog2bin", "st_queue",
          "visibleFifo", "bloom", "hasher", "realExecutor"}

-----------------------------------------------------------------------------
Generate == INSTANCE Workloads
Clock    == INSTANCE RunnerClock
Analyze  == INSTANCE LogAnalysis
Convert  == INSTANCE HwLog
Visible  == INSTANCE VisibleFifo
Filter   == INSTANCE Bloom
Hasher   == INSTANCE TxnHasher

Exec     == INSTANCE RealExecutor WITH NumTxns <- Scheduled

ASSUME PartsAssumption ==
  /\ Generate!WorkloadsAssumption
  /\ Clock!ClockAssumption
  /\ Convert!ConversionAssumption
  /\ Analyze!AnalysisAssumption
  /\ Filter!BloomAssumption
  /\ Hasher!HasherAssumption

Unused == CHOOSE i \in Items : TRUE

-----------------------------------------------------------------------------
\* Which part uses which of the shared variables.
Uses == [at     |-> {"generate", "run", "analyze", "hwlog2bin"},
         file   |-> {"generate", "analyze", "hwlog2bin"},
         args   |-> {"generate", "run"},
         next   |-> {"generate", "realExecutor"},
         active |-> {"analyze", "realExecutor"}]

IdleShared ==
  /\ part \notin Uses.at     => at = 0
  /\ part \notin Uses.file   => file = 0
  /\ part \notin Uses.args   => args = 0
  /\ part \notin Uses.next   => next = 0
  /\ part \notin Uses.active => active = 0

IdleWorkload == cdf = 0 /\ txns = 0 /\ whole = 0 /\ workload = 0
IdleClock    == /\ sample_period = 0 /\ now = 0 /\ submitted = 0
                /\ client_left = 0 /\ left = 0 /\ started = 0
                /\ num_completed = 0 /\ second = 0 /\ prev = 0 /\ wake = 0
IdleAnalysis == /\ log = 0 /\ tl = 0 /\ sched = 0 /\ idx = 0 /\ w = 0
                /\ conflicts = 0 /\ windows = 0 /\ hist = 0
IdleHwLog    == /\ lines = 0 /\ event_count = 0 /\ pos = 0 /\ min_tsc = 0
                /\ evt_buf = 0
IdleRing     == head = 0 /\ tail = 0 /\ buffer = [s \in Slots |-> Unused]
IdleQueue    == arg = Unused /\ item = Unused /\ result = FALSE
IdleBloom    == bits = 0 /\ inserted = 0
IdleHasher   == in = 0 /\ out = 0 /\ object = 0
IdleExecutor == /\ numTxnScheduled = 0 /\ schedQ = 0 /\ workDoneQ = 0
                /\ reqFF = 0 /\ doneFF = 0 /\ atHost = 0

Init ==
  /\ part \in Parts
  /\ IdleShared
  /\ IF part = "generate"     THEN Generate!Init ELSE IdleWorkload
  /\ IF part = "run"          THEN Clock!Init    ELSE IdleClock
  /\ IF part = "analyze"      THEN Analyze!Init  ELSE IdleAnalysis
  /\ IF part = "hwlog2bin"    THEN Convert!Init  ELSE IdleHwLog
  /\ part \notin {"st_queue", "visibleFifo"} => IdleRing
  /\ IF part = "st_queue"     THEN StInit   ELSE IdleQueue
  /\ IF part = "visibleFifo"  THEN Visible!VisibleInit ELSE inside = 0
  /\ IF part = "bloom"        THEN Filter!Init   ELSE IdleBloom
  /\ IF part = "hasher"       THEN Hasher!Init   ELSE IdleHasher
  /\ IF part = "realExecutor" THEN Exec!Init     ELSE IdleExecutor

Others ==
  /\ UNCHANGED part
  /\ part \notin Uses.at     => UNCHANGED at
  /\ part \notin Uses.file   => UNCHANGED file
  /\ part \notin Uses.args   => UNCHANGED args
  /\ part \notin Uses.next   => UNCHANGED next
  /\ part \notin Uses.active => UNCHANGED active
  /\ part # "generate"       => UNCHANGED workloadVars
  /\ part # "run"            => UNCHANGED clockVars
  /\ part # "analyze"        => UNCHANGED analysisVars
  /\ part # "hwlog2bin"      => UNCHANGED hwLogVars
  /\ part \notin {"st_queue", "visibleFifo"} => UNCHANGED ringVars
  /\ part # "st_queue"       => UNCHANGED queueVars
  /\ part # "visibleFifo"    => UNCHANGED inside
  /\ part # "bloom"          => UNCHANGED bloomVars
  /\ part # "hasher"         => UNCHANGED hasherVars
  /\ part # "realExecutor"   => UNCHANGED executorVars

Next ==
  /\ Others
  /\ \/ part = "generate"     /\ Generate!Next
     \/ part = "run"          /\ Clock!Next
     \/ part = "analyze"      /\ Analyze!Next
     \/ part = "hwlog2bin"    /\ Convert!Next
     \/ part = "st_queue"     /\ StNext
     \/ part = "visibleFifo"  /\ Visible!VisibleNext
     \/ part = "bloom"        /\ Filter!Next
     \/ part = "hasher"       /\ Hasher!Next
     \/ part = "realExecutor" /\ Exec!Next

Spec == Init /\ [][Next]_vars

-----------------------------------------------------------------------------
(* The properties of each part, of which the modules say more.             *)

\* The threads of generate leave no transaction out and share none, draw from
\* the distribution, and what they write is read back as it was, in both
\* formats; a file that was cut off is refused or, as CSV, only short.
WorkloadsSurvive ==
  part = "generate" => Generate!WorkloadsSurvive

\* A run is refused only for a reason and records what it is asked to, is given
\* up as stuck only if transactions come or go less often than once a second,
\* succeeds only if all is done, and never outlasts its timeout.
VerdictIsRight ==
  part = "run" => Clock!VerdictIsRight

\* The analyzer's list of active transactions stays right while it is walked.  It
\* reports conflicts only if conflicting transactions met, and passes over only
\* those with a transaction that found the list's places taken.
ScanFindsWhatFits ==
  part = "analyze" => Analyze!ScanFindsWhatFits

\* When the analyzer says that there are no conflicting pairs, there are none
\* (analyze.c:279).
SaysNoneOnlyIfNone ==
  part = "analyze" => Analyze!SaysNoneOnlyIfNone

\* The analyzer's figures agree with each other, count what comes before the end
\* of their last window once, and reach the plotting script.
FiguresAgree ==
  part = "analyze" => Analyze!FiguresAgree

\* Each event the hardware printed is in the converted log once, at a time
\* other than 0, and the buffer for it is large enough.
ConversionKeeps ==
  part = "hwlog2bin" => Convert!ConversionKeeps

\* Both schedulers' walks over the active transactions of a puppet, by the raw
\* indices of a ring and by peek, see exactly what is queued.
WalksSeeAll ==
  /\ part = "st_queue"    => WalkSeesAll
  /\ part = "visibleFifo" => Visible!ShowsInside

\* Neither hash makes a filter lose an object: the software's finds what was
\* inserted, and the hardware's tells any two objects apart.
HashesAreSound ==
  /\ part = "bloom"  => Filter!NoFalseNegative
  /\ part = "hasher" => Hasher!DistinctObjectsDiffer

\* The real executor and its host lose no scheduled transaction and report none
\* twice.
EachReportedOnce == part = "realExecutor" => Exec!EachReportedOnce
=============================================================================
