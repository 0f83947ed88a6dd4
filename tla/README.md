# Puppetmaster: a verification project

Puppetmaster schedules transactions onto *puppets* (workers) so that no two transactions that
conflict - one writes an object the other reads or writes - run at the same time. There are two
implementations behind one C interface (`wrapper/include/pmhw.h`): a thread that does it in
software (`wrapper/src/pmhw_sim.c`), and a circuit written in Bluespec (`new-pmhw/src/*.bsv`).
This directory holds TLA+ models of both, the TLC runs that check them, and TLAPS proofs.

## 1. Inventory

| Part | State | Operations | Interacts with |
|---|---|---|---|
| Transactions, conflicts (`pmhw.h`) | - | `check_txn_conflict` | everything |
| Software scheduler (`pmhw_sim.c`) | `pending_qs`, `sched_qs[p]`, `done_qs[p]` (shared), `active_txns[p]` (private), `scheduler_running` | `scheduler_loop`, `pmhw_schedule`, `pmhw_poll_scheduled`, `pmhw_report_done`, `pmhw_shutdown` | client, puppet and main threads through SPSC queues and one flag |
| Queues (`spsc_queue.h`, `st_queue.h`) | head, tail, ring buffer | enq, deq, peek, full, free | the above |
| Test runner (`runner/src/main.c`) | `num_completed[p]`, the workload | client, puppet and main threads | calls the scheduler; joins the threads |
| Event log (`pmlog.c`) | event buffer, atomic counter, period | `pmlog_record`, `pmlog_write`, `pmlog_dump_text`, `pmlog_read`, `pmlog_cleanup` | called by every thread; read by `analyze.c` |
| Hardware scheduler (`Puppetmaster.bsv`) | `inputQ`, `lookaheadBuffer`, `lookaheadReinsert`, `shadowQ`, `schedQ`, `workDoneQ`, `puppetTxns[p]`, the FSM, `lookaheadFailCount`, the walk over active transactions | one rule each | two summaries; executor; driver |
| Summary (`Summary.bsv`) | a BRAM of chunks, request and response counters, the response FIFO | add, check, copy, reset | its rules fire cycle by cycle |
| Hasher (`TxnHasher.bsv`) | two FIFOs | hash the objects of a transaction | between driver and scheduler |
| Executors (`Executor.bsv`) | fake: per-puppet queue and work register, registered arbiter grant; real: two FIFOs | fan out, start, report | `schedQ` and `workDoneQ` through `Connectal.bsv`; the real one with the host |
| Drivers, top level (`TxnDriver.bsv`, `Connectal.bsv`) | the fake driver's memory, trigger and timer; multiplexers; configuration registers | `setConfig`, `fetchConfig`, `addTransaction`, `triggerDriver`, `reportWorkDone` | messages from and to the host |
| Host wrapper and test program (`pmhw.cpp`, `hw_test.c`) | the last configurations received, a mutex and a condition variable | the `pmhw_*` calls, the callback `configData` | portals of Connectal |
| Workload tools (`generate.c`, `workload.c`) | the transactions | generate with a thread per processor, write, parse | workload files |
| Converter (`hwlog2bin.c`) | the event buffer | hardware messages to a log | log files |
| Analyzer (`analyze.c`) | timelines, active list, windows, histograms | checks and figures of a log | `analyzed.bin`, read by `visualize.py` |
| Benchmark (`spsc_bench.c`), Bloom filter (`bloom.h`) | counts and samples; bits | - | the SPSC queue; nothing |
| Python model (`model/`) | - | - | shares no code |

What is hard here, and what correctness means:

* Software: four kinds of threads share queues without locks. The scheduler's private view of
  what is active must agree with what is really on its way; conflicting transactions must exclude
  each other and keep their order; shutdown must neither hang nor touch freed memory.
* Hardware: a transaction is checked against a *summary* (a Bloom filter) that can be added to but
  not deleted from, so a second, *shadow* summary is built and from time to time copied over the
  first. Safety depends on every active transaction being in the main summary, and progress
  on the refresh being reached. Buffers can wait for one another. Checks, additions and copies
  take several cycles and overlap.

* Queues: each side decides on an index that the other may already have moved on, and the slots are
  plain memory.
* Runner, log and tools: threads record into one buffer whose bound is not tested; main decides by
  samples of counters and writes, frees and returns while threads may still run; the analyzer's
  verdict is only worth something if its own scan and its arithmetic are right; files are written and read by different programs.
* Host and hardware: messages that are not answered, one that is, and a memory that fills up.

`PROJECT.json` lists the components with their status and each hazard with its line.

## 2. Modules

| Module | Models |
|---|---|
| `Transactions` | transactions as read and write sets; `check_txn_conflict` |
| `TxnScheduling` | abstract specification: waiting, running, finished |
| `SwScheduler` | `pmhw_sim.c` and the threads of `main.c` |
| `SwProperties`, `MCSw` | its properties; a workload |
| `SwProofs` | theorems about it, and the refinement of `TxnScheduling` |
| `Ring` | index arithmetic of both ring buffers, and the content between two indices |
| `BoundedFifo` | abstract specification of a queue |
| `SpscQueue` | `spsc_queue.h`, load by load and store by store, one thread on each side |
| `StQueue` | `st_queue.h`, with the scheduler's walk over its raw indices |
| `VisibleFifo` | `mkVisibleFIFOF`, the ring of a puppet's active transactions in hardware, cycle by cycle |
| `SpscBench` | `spsc_bench.c` on top of `SpscQueue` |
| `QueueProofs` | theorems about `SpscQueue` and `SpscBench` |
| `EventLog` | `pmlog.c` with the threads that record, and the end of `main.c` |
| `EventProofs` | theorems about it |
| `RunnerClock` | `main.c` by the clock: options, start-up, the loop of one-second samples |
| `LogAnalysis` | `analyze.c`, and the reader in `visualize.py` |
| `Workloads` | `generate.c` and `workload.c` |
| `HwLog` | `hwlog2bin.c` |
| `Filters` | abstract specification of the two summaries: two sets of bits, additions, checks, exchange |
| `Summary` | `mkSummary`, cycle by cycle |
| `SummaryPair`, `MCSummary` | the two summaries and the copy rules of `mkPuppetmaster`; fingerprints |
| `SummaryProofs` | theorems about them, and the refinement of `Filters` |
| `Puppetmaster` | `mkPuppetmaster`, rule by rule, over summaries as sets |
| `FakeExecutor` | `mkFakeExecutor`, cycle by cycle |
| `HwSystem` | composition: driver, `Puppetmaster`, `FakeExecutor`, connected as in `Connectal.bsv` |
| `HwProperties`, `MCHw` | its properties; the workload |
| `HwProofs` | theorems about it |
| `RealExecutor` | `mkRealExecutor` between the scheduler's queues and a host |
| `HostInterface` | `hw_test.c`, `pmhw.cpp`, the portals, the methods of `Connectal.bsv`, the fake driver |
| `HostProofs` | theorems about it |
| `TxnHasher` | `mkTxnHasher`: the hash and its bit slices |
| `Bloom` | `bloom.h` |
| `Sorting` | `qsort` with `compare_events`, as `pmlog.c` and `hwlog2bin.c` use it |
| `Parts`, `MCParts` | instances of `RunnerClock`, `LogAnalysis`, `Workloads`, `HwLog`, `StQueue`, `VisibleFifo`, `RealExecutor`, `TxnHasher` and `Bloom`, and a property of each; values of their constants |
| `DataProofs` | lemmas for several components: least numbers and induction, sorting, the index arithmetic and the content of a ring |
| `PartsProofs` | theorems about all of `Parts` |

The parts in `Parts` do not interact: programs that run before or after the others, and circuits or data structures with one user. A behaviour
chooses one of them at the start; variables of the same name are shared, and what the chosen part does not use stays at 0. There, and in `SpscBench`,
`EventLog` and `HostInterface`, what a run checks is the conjunction of properties that are stated one by one in the part's module; `PROJECT.json` has a
mutant for each conjunct that a mutant can break alone.

Definitions called `X_Something` ("faulty variant") are mutated forms of `X`. No specification
uses them; they serve to see that each property can be broken.

### The software model

A step is what one thread does up to and including its next access to something another thread
touches. `schedPc`, `puppetPc`, `clientPc` and `mainPc` say where each thread is. Moves of one
transaction between queues are thus several steps, with other threads between them:

    ClientEnq -> pending -> SchedTake -> active, taken -> SchedPublish -> sched[p]
      -> PuppetPoll -> puppetTxn[p] -> PuppetReport -> done[p] -> SchedDrainDeq -> (removed)

* A queue is a sequence with one place less than allocated (the ring keeps one slot empty).
  An `_enq` or `_deq` is one step, which `QueueProofs` and `PartsProofs` justify.
* Waiting for room in a queue is a disabled action. Polling `sched_qs` is two steps (`PuppetCheck`, then
  `PuppetPoll` or `PuppetPollEmpty`), because the flag may be cleared, and the queues freed,
  between the two.
* `RUNNING_CHECK_SHIFT` is 0, so the flag is tested in every iteration.
* `check_txn_conflict` is not abstracted, only the arrays are: they are sets.
* `SchedDrainDeq` removes the head of the active list whatever id is reported; that it is the
  same transaction is an assertion of the code and a property here (`AssertionsHold`).
* `MAX_CLIENTS` is 1, so there is one client.
* main's clock is abstracted: a round of the progress loop may come at any time, so the code's
  "no progress" and timeout exits may be taken at any time. After them main writes the log and
  returns while the threads still run, as in the code.
* `events[t]` is what `pmlog_record` recorded for `t`, in order, with a sampling period of 1.

### The queues

A step of `SpscQueue` is one access to memory the other thread touches: the load of the other's index (with the
answer "full" or "empty" as a step of its own), the access to the slot, the store of the own index. Acquire and
release make them appear in this order, and a thread's load of its own index cannot be disturbed. What malloc and the
callers' variables hold is arbitrary. The masks are remainders, as `_init` asserts a power of two. Both queues are mapped to `BoundedFifo` by `Content`, what lies
between the indices: storing the tail is `Put`, reading the slot `Peek`, storing the head `Get`.

A step of `VisibleFifo` is a clock cycle, in which `enq` and `deq` may both be called: `canonicalize` gives up the slot at the head, whose contents become
undefined, before it writes the one at the tail. `inside` is a history variable. `fifo_depth + 1` must be a power of two, as a comment there says and 7 satisfies,
so that the indices wrap by their width. `Puppetmaster` uses a bounded sequence instead, which `PartsProofs` justifies.

`SpscBench` adds the loops around them: the producer looks at `running`, takes the time and tries once. The two
tests of the benchmark differ in the time stamps only, so the one with them is modelled.

### Runner and log

`SwScheduler` leaves time and the buffer of the log open; two modules look at them.

* `EventLog`: `pmlog_record` is two steps, claiming a slot and filling it. The five stages of a transaction follow
  each other through first-in first-out queues, which decides whose turn it is; nothing else delays a stage. The sampling period is chosen at the start, and main may give up with
those in `Impatient`. main's end is one step per access: sort,
  count, body, dump, free, clean up, return.
* `RunnerClock`: a second is `Second` ticks, a transaction takes `work` ticks, and the rest none but the client's waits: with `--limit` the client
  waits after each submission (`client_sim`), three times as long as a transaction takes. `Tick` requires a puppet at work only when a transaction has been submitted and
  not begun, or when the client may submit (`ClientReady`). Conflicts are left out, so slow work and waits are all that delays a completion. A sample shift of 31 makes a negative
  period, which `pmlog_init` asserts against.

### Files and figures

`LogAnalysis` has one step per phase of `main` and one per turn of the scan's loops. A log is a set of events;
arrays are sequences; sorting chooses any order of equal times, since `qsort` is not stable. The 64-bit arithmetic is modulo `Word`, so that differences below
zero wrap as in the code; the quotient that numbers a window is converted to an `int`, of `IntWord` values (`AsInt`). A division by zero ends the program (an execution of less than 30 cycles); the conversion of 0/0 to an int is any bucket. What only scales by `cpu_freq` is left out.
Statements about windows are made for logs whose times fit (`TimesFit`): no stage before the first submission, and none so late that the window's number exceeds an `int`.

`Workloads` models files as the sequence of numbers in them, rows of the same width laid out by `InRows`. `CutOff` is the environment: an incomplete copy. The
halving of `sample_zipf` is a recursive function of the range that is left. The slices are computed without overflow, so `num_txns` times the number of threads is within an `int`. `count_lines` wants two characters and the parser one (`FullLines`); they differ for a last line of which
one character was written (`OneCharacter`), which is parsed but not counted. `HwLog`
models a line as what `sscanf` finds in it; a line with `txn_id=` but no number behind it (`NoNumber`) is counted and not converted. Both keep the order of the tests, because what is counted in one pass is used in another.

### The summaries

One step of `Summary` is one clock cycle: the rule or method that is ready, together with
`requestChunks` and the BRAM. The BRAM is a library; what the source shows of it is its use (two
ports, latency 1, `outFIFODepth` 3): a read requested in one cycle is in the response FIFO in the next,
with the contents from before any write of the same cycle, and no read is requested while
`OutFIFODepth` answers are outstanding. The contents before the reset are undefined: each chunk is
all zeros or all ones. The `preempts` attribute is the absence of a request in `Finish`.

`SummaryPair` runs the two summaries in lock-step. Whenever one is free, it may be used: the
scheduler's timing is left open, so the result holds whatever the rules of the scheduler do. The fingerprints are any. `left` is a history variable: `Remember` sets it in
the first cycle after which answers are outstanding at a summary that is free (not `NoStaleAnswers`), and what is claimed of answers and contents is claimed until then. `Filters` is
refined by adding what is still in progress: an addition counts from its acceptance, and a copy
exchanges the two sets at its start (`InCopy` says where each chunk is meanwhile: written, in the
response FIFO, or still in the shadow). The answer to a check is that at the moment it is taken.
`FingerprintsAssumption` says that a fingerprint is a set of locations, one bit per part for each object.

### The hardware scheduler

Rules are interleaved one at a time: the compiler guarantees that a cycle's rules behave like
some sequence of them. Urgency is a guard: `drainLookahead` and `shadowUpdateNew` yield to
`startRefresh`, `shadowUpdateExisting` to `shadowUpdateNew`.

* A summary is the set of transactions added to it, which `SummaryPair => Filters` justifies as
  long as checks that end early leave no answers behind (finding 2). False positives of the Bloom filter, which only delay
  transactions, are not modelled, but reads are not told from writes, as in the circuit.
* `mainBusy`, `shadowBusy` count down while a summary works: `OpTicks` for an addition, a copy or a check that
  succeeds, any number from 1 for a check that fails. Both count down together (`Tick`). With `OpTicks` = 2 a failing
  check may be twice as fast as an addition; in the circuit the ratio is closer to one, so the model
  allows more. `shadowUpdateNew` fires in the cycle it is ready, so no tick passes before it.
* The arbiter for free puppets is left open. `puppetIsFree` starts from `newVector`, whose bits are undefined, and sets only
  the ones that are free, so a grant may name any puppet; `Schedule(p)` then waits until `p` has room.
* The hasher's pipeline is part of `inputQ`. `numTxnScheduled` is never read and left out. `numPuppets` is a constant.
* `recordedActiveTxnSize` is a constant of zeros, because nothing writes the register.
* In `FakeExecutor` a clock cycle is a step, as its registers are `CReg`s read and written in port
  order within one. The time a transaction takes is arbitrary. Which of several ready
  `startWork` rules fire is left open.
* `age` is a history variable: the refreshes that began since a transaction was scheduled.

### The host's side

In `HostInterface` a call of the host is a message appended to a portal; only `fetchConfig` is answered. The callback's thread is
`configData`; waiting on the condition variable is two steps (`HostWait`, and waking by `configData`), so an answer may
come before, between or after. A method that is not ready, such as `addTransaction` with a full memory, holds up all messages behind it. Registers
made with `mkRegU` start with any value. A failed assertion stops the circuit. `given` is a history variable.
`RealExecutor` is the real executor alone: the scheduler's `schedQ`, `workDoneQ` and active lists on one side, on the other an external host that works on at most
`Workers` transactions at a time and reports them in any order. The fake driver's `outFF` and the real driver's
`hostFF` are one variable with an entry each, as the multiplexer sees them.

## 3. Runs

| Run | States | Shows |
|---|---|---|
| `SwTwoPuppets` | 191,000 | every interleaving of all threads over five transactions and two puppets with one-slot queues: type correctness, agreement of the queues, the code's assertions, mutual exclusion of conflicting transactions, their order, the order of the log's events, no access to freed buffers, success means complete, refinement of `TxnScheduling`; under fairness every transaction finishes unless main gives up, and a shutdown terminates |
| `SwLogComplete` | | finding: CLEANUP events may be missing |
| `Summaries` | 603,000 | transactions of which the checks of one may end early: until answers are left over, checks are right and the summaries refine `Filters`; every operation ends, whatever answers are outstanding |
| `SummaryEarly` | | finding: stale answers make a check wrong |
| `AnalyzerMisses` | | finding: the analyzer says that there are no conflicts when there are |
| `HwRefresh` | 2,580,000 | the hardware scheduler with two puppets and refreshes: the lookahead never overflows, nothing is scheduled twice, an answer stays right across a refresh, active transactions are covered until their second refresh, the active lists agree with what is under way, the executor's grant is right when used |
| `HwLiveness` | 102,000 | every transaction is eventually done |
| `HwNoConflict` | | finding: conflicting transactions are active together |
| `SpscBench` | 30,000 | the queue between threads under the benchmark: no data race, refinement of `BoundedFifo`; the benchmark's counts and latencies are right, the ring is freed after use; the test ends |
| `EventLog` | 504,000 | slots are exclusive and within the buffer; a written log is readable, and that of a successful run complete up to done and in order |
| `HostOrder` | 950 | the host is told what it set, transactions run as configured, reach the scheduler once and in order, and all of them do |
| `Parts` | 918,000 | `WorkloadsSurvive`: slices, search, both formats read back, files that were cut off; `VerdictIsRight`: what is refused at the start, "stuck" only if work, or the wait of a limited client, takes over a second, the verdict in time; `ScanFindsWhatFits`: the analyzer's active list holds what runs and found room, no false conflict, and none unreported between transactions that found room; `FiguresAgree`: its windows count what comes before their end, latencies and histograms, and the reader of its report; `ConversionKeeps`: the converter's buffer suffices, events are kept; `WalksSeeAll`: the software's conflict check sees all of the scheduler's ring, and the hardware's count and peek show all of a puppet's; `HashesAreSound`: no false negatives in software, locations of two objects differ in hardware; `EachReportedOnce`: between scheduler, real executor and host no transaction is lost or reported twice |

### Bounds

* Software: two puppets with one-slot queues meet full and empty queues, conflicts across
  puppets, and the round robin's wrap. Of five transactions three may run together, one more than there are places, and the others conflict with them
  in all three ways. Longer queues are covered by the theorems.
* Summaries: the code's four chunks and three outstanding reads, two of the four parts - enough for an object with
  some but not all bits set - and chunks of one or two bits. The checks of one transaction may end early and leave answers, in `Summaries`; the other has two objects with a bit in the last chunk, so
  that its checks read to the end. In `SummaryEarly` the checks of both may end early.
* Hardware: `LookaheadBufferSize` = 2 and the two-bit failure counter are the code's. Four transactions,
  of which the first excludes the rest, fill the input, the lookahead buffer and the re-insert slot at once; a
  refresh is needed to go on. The input holds one. In `HwRefresh` a puppet has up to two active transactions, so that their order matters. `age` is cut off at 2.
  `HwLiveness` uses three transactions, all in conflict, and one place per puppet. The hardware runs cannot deadlock in TLC's sense, since the executor's clock always
  ticks; that they do not get stuck is what `HwLiveness` shows.
* `SpscBench`: five items through a ring of four, so three places, which wraps and fills, and three readings of the time. The theorems cover every capacity.
* `EventLog`: four transactions over two puppets. None, every second or every fourth one is sampled, so that a skip and two events at once occur; with a period of
  four main may give up at any moment. 24 slots.
* `HostOrder`: up to five transactions for a memory of four, portals of two messages, so the limit, full portals and a blocked method occur.
* `Parts`, by part:
  * `RunnerClock`: four transactions, one or two puppets, a second of four ticks, work from none to one and a half seconds, with and without `--limit` (waits of less and of
    more than a second), timeouts of one and three, a positive and a negative sampling period; every combination of files.
  * `LogAnalysis`: four transactions, of which the first conflicts with the third only. Three have one of eleven timelines (overlapping, touching, nested, of no
    length, out of order, incomplete, cleaned up after more windows than an `int` of sixteen values numbers), the fourth one that overlaps many or is incomplete: 2662 logs and the empty one; three windows, three buckets. The list has
    room for two, so it does and does not overflow.
  * `Workloads`: up to three transactions for two threads, every prefix of the file; distributions with steps of no
    weight and sums below one. `HwLog`: every file of up to three of twenty lines.
  * `StQueue`, `VisibleFifo`: rings of four with two items. `RealExecutor`: two puppets with two active transactions each, five transactions, a host that works on two at a time and answers in any order.
  * `TxnHasher`: all 64 objects of six bits, two parts of two chunks of sixteen bits. As in the code the part count divides the logarithm of the chunk size
    (4 and 8 there, 2 and 4 here). `Bloom`: eight objects, two functions with eight bits each.

  `PartsAssumption` is what the parts assume of their constants, and TLC evaluates it for these values. The theorems about `Parts` assume no more, so each of these
  bounds is only one of the instances they cover.

### Fairness

* Software: each thread is pinned to its own core and never blocks but in a join, so weak fairness of each
  thread. Nothing is assumed of main's progress loop.
* Summary: the clock runs; the result of a check is eventually taken (the FSM is in the state that does so).
* Hardware: a rule fires in every cycle in which it is ready and no more urgent rule disables it: weak fairness of each rule, strong fairness of
  `drainInput`, which conflicts with no other rule but is ready only between switches. Steps of the FSM are fair only
  while some puppet has room. Work ends, and a puppet that is done stays so until the round-robin arbiter
  grants it: weak fairness of the grant of each puppet, and of the start of work on each.

* Benchmark: a core for each thread, and main's sleep ends. A full queue does not stop the test because each attempt is followed by a
  look at `running`.
* Host: the threads run, the portal delivers what is ready, the driver's rule fires when ready, and the scheduler takes
  transactions again and again. No run has fairness among the actions of one thread that are enabled together, because there are none.

## 4. What the code does not do

1. **A conflict after two refreshes** (`HwNoConflict`). The walk over active transactions that refills the
   shadow summary compares with `recordedActiveTxnSize`, which stays zero (`Puppetmaster.bsv:230,237`). A transaction
   enters the main summary and the shadow when it is scheduled; the first refresh keeps it through the shadow, the second
   forgets it. One that is still active then no longer excludes those it conflicts with.
   `CoveredUntilSecondRefresh` states what does hold.
2. **A check that ends early spoils the next operation** (`SummaryEarly`). `doCheck_resp` stops at the first
   object found, but reads issued ahead stay in the response FIFO (`Summary.bsv:237`). The next operation takes
   them as the answers for its first chunks. A check may then miss a conflict; an addition may
   write the wrong chunks. Operations still end, and until answers have been left over nothing is wrong (`Summaries`).
3. **CLEANUP events are lost** (`SwLogComplete`). main shuts down once the puppets' counters add up, which may
   be before the scheduler has drained the done queues (`pmhw_sim.c:157`), so `analyze` reports an incomplete log
   of a run that succeeded.
4. **A conflict the analyzer does not see** (`AnalyzerMisses`). A transaction enters the list of active ones only below `num_puppets` (`analyze.c:272`), though transactions are active from
   the moment they are scheduled and several queue up at a puppet; the array has room for them (`analyze.c:234`). What finds no place is not compared with what follows,
   against the comment "Compare against still-active txns" (`analyze.c:253`), and the program says "No conflicting pairs of scheduled transactions." (`analyze.c:279`).
   `ScanFindsWhatFits` states what does hold.

While modelling, TLC also gave counterexamples to what one might expect of the following. They are either marked in the source, or
no statement in the repository is plainly against them, so no run is kept; the properties checked are stated so as to hold.

* *Throughput leaves out the end.* The window of the last completion is one past the end (`analyze.c:324`) when the duration is a multiple of the number of windows, and later ones when it is not,
  although the comment speaks of all completely logged transactions (`analyze.c:297`). `WindowsCountUpToEnd` states what is counted: what comes before the end of the last window.
* *Freed while in use.* After giving up, main frees the workload and the log while client, scheduler and
  puppets go on (`main.c:331`), until it returns.
* *Slow is taken for stuck.* Two equal samples a second apart end the run, however long a transaction takes (`main.c:283`). With `--limit` a third of a second is enough, since the client then
  waits three times as long as the work (`main.c:143`).
* *The last second is not looked at.* The loop sleeps after its last sample (`main.c:295`), so a run that
  finishes in time may time out.
* *As many writes as reads.* The loop for the writes has the bound of the reads (`generate.c:77`).
* *The wrong puppet.* The real executor reports puppet 0 for all (`Executor.bsv:68`, marked TODO), against the assertion at `Puppetmaster.bsv:254`; the host's side refuses its messages so far. `EachReportedOnce`
  says what holds nevertheless: each id comes back once.
* *One puppet too few.* `setConfig` refuses `MaxNumPuppets` itself (`Connectal.bsv:157`).
* *Partitions that are not.* All functions of the software Bloom filter hash into the first partition (`bloom.h:49`).
* *Loss that is none.* The benchmark prints what was left in the queue as failures to enqueue (`spsc_bench.c:253`).
* *A quarter of the filter.* Of the locations in a part of the hardware's Bloom filter a quarter is used: `NBits` (`TxnHasher.bsv:70`) counts bits for the chunk index above those of the bit
  indices, but `TxnHasher.bsv:85` cuts it from among them. That does not make answers wrong, only more often "not compatible". `HashesAreSound` claims nothing of chunk indices.

## 5. What is proved

TLC checks a property on the instances above; the theorems hold for every value of the constants that the named assumptions admit.
An assumption is about constants only and says what the code itself asserts or could not run without.

### The software scheduler

`SwProofs`, for every workload, number of puppets and queue size (`TransactionsAssumption`: reads and writes are
sets of objects per transaction; `SwAssumption`: at least one puppet and rings of at least two slots):

| Theorem | Statement |
|---|---|
| `PipelineInvariant` | `Spec => []IInv` |
| `TypeCorrect` | `Spec => []TypeOK` |
| `QueuesAgree` | `Spec => []QueueAgreement`: the active list is what travels through the puppet |
| `MutualExclusion` | `Spec => []NoConflictInFlight` |
| `NoAssertionFails` | `Spec => []AssertionsHold` |
| `OrderInvariant` | `Spec => []OInv` |
| `EventsInOrder` | `Spec => []LogOrder` |
| `ConflictsInOrder` | `Spec => []ConflictOrder` |
| `EndInvariant` | `Spec => []EInv` |
| `SuccessAfterAll` | `Spec => []SuccessIsComplete` |
| `FreedStaysUntouched` | `Spec => []FreedQueuesUntouched` |
| `Refinement` | `Spec => ImplementsScheduling`, the refinement of `TxnScheduling` |

None of these properties is inductive. There are three inductive invariants, each on top of the one before.

* `IInv` is about the *pipeline* of a puppet: `done \o held \o sched \o taken`.
  A move of a transaction from one queue to the next leaves it unchanged, so only two steps matter:
  `SchedTake` appends to it and `SchedDrainDeq` removes its head. `IInv` says that it is the active list while the
  queues exist (`PipelineIsActive`; shutdown empties the active lists but not the queues, hence `FreedAfterJoin`: by then the
  scheduler has left its loop), that it fits in a queue (`PipelineFits`), and that no two conflicting transactions are in
  pipelines (`PipelineCompatible`). The conflict check of `SchedTake` looks at the active lists, which are the pipelines, so
  the last part is kept; in-flight transactions are in pipelines, which gives mutual exclusion; each queue is a
  part of its pipeline, which gives the assertions. The proof has one lemma per kind of step.
* `OInv` adds where each transaction is: the pending queue is an interval of the workload (`PendingInOrder`), nothing is in two pipelines or
  twice in one (`PipelinesDistinct`), and what a transaction has recorded follows from where it is (`Stages`, with `ClientAt` and
  `RestIsClean` for those that have not been submitted or have left). `LogOrder` is part of it. For `ConflictOrder`: the scheduler takes transactions in the order of submission, so an
  earlier one has been taken, and one that conflicts is not in a pipeline, so it has left.
* `EInv` adds what main knows: the counters count what has been reported (`CreditInv`), main leaves its loop with success only when that is
  everything (`EnoughReported`), and the stages of the shutdown (`Endgame`), from which
  `SuccessIsComplete` and `FreedQueuesUntouched` follow.

For the refinement, the waiting transactions are the pending ones, the running ones those in flight whose work is not done, and each kind of step maps to `Submit`, `Start`, `Finish` or to none; the guard of `Start` is `OInv` and the conflict check.

### The queues

From `RingAssumption` alone (the capacity is a number of at least two; that it is a power of two is only needed to read masks as
remainders), for every set of items:

| Theorem | Statement |
|---|---|
| `QueueProofs!TypeCorrect` | `QueueSpec => []TypeOK` |
| `QueueProofs!AnswersStay` | `QueueSpec => []AnswersStayGood` |
| `QueueProofs!NoRace` | `QueueSpec => []NoDataRace` |
| `QueueProofs!ImplementsFifo` | `QueueSpec => FifoSpec`, the refinement of `BoundedFifo` |
| `QueueProofs!BenchInvariant` | `BenchSpec => []BenchInv` |
| `QueueProofs!BenchUsesQueue` | `BenchSpec => QueueSpec`, so the four above hold in the benchmark |
| `QueueProofs!ReportIsRight` | `BenchSpec => []FiguresAreRight` |
| `PartsProofs!StImplementsFifo` | `StSpec => FifoSpec` |
| `PartsProofs!WalkIsRight` | `StSpec => []WalkSeesAll` of `StQueue`: the conflict check's walk visits the content, in order |
| `PartsProofs!VisibleIsRight` | `VisibleSpec => []ShowsInside` of `VisibleFifo`: count and peek show what is inside |

`TypeOK /\ AnswersStayGood` is inductive: a thread's conclusion about the other's index can only become better, since the other
moves its index away from it. For the refinement each step is mapped to a step of the FIFO or to none. The lemmas of `DataProofs` say what a step does to
`Content`: moving the tail appends what the slot holds (`ContentPut`), moving the head drops the first item (`ContentGet`), writing the
slot at the tail changes nothing (`ContentWrite`). They rest on two facts about remainders of a sum that is at most once too large
(`ModSmall`, `ModWrap`). For `VisibleFifo` the inductive invariant is that
what is inside is the content, and a cycle with both calls is taken apart into the two moves.

The three theorems about the benchmark have the hypothesis `Items = BenchTimes` (items are time stamps, as the configuration has it; `BenchAssumption` bounds
time by a number). Their invariant says that what is in the ring was stamped in the past, and that the counts
of both threads, with the one item each may hold, match the indices.

The walk is a recursive function of the number of steps left. TLA+ takes it to be some function that satisfies its equation, so the proof gives one
(`WalkExists`) and shows by induction that there is no other (`WalkUnique`). The library's induction theorem has an operator as a parameter, which the provers cannot
instantiate; `ByInduction` is the same about a set of numbers, from the fact that every set of numbers that is not empty has a least one.

### The summaries

`SummaryProofs`, for every number and size of parts and chunks, every set of fingerprints and every depth of the port (`SummaryAssumption`,
`FingerprintsAssumption`):

| Theorem | Hypotheses | Statement |
|---|---|---|
| `TypeCorrect` | | `Spec => []TypeOK` |
| `RightUntilLeft` | two reads | `Spec => []Known`: answers have been left over, or none is left and `CInv` holds |
| `AnswersRight` | two reads | `Spec => []AnswersAreRight` |
| `FiltersUntilLeft` | two reads | `Spec => ImplementsFilters`, the refinement of `Filters` |

*Two reads* is `OutFIFODepth >= 2`; the code has three (`Summary.bsv:128`). In a copy a chunk is requested in the cycle in which the answer to the last request is taken, so with
one read outstanding the shadow could not request it, but would clear it all the same. Nothing is assumed of the fingerprints. The code does not see to it that no check ends early, and then answers may be left over and a later
check may be wrong (finding 2, `SummaryEarly`). The theorems say that this is the only way: until answers have been left over no answer is wrong, no bit lost and none too many.

The inductive invariant `CInv` says where an operation is. `Aligned`: the answers at a port are the contents of the chunks to come, in order,
up to the next to be requested (the chunk just written is not among them, `AlignedWrite`). `Cleared`, `Added`: the chunks so far
are empty, or have the bits of the transaction. A check has found all bits in the chunks so far, or knows already that it fails. In a copy
(`CopyRight`, `Together`) the shadow is ahead of the main summary by exactly one chunk, which is the one answer at its port, and it is
done one cycle earlier.
In the refinement, `CopyStands` is the step that is hard to see in the code: the main summary stands for
the same bits in each cycle of a copy.

### The hardware scheduler

`HwProofs`, for every workload, number of puppets, buffer size, length of the active lists and duration of a summary's operation (`HwAssumption`):

| Theorem | Statement |
|---|---|
| `HTypeInvariant` | `Spec => []HType` |
| `TypeInvariant` | `Spec => []TypeOK` |
| `LookaheadNeverFull` | `Spec => []LookaheadFits` |
| `ArbiterIsRight` | `Spec => []ArbRightPuppet` |
| `SummaryInvariant` | `Spec => []SInv` |
| `AnswerStaysRight` | `Spec => []StillCompatible` |
| `PlaceInvariant` | `Spec => []PInv` |
| `NoneIsTwice` | `Spec => []NoneTwice` |
| `CoveredForARefresh` | `Spec => []CoveredUntilSecondRefresh` |
| `PathInvariant` | `Spec => []AInv` |
| `ListAgrees` | `Spec => []ActiveListAgrees` |
| `ReportsMatch` | `Spec => []ReportIsOldest`: the assertion "work done must match txn order" (`Puppetmaster.bsv:254`) never fails |

* `HType`: types, with the two properties that keep them. A grant for a puppet that is not done would send a message without a transaction; a lookahead
  that did not fit would lose one.
* `SInv`: whatever the shadow summary has or has queued is in the main one (`ShadowInMain`), and how the two summaries' timers relate
  (`SummaryTiming`: an addition to the shadow begins when the one to the main summary does, so both are over when the main summary is free). A refresh thus only takes
  things out of the main summary, so an answer "compatible" stays right; it is the reason why the code need not check again after one.
* `PInv`: each transaction waits in one place or is active once, and is not submitted again. With it, `Ages`: one that has seen no
  refresh is in both summaries or on its way into the shadow, one that has seen one is in the main summary.
* `AInv`: a puppet's list is the concatenation of six parts, from `workDoneQ` back to `schedQ` (`PathAgrees`), and a transaction is in one place of them (`OnePlace`), so that the
  head of the list is what the executor reports next. The parts of one puppet are taken from shared FIFOs by
  `OfPuppet`, a recursive function over the length, treated like the walk above.

### The log and the host

| Theorem | Statement |
|---|---|
| `EventProofs!LogInvariant` | `Spec => []LogInv` |
| `EventProofs!SlotsSuffice` | `Spec => []SlotsAreGood`: no two threads write a slot, and none is outside the buffer |
| `EventProofs!HeaderFits` | the file announces no more records than follow, whatever is recorded meanwhile (first half of `FileIsReadable`) |
| `EventProofs!LogWrittenInvariant` | `Spec => []LogWritten` |
| `EventProofs!LogCanBeAnalyzed` | `Spec => []LogIsSound`: that, and the file of a successful run is in order and holds every stage up to done of every sampled transaction once |
| `HostProofs!HostInvariant` | `Spec => []HInv` |
| `HostProofs!AsAsked` | `Spec => []GivenAsAsked` |

`EventProofs`, for every number of transactions and puppets and every set of sampling periods (`EventLogAssumption`): a stage of a transaction is recorded by one thread (`OwnStage`), the slots given out are those below the counter
(`SlotsClaimed`), what is below and not yet filled is claimed (`HolesLeft`), and the counter is at most the number of
stages begun (`EnoughSlots`), five for each transaction, while the buffer has six.

`LogWritten` adds what is in the buffer and the files. While the threads record, the slots that are filled hold true records (`RecordsTrue`), one for each stage of
a transaction with times that grow (`RecordsOrdered`), and none is missing (`RecordsComplete`); each of the three needs the steps of one thread between those of
another. After a success main has joined all threads, so no slot is still to be filled, and the buffer shows everything (`ShowsAll`). `SortBuffer` permutes it:
`DataProofs` shows that the ranks by time are a permutation and that sorting by them sorts, keeps each record once, and does nothing the second time - main
sorts once for the file and once for the dump. `AfterSuccess` follows main through count, body, dump and clean-up. That a header may announce less than
follows after main has given up stays possible, and is all that `Announced` excludes the opposite of.

`HostProofs`, for every workload, memory, portal and number of puppets (`HostAssumption`), counts: what the host calls is a list known in advance
(`Call`); a prefix of it has been sent (`HostAt`), a prefix of that has been handled, and the portal holds exactly what is
between (`Underway`). How many have been handled tells the registers (`Registers`), the answer under way (`Answer`) and what the driver holds and has given (`Driver`).

### The parts

`PartsProofs`, from `PartsAssumption` and `RingAssumption` alone:

| Theorem | Statement |
|---|---|
| `PartsInvariant` | `Spec => []PartsInv`: whichever part runs, it keeps its inductive invariant |
| `WorkloadsAreKept` | `Spec => []WorkloadsSurvive`, for any number of threads, transactions and objects and any distribution |
| `VerdictsAreRight` | `Spec => []VerdictIsRight`, for every command line, with or without `--limit`, and number of transactions |
| `ScanIsRight` | `Spec => []ScanFindsWhatFits`, for every log and number of puppets |
| `FiguresFitTogether` | `Spec => []FiguresAgree`, for every log and any numbers of windows and buckets; what it says of windows is about logs whose times fit (`TimesFit`) |
| `ConversionIsRight` | `Spec => []ConversionKeeps`, for every hardware log |
| `WalksAreRight` | `Spec => []WalksSeeAll`, for every capacity |
| `HashesAreRight` | `Spec => []HashesAreSound`, for every constant and the widths that `HasherAssumption` and `BloomAssumption` admit |
| `ReportsAreComplete` | `Spec => []EachReportedOnce`, for any number of transactions, puppets, places and workers |

A step of `Parts` is one of the part that runs or leaves its variables alone (`StepOfPart`), so `PartsInv` has one conjunct for each part. What
makes each of them inductive:

* *Generator* (`WorkInv`). Every transaction lies in a slice (`SliceOf`: the least thread whose end reaches it), and what a thread has passed is as it should be
  (`TxnsRight`); no thread leaves its slice (`next[t] <= Start(t + 1)`), and since the starts grow (`StartGrows`) no two touch the same transaction. When all have arrived every transaction is good. The
  search is a recursive function of the range, so the proof gives its values, the least index in the range that the draw does not exceed (`SearchExists`), and shows by induction on the width that there are no
  others (`SearchUnique`); halving keeps the least (`HalfKeepsLeast`) because the weights are cumulated. For the files: a row is found where
  `(i - 1) * width + j` says (`RowsAt`), a line parses to the transaction it was printed from (`LineParses`), a record to the
  one it was copied from (`RecordsReadBack`). A binary file that was cut off is shorter than its own header says (`CutRecordsRefused`); a CSV file has all its lines
  but the last few, and only the last of those that are left can have been changed (`LinesCut`).
* *Runner* (`ClockInv`). What the puppets have begun is what they have completed and what they are at (`AllCounted`). If nothing has been completed since the last sample, then what will be completed first will be so before the next one (`Progress`): a transaction
  that a puppet is at, one that waits, or the client's next (`Soon`). For a limited client that rests on `Paced`: by the time it has waited as long as a transaction takes, its last one has been begun and will be done. Hence "stuck" only if work or waits take longer than a second.
* *Analyzer's scan* (`ScanInv`). The list is kept by moving its last entry into the place of a finished one. No transaction is in it twice, all in it have been
  scheduled (`ActiveOnce`), before `w` none is finished (`Swept`), and none that runs is missing if fewer than there are puppets were under way when it was scheduled (`NoneDropped`, `Fits`); so what has been compared is at least what ran
  at the time and had found room (`AllComparedTo`).
* *Analyzer's figures* (`FigureInv`). Sums of counts are counts of unions (`SumOfCounts`, by induction over the buckets), quotients that round down keep the order of
  times, the conversion to an `int` changes no quotient of a time that fits, and the least and the greatest latency fall into the outermost buckets. The reader's offsets are those of the concatenation.
* *Converter* (`ConvertInv`). Both passes over the file apply their tests to the same lines, of which the second's are stronger than the first's; the collected events correspond one to one to the lines seen
  (`EventsOf`), the least time is theirs, and moving all of them by it keeps their order and makes 0 impossible.
* *Rings* (`Inv`, `ShownInv`): see the queues above.
* *Hashes*. For the software filter, that what was inserted has its bits and bits are never cleared (`BloomInv`). For the hardware's, all is in the arithmetic of
  `LocationsDiffer`: multiplication by an odd number modulo a power of two loses nothing, the low bits of the product depend on the low bits of the factor
  only, the bit indices of all parts together are the low bits. Bits are quotients and remainders by powers of two here, so no theory of
  bit vectors is needed.
* *Real executor* (`WayInv`). As many ids are on the way as places are taken, and as many as the scheduler counts; all are below the next. That sets of ids lose none in a step is easy to see; that none is in two places follows
  without a case for each pair of places, since there can never be more ids than places (`FewOnTheWay`) and the number of places does not grow but with a new id (`NoneLost`).

### Only model-checked

*Liveness*: `EveryTxnFinishes`, `ShutdownTerminates`, `EveryTxnDone`, `BenchEnds`, `AllGiven`, `OperationsEnd`. They need fairness, hence `ENABLED`, which is out of TLAPS's reach.
The findings are counterexamples, for which TLC is the means. Every invariant of a passing run is a theorem, those of the summaries under the hypothesis in the table above.

## 6. Plan

Done in this order, the most important behaviour first: the software scheduler with its abstract specification and proofs; the summaries
and their refinement; the hardware scheduler with the fake executor; the queues with the proof that they are FIFOs; the benchmark, the event
log and the runner's clock; the analyzer, workloads and converter; the host's side, the real executor, the hasher and the software Bloom filter;
the proofs about orders, the end and the refinement in software, about the hardware scheduler, the summaries, the benchmark, the log and the host;
the proofs about the contents of the log and about every part in `Parts`. Every invariant that a passing run checks is now a theorem. Next:

1. *The puppet arbiter* with its registered grant, in place of the open choice.
2. *A stream of transactions*: repeating transactions, to see how long a waiting one can be passed over.
3. *The hardware scheduler over the real summaries*: composing `Puppetmaster` with `SummaryPair`, so that findings 1 and 2 meet.

## 7. Running

    tlc -config SwTwoPuppets.cfg MCSw
    tlapm SwProofs.tla

The module of each run is in `PROJECT.json`: `MCSw`, `MCSummary`, `MCHw` and `MCParts`, or
the component's own module where the configuration says all (`SpscBench`, `EventLog`, `HostInterface`).
With two workers the longest runs are `SwTwoPuppets`, `HwLiveness` and `HwRefresh`, two to three minutes each; `Parts` takes one, the others less. The proofs of `PartsProofs` take about ten minutes, most of it to prepare 5600 obligations; those of `SwProofs` three, of `HwProofs` two, of `SummaryProofs`, `EventProofs` and `HostProofs` one each, the others seconds.

## 8. Not modelled

* The Python performance model, which shares no code with the system, and the hardware's test benches.
* `readlog.c`, which prints a log; the live dump; everything that only prints (`pmutils.h`, reports, usage).
* The real transaction driver beyond its selection, which the host never makes; `FakeTxnDriverSynth.bsv`, for synthesis without a host; `systemReset`, which does nothing, is a message without effect.
* The round-robin arbiters, debug counters, the marshalling of a transaction's objects into a message.
* Units and floating point: `cpu_freq`, the histogram's centres, the weights of the distribution (any non-decreasing sequence of numbers here, of any length but none).
* Weak memory order is taken to be what the queues' acquire and release pairs give. `num_completed` is a plain integer that main
reads while puppets write it; it is modelled as an atomic word, which it is on the targets.
* Mismatched files: a log analyzed with another workload than its own, a binary workload from a machine of other widths.
