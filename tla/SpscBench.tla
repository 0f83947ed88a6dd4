----------------------------- MODULE SpscBench ------------------------------
(***************************************************************************)
(* wrapper/src/spsc_bench.c, the latency test: a producer and a consumer   *)
(* thread hammer one queue until main clears running, then main joins      *)
(* them, reports, and frees the queue.  The throughput test is the same    *)
(* without the time stamps.  An item is its time stamp; the payload it     *)
(* points to is never read.                                                *)
(***************************************************************************)
EXTENDS SpscQueue

CONSTANTS LATENCY_SAMPLE_MAX,
          MaxTime,       \* bound: readings of the time-stamp counter
          MaxProduced    \* bound: items

BenchTimes == 0..MaxTime

\* An item is a time stamp: the configuration and the theorems let Items be
\* BenchTimes.
ASSUME BenchAssumption == MaxTime \in Nat /\ LATENCY_SAMPLE_MAX \in Nat

VARIABLES
  now,           \* the time-stamp counter
  running,
  prodAt,        \* "check", "enq", "exited"
  consAt,        \* "check", "deq", "exited"
  produced, consumed,
  latencies,     \* ctx->latencies, the part written
  latency_index,
  mainAt         \* "sleep", "join", "print", "freed"

counts == <<produced, consumed, latencies, latency_index>>
vars   == <<queueVars, now, running, prodAt, consAt, counts, mainAt>>

\* What malloc left in the slots: all old, or all in the future.
BenchInit ==
  /\ QueueInit /\ prodItem = 0 /\ consItem = 0
  /\ \E garbage \in {0, MaxTime} : buffer = [s \in Slots |-> garbage]
  /\ now = 0 /\ running = TRUE
  /\ prodAt = "check" /\ consAt = "check"
  /\ produced = 0 /\ consumed = 0
  /\ latencies = <<>> /\ latency_index = 0
  /\ mainAt = "sleep"

ClockTick ==
  /\ now < MaxTime
  /\ now' = now + 1
  /\ UNCHANGED <<queueVars, running, prodAt, consAt, counts, mainAt>>

-----------------------------------------------------------------------------
ProducerCheck ==
  /\ prodAt = "check"
  /\ running => produced < MaxProduced
  /\ prodAt' = IF running THEN "enq" ELSE "exited"
  /\ UNCHANGED <<queueVars, now, running, consAt, counts, mainAt>>

\* Faulty variant: the item is counted before it is known to be in.
ProducerTry_CountsFirst ==
  /\ prodAt = "enq" /\ prodPc = "idle"
  /\ \/ /\ EnqFull
        /\ prodAt' = "check"
        /\ produced' = produced + 1
     \/ EnqLoad(now) /\ UNCHANGED <<prodAt, produced>>
  /\ UNCHANGED <<now, running, consAt, consumed, latencies,
                 latency_index, mainAt>>

\* Faulty variant: a full queue is tried again without a look at running.
ProducerTry_Insists ==
  /\ prodAt = "enq" /\ prodPc = "idle"
  /\ EnqFull \/ EnqLoad(now)
  /\ UNCHANGED <<now, running, prodAt, consAt, counts, mainAt>>

\* The time stamp is taken before each attempt; a failed one is forgotten.
ProducerTry ==
  /\ prodAt = "enq" /\ prodPc = "idle"
  /\ \/ /\ EnqFull
        /\ prodAt' = "check"
     \/ EnqLoad(now) /\ UNCHANGED prodAt
  /\ UNCHANGED <<now, running, consAt, produced, consumed, latencies,
                 latency_index, mainAt>>

ProducerGoOn ==
  /\ prodAt = "enq"
  /\ \/ EnqWrite /\ UNCHANGED <<prodAt, produced>>
     \/ EnqStore /\ prodAt' = "check" /\ produced' = produced + 1
  /\ UNCHANGED <<now, running, consAt, consumed, latencies,
                 latency_index, mainAt>>

-----------------------------------------------------------------------------
ConsumerCheck ==
  /\ consAt = "check"
  /\ consAt' = IF running THEN "deq" ELSE "exited"
  /\ UNCHANGED <<queueVars, now, running, prodAt, counts, mainAt>>

ConsumerTry ==
  /\ consAt = "deq"
  /\ \/ DeqEmpty("deq") /\ consAt' = "check"
     \/ (DeqLoad("deq") \/ DeqRead) /\ UNCHANGED consAt
  /\ UNCHANGED <<now, running, prodAt, counts, mainAt>>

\* _deq returns true: the rest of the loop body is the consumer's own.
ConsumerTake ==
  /\ consAt = "deq"
  /\ DeqStore
  /\ consAt' = "check"
  /\ latency_index' = latency_index + 1
  /\ latencies' = IF latency_index < LATENCY_SAMPLE_MAX
                  THEN Append(latencies, now - consItem) ELSE latencies
  /\ consumed' = consumed + 1
  /\ UNCHANGED <<now, running, prodAt, produced, mainAt>>

-----------------------------------------------------------------------------
MainStop ==
  /\ mainAt = "sleep"
  /\ running' = FALSE /\ mainAt' = "join"
  /\ UNCHANGED <<queueVars, now, prodAt, consAt, counts>>

\* Faulty variant: the queue is freed after the first join.
MainFree_OneJoin ==
  /\ mainAt = "join" /\ prodAt = "exited"
  /\ mainAt' = "freed"
  /\ UNCHANGED <<queueVars, now, running, prodAt, consAt, counts>>

MainJoin ==
  /\ mainAt = "join"
  /\ prodAt = "exited" /\ consAt = "exited"
  /\ mainAt' = "print"
  /\ UNCHANGED <<queueVars, now, running, prodAt, consAt, counts>>

MainFree ==
  /\ mainAt = "print"
  /\ mainAt' = "freed"
  /\ UNCHANGED <<queueVars, now, running, prodAt, consAt, counts>>

Producer == ProducerCheck \/ ProducerTry \/ ProducerGoOn
Consumer == ConsumerCheck \/ ConsumerTry \/ ConsumerTake
Main     == MainStop \/ MainJoin \/ MainFree

BenchNext == ClockTick \/ Producer \/ Consumer \/ Main

(***************************************************************************)
(* The two threads have a core each, and main's sleep ends.  No fairness   *)
(* of the consumer's progress through a full queue is needed.              *)
(***************************************************************************)
BenchSpec ==
  BenchInit /\ [][BenchNext]_vars
    /\ WF_vars(Producer) /\ WF_vars(Consumer) /\ WF_vars(Main)

-----------------------------------------------------------------------------
(* print_latency_stats *)

count == IF latency_index > LATENCY_SAMPLE_MAX THEN LATENCY_SAMPLE_MAX
                                               ELSE latency_index

\* The positions, from 0, of p50, p99 and p999 in the sorted samples.
Percentiles == {(count * 50) \div 100, (count * 99) \div 100,
                (count * 999) \div 1000}

(***************************************************************************)
(* What the report calls loss is what was still in the queue: at every     *)
(* moment the items counted by the two threads differ by what is in the    *)
(* ring.                                                                   *)
(***************************************************************************)
CountsMatchRing == produced - consumed = Length(head, tail)

(***************************************************************************)
(* Every latency is a difference of two readings in the right order: the   *)
(* subtraction of unsigned numbers (spsc_bench.c:166) does not wrap, which *)
(* it would if a slot were read before it is written; the samples that are *)
(* sorted are exactly those that were stored, and the percentiles are      *)
(* among them.                                                             *)
(***************************************************************************)
SamplesAreSane ==
  /\ \A k \in 1..Len(latencies) : latencies[k] >= 0
  /\ Len(latencies) = count
  /\ count > 0 => \A p \in Percentiles : p \in 0..(count - 1)

(***************************************************************************)
(* The ring is freed only when neither thread can touch it any more        *)
(* (spsc_bench.c:234-257).                                                 *)
(***************************************************************************)
FreedAfterUse ==
  mainAt = "freed" => prodAt = "exited" /\ consAt = "exited"

(***************************************************************************)
(* What the benchmark reports is about the queue, and is taken from it     *)
(* before it is freed.                                                     *)
(***************************************************************************)
FiguresAreRight == CountsMatchRing /\ SamplesAreSane /\ FreedAfterUse

(***************************************************************************)
(* Clearing running ends the test, also when the queue is full or empty.   *)
(***************************************************************************)
BenchEnds == <>(mainAt = "freed")
=============================================================================
