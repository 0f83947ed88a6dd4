---------------------------- MODULE QueueProofs -----------------------------
(***************************************************************************)
(* Proofs about SpscQueue: its invariants, and that it implements          *)
(* BoundedFifo, for every capacity and every set of items; and about       *)
(* SpscBench, whose items are time stamps: what it reports, for every      *)
(* capacity, number of samples and length of the run.                      *)
(***************************************************************************)
EXTENDS SpscBench, DataProofs

(***************************************************************************)
(* The inductive invariant.  That answers stay good is what each step      *)
(* needs of the other thread.                                              *)
(***************************************************************************)
IInv == TypeOK /\ AnswersStayGood

LEMMA InitIInv == QueueInit => IInv
  BY RingAssumption DEF QueueInit, IInv, TypeOK, AnswersStayGood, Slots

LEMMA NextIInv == IInv /\ [QueueNext]_queueVars => IInv'
<1>. SUFFICES ASSUME IInv, [QueueNext]_queueVars PROVE IInv'
  OBVIOUS
<1>. USE DEF IInv, TypeOK, AnswersStayGood, prodVars, consVars, queueVars
<1>1. CASE EnqFull
  BY <1>1 DEF EnqFull, Full
<1>2. CASE EnqWrite
  BY <1>2 DEF EnqWrite, Full
<1>3. CASE EnqStore
  BY <1>3, SuccIs DEF EnqStore, Full
<1>4. ASSUME NEW item \in Items, EnqLoad(item) PROVE IInv'
  BY <1>4 DEF EnqLoad, Full
<1>5. ASSUME NEW op \in {"deq", "peek"}, DeqEmpty(op) PROVE IInv'
  BY <1>5 DEF DeqEmpty, Full
<1>6. ASSUME NEW op \in {"deq", "peek"}, DeqLoad(op) PROVE IInv'
  BY <1>6 DEF DeqLoad, Full
<1>7. CASE DeqRead
  BY <1>7 DEF DeqRead, Full
<1>8. CASE DeqStore
  BY SMTT(30), <1>8, SuccIs DEF DeqStore, Full, Slots
<1>9. CASE UNCHANGED queueVars
  BY <1>9 DEF Full
<1>. QED
  BY <1>1, <1>2, <1>3, <1>4, <1>5, <1>6, <1>7, <1>8, <1>9 DEF QueueNext

LEMMA AlwaysIInv == QueueSpec => []IInv
  BY InitIInv, NextIInv, PTL DEF QueueSpec

-----------------------------------------------------------------------------
(***************************************************************************)
(* The two indices stay in the ring, each thread at one of its steps.      *)
(***************************************************************************)
THEOREM TypeCorrect == QueueSpec => []TypeOK
<1>1. IInv => TypeOK
  BY DEF IInv
<1>. QED
  BY <1>1, AlwaysIInv, PTL

(***************************************************************************)
(* What _full and the test for emptiness said stays true until the         *)
(* operation is over.                                                      *)
(***************************************************************************)
THEOREM AnswersStay == QueueSpec => []AnswersStayGood
<1>1. IInv => AnswersStayGood
  BY DEF IInv
<1>. QED
  BY <1>1, AlwaysIInv, PTL

(***************************************************************************)
(* No slot is written and read at a time.                                  *)
(***************************************************************************)
THEOREM NoRace == QueueSpec => []NoDataRace
<1>1. IInv => NoDataRace
  BY DEF IInv, AnswersStayGood, NoDataRace
<1>. QED
  BY <1>1, AlwaysIInv, PTL

(***************************************************************************)
(* The queue of the two threads is a bounded queue.                        *)
(***************************************************************************)
LEMMA InitFifo == QueueInit => Fifo!FifoInit
<1>. SUFFICES ASSUME QueueInit PROVE Fifo!FifoInit
  OBVIOUS
<1>1. 0 \in Slots
  BY RingAssumption DEF Slots
<1>2. Length(head, tail) = 0
  BY <1>1, LengthIs DEF QueueInit
<1>3. Content(head, tail, buffer) = <<>>
  BY <1>1, <1>2, ContentSeq DEF QueueInit
<1>. QED
  BY <1>3 DEF QueueInit, Fifo!FifoInit

LEMMA WriteKeepsContent ==
  ASSUME IInv, EnqWrite
  PROVE  Content(head, tail, buffer)' = Content(head, tail, buffer)
<1>1. /\ head \in Slots /\ tail \in Slots /\ buffer \in [Slots -> Items]
      /\ prodItem \in Items
  BY DEF IInv, TypeOK
<1>. QED
  BY <1>1, ContentWrite DEF EnqWrite, consVars

LEMMA NextFifo ==
  IInv /\ [QueueNext]_queueVars => [Fifo!FifoNext]_(Fifo!fifoVars)
<1>. SUFFICES ASSUME IInv, [QueueNext]_queueVars
              PROVE  [Fifo!FifoNext]_(Fifo!fifoVars)
  OBVIOUS
<1>. DEFINE content == Content(head, tail, buffer)
<1>. USE DEF Fifo!FifoNext, Fifo!fifoVars
<1>0. head \in Slots /\ tail \in Slots /\ buffer \in [Slots -> Items]
      /\ prodItem \in Items
  BY DEF IInv, TypeOK
<1>1. CASE EnqFull
  BY <1>1 DEF EnqFull, queueVars, prodVars, consVars
<1>2. CASE EnqWrite
  <2>1. content' = content
    BY <1>2, WriteKeepsContent
  <2>. QED
    BY <1>2, <2>1 DEF EnqWrite, consVars
<1>3. CASE EnqStore
  <2>1. ~ Full(head, tail) /\ buffer[tail] = prodItem
    BY <1>3 DEF IInv, AnswersStayGood, EnqStore
  <2>2. /\ Len(content) < capacity - 1
        /\ content' = Append(content, prodItem)
    BY <1>0, <1>3, <2>1, ContentPut DEF EnqStore, Full, consVars
  <2>3. Fifo!Put(prodItem)
    BY <1>3, <2>2 DEF Fifo!Put, EnqStore, consVars
  <2>. QED
    BY <2>3
<1>4. ASSUME NEW item \in Items, EnqLoad(item)
      PROVE  [Fifo!FifoNext]_(Fifo!fifoVars)
  <2>1. Fifo!Offer(item)
    BY <1>4 DEF Fifo!Offer, EnqLoad, consVars
  <2>. QED
    BY <2>1
<1>5. ASSUME NEW op \in {"deq", "peek"}, DeqEmpty(op) \/ DeqLoad(op)
      PROVE  [Fifo!FifoNext]_(Fifo!fifoVars)
  BY <1>5 DEF DeqEmpty, DeqLoad, prodVars
<1>6. CASE DeqRead
  <2>1. content # <<>> /\ Head(content) = buffer[head]
    BY <1>0, <1>6, ContentGet DEF IInv, AnswersStayGood, DeqRead
  <2>2. Fifo!Peek
    BY <1>6, <2>1 DEF Fifo!Peek, DeqRead, prodVars
  <2>. QED
    BY <2>2
<1>7. CASE DeqStore
  <2>1. head # tail /\ consItem = buffer[head]
    BY <1>7 DEF IInv, AnswersStayGood, DeqStore
  <2>2. /\ content # <<>> /\ Head(content) = buffer[head]
        /\ content' = Tail(content)
    BY <1>0, <1>7, <2>1, ContentGet DEF DeqStore, prodVars
  <2>3. Fifo!Get
    BY <1>7, <2>1, <2>2 DEF Fifo!Get, DeqStore, prodVars
  <2>. QED
    BY <2>3
<1>8. CASE UNCHANGED queueVars
  BY <1>8 DEF queueVars, prodVars, consVars
<1>. QED
  BY <1>1, <1>2, <1>3, <1>4, <1>5, <1>6, <1>7, <1>8 DEF QueueNext

\* Read and written load by load and store by store, the ring is a bounded FIFO.
THEOREM ImplementsFifo == QueueSpec => FifoSpec
<1>. QED
  BY InitFifo, NextFifo, AlwaysIInv, PTL
     DEF QueueSpec, FifoSpec, Fifo!FifoSpec

-----------------------------------------------------------------------------
(* The benchmark.                                                          *)

BenchTypes ==
  /\ now \in Nat /\ now \in Items
  /\ produced \in Nat /\ consumed \in Nat /\ latency_index \in Nat
  /\ latencies \in Seq(Nat)

\* An item is put in after its time stamp is taken.
TimesPast ==
  /\ prodPc # "idle" => prodItem <= now
  /\ \A k \in 1..Len(Content(head, tail, buffer)) :
       Content(head, tail, buffer)[k] <= now

\* main has joined both threads.
Joined ==
  mainAt \in {"print", "freed"} => prodAt = "exited" /\ consAt = "exited"

BenchInv ==
  /\ IInv /\ BenchTypes /\ TimesPast /\ Joined
  /\ CountsMatchRing /\ Len(latencies) = count

-----------------------------------------------------------------------------
\* Each thread uses the queue as it may, with the time as an item.
LEMMA BenchIsQueue ==
  now \in Items /\ [BenchNext]_vars => [QueueNext]_queueVars
<1>. SUFFICES ASSUME now \in Items, [BenchNext]_vars PROVE [QueueNext]_queueVars
  OBVIOUS
<1>1. CASE ClockTick \/ Main \/ ProducerCheck \/ ConsumerCheck \/ UNCHANGED vars
  BY <1>1 DEF ClockTick, Main, MainStop, MainJoin, MainFree, ProducerCheck,
              ConsumerCheck, vars
<1>2. CASE ProducerTry \/ ProducerGoOn
  BY <1>2 DEF ProducerTry, ProducerGoOn, QueueNext
<1>3. CASE ConsumerTry \/ ConsumerTake
  BY <1>3 DEF ConsumerTry, ConsumerTake, QueueNext
<1>. QED
  BY <1>1, <1>2, <1>3 DEF BenchNext, Producer, Consumer

LEMMA RingTyped ==
  ASSUME Items = BenchTimes, IInv
  PROVE  /\ head \in Slots /\ tail \in Slots /\ buffer \in [Slots -> Items]
         /\ Items \subseteq Int /\ prodItem \in Items /\ consItem \in Items
         /\ Content(head, tail, buffer) \in Seq(Items)
         /\ Length(head, tail) = Len(Content(head, tail, buffer))
<1>1. head \in Slots /\ tail \in Slots /\ buffer \in [Slots -> Items]
      /\ prodItem \in Items /\ consItem \in Items
  BY DEF IInv, TypeOK
<1>. QED
  BY <1>1, ContentSeq, BenchAssumption DEF BenchTimes

\* Steps that neither publish an index nor write a slot.
LEMMA RingKept ==
  ASSUME Items = BenchTimes, BenchInv, now \in Items, IInv', [BenchNext]_vars,
         UNCHANGED <<head, tail, buffer, produced, consumed, latencies, latency_index>>,
         BenchTypes', now' >= now, Joined',
         prodPc' # "idle" => prodItem' <= now
  PROVE  BenchInv'
<1>1. CountsMatchRing' /\ (Len(latencies) = count)'
  BY DEF BenchInv, CountsMatchRing, count
<1>2. TimesPast'
  <2>1. prodPc' # "idle" => prodItem' <= now'
    BY RingTyped DEF BenchInv, BenchTypes, IInv, TypeOK
  <2>2. ASSUME NEW k \in 1..Len(Content(head, tail, buffer))
        PROVE  Content(head, tail, buffer)[k] <= now'
    <3>1. Content(head, tail, buffer)[k] \in Int /\ Content(head, tail, buffer)[k] <= now
      BY RingTyped DEF BenchInv, TimesPast
    <3>. QED
      BY <3>1 DEF BenchTypes
  <2>. QED
    BY <2>1, <2>2 DEF TimesPast
<1>. QED
  BY <1>1, <1>2 DEF BenchInv

\* Neither thread touches the ring, or only to look at an index.
LEMMA QuietBench ==
  ASSUME Items = BenchTimes, BenchInv, IInv',
         ClockTick \/ Main \/ ProducerCheck \/ ConsumerCheck \/ ProducerTry
           \/ ConsumerTry \/ UNCHANGED vars
  PROVE  BenchInv'
<1>0. [BenchNext]_vars
  BY DEF BenchNext, Producer, Consumer
<1>1. now \in Items /\ now \in Nat /\ prodItem \in Int
      /\ (prodPc # "idle" => prodItem <= now) /\ BenchTypes
  BY RingTyped DEF BenchInv, BenchTypes, TimesPast
<1>2. CASE ClockTick
  <2>1. /\ now' = now + 1 /\ now < MaxTime
        /\ UNCHANGED <<queueVars, running, prodAt, consAt, counts, mainAt>>
    BY <1>2 DEF ClockTick
  <2>2. BenchTypes'
    BY <1>1, <2>1, BenchAssumption DEF BenchTypes, BenchTimes, counts
  <2>3. Joined'
    BY <2>1 DEF BenchInv, Joined
  <2>. QED
    BY <1>0, <1>1, <2>1, <2>2, <2>3, RingKept DEF queueVars, prodVars, consVars, counts
<1>3. CASE Main
  <2>1. UNCHANGED <<queueVars, now, counts>> /\ Joined'
    BY <1>3 DEF Main, MainStop, MainJoin, MainFree, BenchInv, Joined
  <2>. QED
    BY <1>0, <1>1, <2>1, RingKept DEF queueVars, prodVars, consVars, counts, BenchTypes
<1>4. CASE ProducerCheck \/ ConsumerCheck
  <2>1. UNCHANGED <<queueVars, now, counts>> /\ Joined'
    BY <1>4 DEF ProducerCheck, ConsumerCheck, BenchInv, Joined
  <2>. QED
    BY <1>0, <1>1, <2>1, RingKept DEF queueVars, prodVars, consVars, counts, BenchTypes
<1>5. CASE ProducerTry
  <2>1. /\ prodAt = "enq" /\ UNCHANGED <<now, consAt, counts, mainAt>>
        /\ UNCHANGED <<head, tail, buffer>>
        /\ prodPc' # "idle" => prodItem' = now
    BY <1>5 DEF ProducerTry, EnqFull, EnqLoad, queueVars, prodVars, consVars, counts
  <2>2. Joined'
    BY <2>1 DEF BenchInv, Joined
  <2>. QED
    BY <1>0, <1>1, <2>1, <2>2, RingKept DEF counts, BenchTypes
<1>6. CASE ConsumerTry
  <2>1. /\ consAt = "deq" /\ UNCHANGED <<now, prodAt, counts, mainAt, prodVars, head>>
    BY <1>6 DEF ConsumerTry, DeqEmpty, DeqLoad, DeqRead
  <2>2. Joined'
    BY <2>1 DEF BenchInv, Joined
  <2>. QED
    BY <1>0, <1>1, <2>1, <2>2, RingKept DEF prodVars, counts, BenchTypes
<1>7. CASE UNCHANGED vars
  <2>1. UNCHANGED <<queueVars, now, counts>> /\ Joined'
    BY <1>7 DEF vars, BenchInv, Joined
  <2>. QED
    BY <1>0, <1>1, <2>1, RingKept DEF queueVars, prodVars, consVars, counts, BenchTypes
<1>. QED
  BY <1>2, <1>3, <1>4, <1>5, <1>6, <1>7

LEMMA WriteBench ==
  ASSUME Items = BenchTimes, BenchInv, IInv', ProducerGoOn
  PROVE  BenchInv'
<1>1. BenchTypes /\ TimesPast /\ IInv
  BY DEF BenchInv
<1>2. CASE EnqWrite
  <2>1. /\ prodPc = "write" /\ buffer' = [buffer EXCEPT ![tail] = prodItem]
        /\ UNCHANGED <<head, tail, prodItem, now, counts, mainAt, consAt>>
        /\ prodAt = "enq"
    BY <1>2 DEF ProducerGoOn, EnqWrite, EnqStore, counts, consVars
  <2>2. Content(head, tail, buffer)' = Content(head, tail, buffer)
    BY <1>1, <1>2, WriteKeepsContent
  <2>3. TimesPast'
    BY <1>1, <2>1, <2>2 DEF TimesPast
  <2>4. BenchTypes' /\ Joined' /\ CountsMatchRing' /\ (Len(latencies) = count)'
    BY <1>1, <2>1 DEF BenchInv, BenchTypes, Joined, CountsMatchRing, count, counts
  <2>. QED
    BY <2>3, <2>4 DEF BenchInv
<1>3. CASE EnqStore
  <2>1. /\ prodPc = "store" /\ tail' = Succ(tail) /\ prodPc' = "idle"
        /\ produced' = produced + 1 /\ prodAt = "enq"
        /\ UNCHANGED <<buffer, head, now, consumed, latencies, latency_index, mainAt,
                       consAt>>
    BY <1>3 DEF ProducerGoOn, EnqWrite, EnqStore, consVars
  <2>2. Succ(tail) # head /\ buffer[tail] = prodItem
    BY <1>1, <2>1 DEF IInv, AnswersStayGood, Full
  <2>3. /\ Content(head, tail', buffer) = Append(Content(head, tail, buffer), prodItem)
        /\ Length(head, tail') = Length(head, tail) + 1
    BY <1>1, <2>1, <2>2, RingTyped, ContentPut, LengthPut
  <2>4. TimesPast'
    <3>. DEFINE c == Content(head, tail, buffer)
    <3>1. c \in Seq(Items) /\ prodItem \in Items /\ prodItem <= now
      BY <1>1, <2>1, RingTyped DEF TimesPast
    <3>2. \A k \in 1..Len(c) : c[k] <= now
      BY <1>1 DEF TimesPast
    <3>. HIDE DEF c
    <3>3. \A k \in 1..Len(Append(c, prodItem)) : Append(c, prodItem)[k] <= now
      BY <3>1, <3>2
    <3>. QED
      BY <2>1, <2>3, <3>3 DEF TimesPast, c
  <2>5. Length(head, tail) \in Nat
    BY <1>1, RingTyped, LengthNat
  <2>6. CountsMatchRing'
    BY <1>1, <2>1, <2>3, <2>5 DEF BenchInv, CountsMatchRing, BenchTypes
  <2>7. BenchTypes' /\ Joined' /\ (Len(latencies) = count)'
    BY <1>1, <2>1 DEF BenchInv, BenchTypes, Joined, count
  <2>. QED
    BY <2>4, <2>6, <2>7 DEF BenchInv
<1>. QED
  BY <1>2, <1>3 DEF ProducerGoOn

\* The sample is the time since the item was stamped.
LEMMA TakeBench ==
  ASSUME Items = BenchTimes, BenchInv, IInv', ConsumerTake
  PROVE  BenchInv'
<1>. DEFINE c == Content(head, tail, buffer)
<1>1. BenchTypes /\ TimesPast /\ IInv
  BY DEF BenchInv
<1>2. /\ consPc = "store" /\ head' = Succ(head) /\ consAt = "deq"
      /\ latency_index' = latency_index + 1 /\ consumed' = consumed + 1
      /\ latencies' = IF latency_index < LATENCY_SAMPLE_MAX
                      THEN Append(latencies, now - consItem) ELSE latencies
      /\ UNCHANGED <<prodPc, prodItem, tail, buffer, now, produced, mainAt, prodAt>>
  BY DEF ConsumerTake, DeqStore, prodVars
<1>3. head # tail /\ consItem = buffer[head]
  BY <1>1, <1>2 DEF IInv, AnswersStayGood
<1>4. /\ c # <<>> /\ Head(c) = consItem /\ Content(head', tail, buffer) = Tail(c)
      /\ Length(head', tail) = Length(head, tail) - 1
  BY <1>1, <1>2, <1>3, RingTyped, ContentGet, LengthGet
<1>5. c \in Seq(Items) /\ \A k \in 1..Len(c) : c[k] <= now
  BY <1>1, RingTyped DEF TimesPast
<1>. HIDE DEF c
<1>6. consItem <= now /\ \A k \in 1..Len(Tail(c)) : Tail(c)[k] <= now
  BY <1>4, <1>5
<1>7. TimesPast'
  BY <1>1, <1>2, <1>4, <1>6 DEF TimesPast
<1>8. now - consItem \in Nat
  <2>1. consItem \in Int /\ now \in Int
    BY <1>1, RingTyped DEF IInv, TypeOK, BenchTypes
  <2>. QED
    BY <1>6, <2>1
<1>9. BenchTypes' /\ (Len(latencies) = count)'
  BY <1>1, <1>2, <1>8, BenchAssumption DEF BenchInv, BenchTypes, count
<1>10. CountsMatchRing'
  <2>1. Length(head, tail) \in Nat
    BY <1>1, RingTyped, LengthNat
  <2>. QED
    BY <1>1, <1>2, <1>4, <2>1 DEF BenchInv, CountsMatchRing, BenchTypes
<1>11. Joined'
  BY <1>2 DEF BenchInv, Joined
<1>. QED
  BY <1>7, <1>9, <1>10, <1>11 DEF BenchInv

LEMMA BenchStep ==
  ASSUME Items = BenchTimes
  PROVE  BenchInv /\ [BenchNext]_vars => BenchInv'
<1>. SUFFICES ASSUME BenchInv, [BenchNext]_vars PROVE BenchInv'
  OBVIOUS
<1>1. IInv'
  BY BenchIsQueue, NextIInv DEF BenchInv, BenchTypes
<1>. QED
  BY <1>1, QuietBench, WriteBench, TakeBench DEF BenchNext, Producer, Consumer

LEMMA BenchStart ==
  ASSUME Items = BenchTimes
  PROVE  BenchInit => BenchInv
<1>. SUFFICES ASSUME BenchInit PROVE BenchInv
  OBVIOUS
<1>1. IInv /\ head = 0 /\ tail = 0 /\ 0 \in Slots /\ prodItem = 0 /\ prodPc = "idle"
  BY InitIInv, RingAssumption DEF BenchInit, QueueInit, Slots
<1>2. Length(head, tail) = 0
  BY <1>1, LengthIs
<1>3. TimesPast
  BY <1>1, <1>2, RingTyped DEF TimesPast
<1>4. BenchTypes /\ Joined /\ CountsMatchRing /\ Len(latencies) = count
  BY <1>1, <1>2, BenchAssumption
     DEF BenchInit, BenchTypes, Joined, CountsMatchRing, count, IInv, TypeOK
<1>. QED
  BY <1>1, <1>3, <1>4 DEF BenchInv

(***************************************************************************)
(* The inductive invariant: that of the queue, that what is in the ring    *)
(* was stamped in the past, and the counts.                                *)
(***************************************************************************)
THEOREM BenchInvariant ==
  ASSUME Items = BenchTimes
  PROVE  BenchSpec => []BenchInv
<1>. QED
  BY BenchStart, BenchStep, PTL DEF BenchSpec

(***************************************************************************)
(* The benchmark uses the queue as a queue between two threads is to be    *)
(* used, so what is proved of the queue holds in it.                       *)
(***************************************************************************)
THEOREM BenchUsesQueue ==
  ASSUME Items = BenchTimes
  PROVE  BenchSpec => QueueSpec
<1>1. BenchInit => QueueInit
  BY DEF BenchInit
<1>2. BenchInv => now \in Items
  BY DEF BenchInv, BenchTypes
<1>. QED
  BY <1>1, <1>2, BenchInvariant, BenchIsQueue, PTL DEF BenchSpec, QueueSpec

(***************************************************************************)
(* The loss that is reported is what was left in the queue, no latency     *)
(* wraps, the percentiles are among the samples, and the ring is freed     *)
(* after both threads have left it.                                        *)
(***************************************************************************)
THEOREM ReportIsRight ==
  ASSUME Items = BenchTimes
  PROVE  BenchSpec => []FiguresAreRight
<1>1. BenchInv => FiguresAreRight
  <2>. SUFFICES ASSUME BenchInv PROVE FiguresAreRight
    OBVIOUS
  <2>1. count \in Nat
    BY BenchAssumption DEF BenchInv, BenchTypes, count
  <2>2. count > 0 => \A p \in Percentiles : p \in 0..(count - 1)
    <3>. SUFFICES ASSUME NEW n \in Nat, n > 0
                  PROVE  /\ (n * 50) \div 100 \in 0..(n - 1)
                         /\ (n * 99) \div 100 \in 0..(n - 1)
                         /\ (n * 999) \div 1000 \in 0..(n - 1)
      BY <2>1 DEF Percentiles
    <3>. QED
      BY SMT
  <2>3. \A k \in 1..Len(latencies) : latencies[k] >= 0
    BY DEF BenchInv, BenchTypes
  <2>. QED
    BY <2>2, <2>3 DEF BenchInv, FiguresAreRight, SamplesAreSane, FreedAfterUse, Joined
<1>. QED
  BY <1>1, BenchInvariant, PTL
=============================================================================
