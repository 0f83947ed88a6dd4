----------------------------- MODULE PartsProofs -----------------------------
(***************************************************************************)
(* The parts that run on their own, for every value of their constants:    *)
(* the rings with a single user; the converter and the analyzer of logs;   *)
(* the real executor; the runner by the clock; both hashes; the generator  *)
(* of workloads.  In the end the properties of each are stated of Parts.   *)
(***************************************************************************)
EXTENDS Parts, DataProofs, SequenceTheorems

(***************************************************************************)
(* The ring with a single user, for every capacity and set of items: it    *)
(* implements BoundedFifo, and the scheduler's walk over its raw indices   *)
(* sees what is in it.                                                     *)
(***************************************************************************)
Inv ==
  /\ head \in Slots /\ tail \in Slots
  /\ buffer \in [Slots -> Items]
  /\ arg \in Items /\ item \in Items

LEMMA InitInv == StInit => Inv
  BY RingAssumption DEF StInit, Inv, Slots

LEMMA NextInv == Inv /\ [StNext]_stVars => Inv'
<1>. SUFFICES ASSUME Inv, [StNext]_stVars PROVE Inv'
  OBVIOUS
<1>. USE DEF Inv
<1>1. CASE peek
  BY <1>1 DEF peek
<1>2. CASE deq
  BY <1>2, SuccIs DEF deq
<1>3. ASSUME NEW i \in Items, enq(i) PROVE Inv'
  BY <1>3, SuccIs DEF enq
<1>4. CASE UNCHANGED stVars
  BY <1>4 DEF stVars
<1>. QED
  BY <1>1, <1>2, <1>3, <1>4 DEF StNext

LEMMA AlwaysInv == StSpec => []Inv
  BY InitInv, NextInv, PTL DEF StSpec

-----------------------------------------------------------------------------
LEMMA InitFifo == StInit => Fifo!FifoInit
<1>. SUFFICES ASSUME StInit PROVE Fifo!FifoInit
  OBVIOUS
<1>1. 0 \in Slots
  BY RingAssumption DEF Slots
<1>2. Length(head, tail) = 0
  BY <1>1, LengthIs DEF StInit
<1>3. Content(head, tail, buffer) = <<>>
  BY <1>1, <1>2, ContentSeq DEF StInit
<1>. QED
  BY <1>3 DEF StInit, Fifo!FifoInit

LEMMA NextFifo == Inv /\ [StNext]_stVars => [Fifo!FifoNext]_(Fifo!fifoVars)
<1>. SUFFICES ASSUME Inv, [StNext]_stVars
              PROVE  [Fifo!FifoNext]_(Fifo!fifoVars)
  OBVIOUS
<1>. DEFINE content == Content(head, tail, buffer)
<1>. USE DEF Inv, Fifo!FifoNext, Fifo!fifoVars
<1>1. ASSUME NEW i \in Items, enq(i) PROVE [Fifo!FifoNext]_(Fifo!fifoVars)
  <2>1. CASE Succ(tail) = head
    <3>1. Fifo!Offer(i)
      BY <1>1, <2>1 DEF enq, Fifo!Offer
    <3>. QED
      BY <3>1
  <2>2. CASE Succ(tail) # head
    <3>. DEFINE written == [buffer EXCEPT ![tail] = i]
    <3>1. /\ written \in [Slots -> Items] /\ written[tail] = i
          /\ Content(head, tail, written) = content
      BY ZenonT(30), ContentWrite
    <3>. HIDE DEF written
    <3>2. /\ Len(content) < capacity - 1
          /\ Content(head, Succ(tail), written) = Append(content, i)
      BY <2>2, <3>1, ContentPut
    <3>3. content' = Content(head, Succ(tail), written)
      BY <1>1, <2>2 DEF enq, written
    <3>4. Fifo!Put(i)
      BY <1>1, <3>2, <3>3 DEF enq, Fifo!Put
    <3>. QED
      BY <3>4
  <2>. QED
    BY <2>1, <2>2
<1>2. CASE peek
  <2>1. CASE head = tail
    BY <1>2, <2>1 DEF peek
  <2>2. CASE head # tail
    <3>1. content # <<>> /\ Head(content) = buffer[head]
      BY <2>2, ContentGet
    <3>2. Fifo!Peek
      BY <1>2, <2>2, <3>1 DEF peek, Fifo!Peek
    <3>. QED
      BY <3>2
  <2>. QED
    BY <2>1, <2>2
<1>3. CASE deq
  <2>1. CASE head = tail
    BY <1>3, <2>1 DEF deq
  <2>2. CASE head # tail
    <3>1. /\ content # <<>> /\ Head(content) = buffer[head]
          /\ Content(Succ(head), tail, buffer) = Tail(content)
      BY <2>2, ContentGet
    <3>2. content' = Content(Succ(head), tail, buffer)
      BY <1>3, <2>2 DEF deq
    <3>3. Fifo!Get
      BY <1>3, <2>2, <3>1, <3>2 DEF deq, Fifo!Get
    <3>. QED
      BY <3>3
  <2>. QED
    BY <2>1, <2>2
<1>4. CASE UNCHANGED stVars
  BY <1>4 DEF stVars
<1>. QED
  BY <1>1, <1>2, <1>3, <1>4 DEF StNext

(***************************************************************************)
(* Whatever is enqueued comes out once and in order, and a full or empty   *)
(* queue refuses without a trace.                                          *)
(***************************************************************************)
THEOREM StImplementsFifo == StSpec => FifoSpec
<1>. QED
  BY InitFifo, NextFifo, AlwaysInv, PTL DEF StSpec, FifoSpec, Fifo!FifoSpec

-----------------------------------------------------------------------------
(***************************************************************************)
(* The walk over the raw indices.  It is a recursive function, which TLA+  *)
(* defines as some function that satisfies its equation: there is one, as  *)
(* WalkExists shows by giving its values, and it is the only one, which    *)
(* takes an induction.                                                     *)
(***************************************************************************)
Steps(f, h) ==
  f = [n \in 0..capacity |-> IF n = 0 THEN h ELSE Succ(f[n - 1])]

\* n slots after h, without the remainder.
Ahead(h, n) == IF h + n < capacity THEN h + n ELSE h + n - capacity

LEMMA WalkExists ==
  ASSUME NEW h \in Slots
  PROVE  Steps([n \in 0..capacity |-> Ahead(h, n)], h)
<1>. DEFINE f == [n \in 0..capacity |-> Ahead(h, n)]
<1>1. ASSUME NEW n \in 0..capacity
      PROVE  f[n] = IF n = 0 THEN h ELSE Succ(f[n - 1])
  <2>1. CASE n = 0
    BY <2>1, RingAssumption DEF Ahead, Slots
  <2>2. CASE n # 0
    <3>1. n - 1 \in 0..capacity /\ Ahead(h, n - 1) \in Slots
      BY <2>2, RingAssumption DEF Ahead, Slots
    <3>2. Succ(Ahead(h, n - 1)) = IF Ahead(h, n - 1) = capacity - 1 THEN 0
                                  ELSE Ahead(h, n - 1) + 1
      BY <3>1, SuccIs
    <3>3. Succ(Ahead(h, n - 1)) = Ahead(h, n)
      BY <2>2, <3>2, RingAssumption DEF Ahead, Slots
    <3>. QED
      BY <2>2, <3>1, <3>3
  <2>. QED
    BY <2>1, <2>2
<1>. QED
  BY <1>1 DEF Steps

LEMMA WalkUnique ==
  ASSUME NEW h, NEW f, NEW g, Steps(f, h), Steps(g, h)
  PROVE  f = g
<1>. DEFINE S == {n \in Nat : n <= capacity => f[n] = g[n]}
<1>1. 0 \in S
  BY RingAssumption DEF Steps
<1>2. ASSUME NEW n \in Nat, n \in S PROVE n + 1 \in S
  <2>. SUFFICES ASSUME n + 1 <= capacity PROVE f[n + 1] = g[n + 1]
    OBVIOUS
  <2>1. n + 1 \in 0..capacity /\ n + 1 # 0 /\ (n + 1) - 1 = n /\ f[n] = g[n]
    BY <1>2, RingAssumption
  <2>2. ASSUME NEW e, Steps(e, h) PROVE e[n + 1] = Succ(e[n])
    BY <2>1, <2>2 DEF Steps
  <2>. QED
    BY <2>1, <2>2
<1>. HIDE DEF S
<1>3. \A n \in 0..capacity : f[n] = g[n]
  <2>1. \A n \in Nat : n \in S
    BY <1>1, <1>2, ByInduction
  <2>. QED
    BY <2>1, RingAssumption DEF S
<1>4. f = [n \in 0..capacity |-> f[n]] /\ g = [n \in 0..capacity |-> g[n]]
  BY DEF Steps
<1>. QED
  BY <1>3, <1>4

\* The walk meets tail after as many steps as there are items, not before.
LEMMA WalkStops ==
  ASSUME NEW h \in Slots, NEW t \in Slots
  PROVE  /\ Length(h, t) \in 0..capacity /\ Ahead(h, Length(h, t)) = t
         /\ \A k \in 0..(Length(h, t) - 1) : Ahead(h, k) # t
         /\ \A k \in 1..Length(h, t) : Ahead(h, k - 1) = Slot(h, k)
<1>1. /\ Length(h, t) \in Slots
      /\ Length(h, t) = IF t >= h THEN t - h ELSE t - h + capacity
  BY LengthIs
<1>2. \A k \in 1..Length(h, t) : Ahead(h, k - 1) = Slot(h, k)
  <2>. SUFFICES ASSUME NEW k \in 1..Length(h, t) PROVE Ahead(h, k - 1) = Slot(h, k)
    OBVIOUS
  <2>1. k \in 1..capacity
    BY <1>1, RingAssumption DEF Slots
  <2>. QED
    BY <2>1, SlotIs, RingAssumption DEF Ahead, Slots
<1>. QED
  BY <1>1, <1>2, RingAssumption DEF Ahead, Slots

LEMMA WalkIsContent ==
  ASSUME NEW h \in Slots, NEW t \in Slots
  PROVE  Walk(h, t) = Content(h, t, buffer)
<1>. DEFINE after == CHOOSE f : Steps(f, h)
            least(n) == after[n] = t /\ \A k \in 0..(n - 1) : after[k] # t
            stop == CHOOSE n \in 0..capacity : least(n)
<1>1. Walk(h, t) = [k \in 1..stop |-> buffer[after[k - 1]]]
  BY DEF Walk, Steps
<1>2. after = [n \in 0..capacity |-> Ahead(h, n)]
  <2>1. Steps(after, h)
    BY WalkExists
  <2>. QED
    BY <2>1, WalkExists, WalkUnique
<1>. HIDE DEF after
<1>3. Length(h, t) \in 0..capacity /\ Length(h, t) \in Nat
  BY WalkStops
<1>4. \A n \in 0..capacity : least(n) <=> n = Length(h, t)
  <2>. SUFFICES ASSUME NEW n \in 0..capacity PROVE least(n) <=> n = Length(h, t)
    OBVIOUS
  <2>1. after[n] = Ahead(h, n) /\ \A k \in 0..(n - 1) : after[k] = Ahead(h, k)
    BY <1>2, RingAssumption
  <2>2. CASE n < Length(h, t)
    BY <1>3, <2>1, <2>2, WalkStops
  <2>3. CASE n = Length(h, t)
    BY <1>3, <2>1, <2>3, WalkStops
  <2>4. CASE n > Length(h, t)
    <3>1. Length(h, t) \in 0..(n - 1)
      BY <1>3, <2>4
    <3>. QED
      BY <2>1, <2>4, <3>1, WalkStops
  <2>. QED
    BY <1>3, <2>2, <2>3, <2>4
<1>5. stop = Length(h, t)
  BY <1>3, <1>4
<1>. HIDE DEF stop
<1>6. \A k \in 1..Length(h, t) : after[k - 1] = Slot(h, k)
  BY <1>2, <1>3, WalkStops, RingAssumption
<1>. QED
  BY <1>1, <1>5, <1>6 DEF Content

LEMMA WalkFollows == Inv => WalkSeesAll
<1>. SUFFICES ASSUME Inv PROVE WalkSeesAll
  OBVIOUS
<1>1. head \in Slots /\ tail \in Slots /\ buffer \in [Slots -> Items]
  BY DEF Inv
<1>2. /\ Walk(head, tail) = Content(head, tail, buffer)
      /\ Length(head, tail) = Len(Walk(head, tail))
  BY <1>1, WalkIsContent, ContentSeq
<1>3. /\ Length(head, tail) = IF tail >= head THEN tail - head
                                              ELSE tail - head + capacity
      /\ Succ(tail) = IF tail = capacity - 1 THEN 0 ELSE tail + 1
  BY <1>1, LengthIs, SuccIs
<1>4. /\ full(head, tail) <=> Length(head, tail) = capacity - 1
      /\ empty(head, tail) <=> Length(head, tail) = 0
  BY <1>1, <1>3, RingAssumption DEF full, empty, Slots
<1>. QED
  BY <1>2, <1>4 DEF WalkSeesAll

(***************************************************************************)
(* The conflict check of the software scheduler compares with exactly the  *)
(* active transactions of a puppet, for every capacity and wherever in the *)
(* ring they lie, and the tests for full and empty are right.              *)
(***************************************************************************)
THEOREM WalkIsRight == StSpec => []WalkSeesAll
BY AlwaysInv, WalkFollows, PTL

-----------------------------------------------------------------------------
(***************************************************************************)
(* The FIFO of active transactions shows its contents rightly.  The        *)
(* inductive invariant is that what is inside is what lies between the     *)
(* indices; a cycle with both enq and deq is taken apart into giving up    *)
(* the head and storing at the tail.                                       *)
(***************************************************************************)
LEMMA SameRing ==
  Visible!Slots = Slots /\ \A i : Visible!Succ(i) = Succ(i)
BY DEF Visible!Slots, Visible!Succ, Slots, Succ

ShownType == head \in Slots /\ tail \in Slots /\ buffer \in [Slots -> Items]
ShownInv == ShownType /\ inside = Content(head, tail, buffer)

(***************************************************************************)
(* What a slot given up holds is no part of what is left.                  *)
(***************************************************************************)
LEMMA ContentDrop ==
  ASSUME NEW h \in Slots, NEW t \in Slots, NEW b \in [Slots -> Items],
         NEW x \in Items, h # t
  PROVE  Content(Succ(h), t, [b EXCEPT ![h] = x]) = Tail(Content(h, t, b))
<1>1. Succ(h) \in Slots
  BY SuccIs
<1>2. \A k \in 1..Length(Succ(h), t) :
        Slot(Succ(h), k) \in Slots /\ Slot(Succ(h), k) # h
  <2>. SUFFICES ASSUME NEW k \in 1..Length(Succ(h), t)
                PROVE  Slot(Succ(h), k) \in Slots /\ Slot(Succ(h), k) # h
    OBVIOUS
  <2>1. Length(h, t) \in Nat /\ Length(h, t) < capacity
        /\ Length(Succ(h), t) = Length(h, t) - 1
    BY LengthNat, LengthGet
  <2>2. k \in 1..(capacity - 2)
    BY <2>1, RingAssumption
  <2>3. /\ Slot(Succ(h), k) \in Slots
        /\ Slot(Succ(h), k) = IF Succ(h) + k - 1 < capacity
                              THEN Succ(h) + k - 1
                              ELSE Succ(h) + k - 1 - capacity
    BY <1>1, <2>2, SlotIs, RingAssumption
  <2>4. Succ(h) = IF h = capacity - 1 THEN 0 ELSE h + 1
    BY SuccIs
  <2>. QED
    BY <2>2, <2>3, <2>4, RingAssumption DEF Slots
<1>3. Content(Succ(h), t, [b EXCEPT ![h] = x]) = Content(Succ(h), t, b)
  BY <1>2 DEF Content
<1>. QED
  BY <1>3, ContentGet

-----------------------------------------------------------------------------
LEMMA ShownInit == Visible!VisibleInit => ShownInv
<1>. SUFFICES ASSUME Visible!VisibleInit PROVE ShownInv
  OBVIOUS
<1>1. 0 \in Slots
  BY RingAssumption DEF Slots
<1>2. Length(head, tail) = 0
  BY <1>1, LengthIs DEF Visible!VisibleInit
<1>3. Content(head, tail, buffer) = <<>>
  BY <1>1, <1>2, SameRing, ContentSeq DEF Visible!VisibleInit
<1>. QED
  BY <1>1, <1>3, SameRing DEF Visible!VisibleInit, ShownInv, ShownType

(***************************************************************************)
(* Both halves of a cycle: what deq leaves (taken), and what enq makes of  *)
(* it (given).                                                             *)
(***************************************************************************)
LEMMA ShownCycle ==
  ASSUME ShownInv, NEW given \in {<<>>} \cup {<<i>> : i \in Items},
         NEW taken \in BOOLEAN, Visible!Cycle(given, taken)
  PROVE  ShownInv'
<1>. USE DEF ShownInv, ShownType
<1>. PICK unknown \in Items :
       buffer' = LET cleared == IF taken THEN [buffer EXCEPT ![head] = unknown]
                                       ELSE buffer
                 IN  IF given = <<>> THEN cleared
                                   ELSE [cleared EXCEPT ![tail] = Head(given)]
  BY DEF Visible!Cycle, Visible!canonicalize
<1>. DEFINE cleared == IF taken THEN [buffer EXCEPT ![head] = unknown] ELSE buffer
            kept == IF taken THEN Tail(inside) ELSE inside
<1>1. /\ head' = IF taken THEN Succ(head) ELSE head
      /\ tail' = IF given # <<>> THEN Succ(tail) ELSE tail
      /\ buffer' = IF given = <<>> THEN cleared
                                 ELSE [cleared EXCEPT ![tail] = Head(given)]
      /\ inside' = kept \o given
  BY SameRing DEF Visible!Cycle, Visible!canonicalize
<1>2. /\ head' \in Slots /\ cleared \in [Slots -> Items]
      /\ kept = Content(head', tail, cleared)
  <2>1. CASE taken
    <3>1. head # tail
      BY <2>1 DEF Visible!Cycle, Visible!notEmpty
    <3>2. Content(Succ(head), tail, [buffer EXCEPT ![head] = unknown]) =
            Tail(Content(head, tail, buffer))
      BY <3>1, ContentDrop
    <3>3. head' = Succ(head) /\ Succ(head) \in Slots
      BY <1>1, <2>1, SuccIs
    <3>. QED
      BY <2>1, <3>2, <3>3
  <2>2. CASE ~ taken
    BY <1>1, <2>2
  <2>. QED
    BY <2>1, <2>2
<1>. HIDE DEF cleared, kept
<1>3. kept \in Seq(Items)
  BY <1>2, ContentSeq
<1>4. CASE given = <<>>
  <2>1. head' \in Slots /\ tail' = tail /\ buffer' = cleared /\ inside' = kept
    BY <1>1, <1>2, <1>3, <1>4
  <2>. QED
    BY <1>2, <2>1
<1>5. ASSUME NEW i \in Items, given = <<i>> PROVE ShownInv'
  <2>. DEFINE written == [cleared EXCEPT ![tail] = i]
  <2>1. Succ(tail) # head
    BY <1>5, SameRing DEF Visible!Cycle, Visible!notFull
  <2>2. Succ(tail) # head'
    <3>1. CASE taken
      <4>1. head # tail
        BY <3>1 DEF Visible!Cycle, Visible!notEmpty
      <4>2. /\ Succ(tail) = IF tail = capacity - 1 THEN 0 ELSE tail + 1
            /\ Succ(head) = IF head = capacity - 1 THEN 0 ELSE head + 1
        BY SuccIs
      <4>. QED
        BY <1>1, <3>1, <4>1, <4>2, RingAssumption DEF Slots
    <3>2. CASE ~ taken
      BY <1>1, <2>1, <3>2
    <3>. QED
      BY <3>1, <3>2
  <2>3. /\ written \in [Slots -> Items] /\ written[tail] = i
        /\ Content(head', tail, written) = kept
    <3>1. written \in [Slots -> Items] /\ written[tail] = i
      BY <1>2
    <3>2. Content(head', tail, written) = Content(head', tail, cleared)
      <4>. HIDE DEF ShownInv, ShownType
      <4>1. tail \in Slots
        BY DEF ShownInv, ShownType
      <4>2. ASSUME NEW h \in Slots, NEW b \in [Slots -> Items]
            PROVE  Content(h, tail, [b EXCEPT ![tail] = i]) = Content(h, tail, b)
        BY <4>1, ContentWrite
      <4>. QED
        BY <1>2, <4>2
    <3>. QED
      BY <1>2, <3>1, <3>2
  <2>4. buffer' = written /\ tail' = Succ(tail) /\ inside' = Append(kept, i)
    <3>1. given # <<>> /\ Head(given) = i /\ kept \o given = Append(kept, i)
      BY <1>3, <1>5
    <3>. QED
      BY <1>1, <3>1
  <2>. HIDE DEF written
  <2>5. Content(head', Succ(tail), written) = Append(kept, i)
    BY <1>2, <2>2, <2>3, ContentPut
  <2>. QED
    BY <1>2, <2>3, <2>4, <2>5, SuccIs
<1>. QED
  BY <1>4, <1>5

LEMMA ShownNext == ShownInv /\ [Visible!VisibleNext]_(Visible!visibleVars) => ShownInv'
<1>1. ShownInv /\ UNCHANGED Visible!visibleVars => ShownInv'
  BY DEF ShownInv, ShownType, Visible!visibleVars
<1>. QED
  BY <1>1, ShownCycle DEF Visible!VisibleNext

LEMMA ShownIsRight == ShownInv => Visible!ShowsInside
<1>. SUFFICES ASSUME ShownInv PROVE Visible!ShowsInside
  OBVIOUS
<1>. USE DEF ShownInv, ShownType
<1>1. /\ Length(head, tail) \in Nat /\ Length(head, tail) < capacity
      /\ Length(head, tail) = IF tail >= head THEN tail - head
                                              ELSE tail - head + capacity
  BY LengthNat, LengthIs
<1>2. /\ Len(inside) = Length(head, tail) /\ inside \in Seq(Items)
      /\ \A k \in 1..Len(inside) : inside[k] = buffer[Slot(head, k)]
  BY ContentSeq
<1>3. Visible!computeCount = Len(inside)
  <2>1. CASE tail >= head
    BY <1>1, <1>2, <2>1 DEF Visible!computeCount, Slots
  <2>2. CASE ~ (tail >= head)
    <3>1. capacity - (head - tail) \in 0..(capacity - 1)
      BY <2>2, RingAssumption DEF Slots
    <3>2. (capacity - (head - tail)) % capacity = capacity - (head - tail)
      BY <3>1, ModSmall, RingAssumption
    <3>. QED
      BY <1>1, <1>2, <2>2, <3>2, RingAssumption DEF Visible!computeCount, Slots
  <2>. QED
    BY <2>1, <2>2
<1>4. ASSUME NEW k \in 1..Len(inside) PROVE Visible!peek(k - 1) = inside[k]
  <2>1. head + k - 1 = head + (k - 1)
    BY <1>1, <1>2 DEF Slots
  <2>. QED
    BY <1>2, <2>1 DEF Visible!peek, Slot
<1>5. Visible!notFull <=> Len(inside) < capacity - 1
  <2>1. Succ(tail) = IF tail = capacity - 1 THEN 0 ELSE tail + 1
    BY SuccIs
  <2>. QED
    BY <1>1, <1>2, <2>1, SameRing, RingAssumption DEF Visible!notFull, Slots
<1>6. Visible!notEmpty <=> inside # <<>>
  BY <1>1, <1>2, RingAssumption DEF Visible!notEmpty, Slots
<1>. QED
  BY <1>3, <1>4, <1>5, <1>6 DEF Visible!ShowsInside

(***************************************************************************)
(* The scheduler's walk over a puppet's active transactions reads each of  *)
(* them at its index, and notFull keeps the puppet within its bound.       *)
(***************************************************************************)
THEOREM VisibleIsRight == Visible!VisibleSpec => []Visible!ShowsInside
BY ShownInit, ShownNext, ShownIsRight, PTL DEF Visible!VisibleSpec

-----------------------------------------------------------------------------
(***************************************************************************)
(* The converter of hardware logs, for every file: what has been collected *)
(* are the events of the lines that have been read, each once.             *)
(***************************************************************************)
EventType == [tsc : Int, txn : Int, kind : Int, aux_data : Int]

\* The lines with an event that have been read so far.
Seen == {i \in 1..(pos - 1) : Convert!Parses(lines[i])}

MinRight ==
  /\ Seen = {} => min_tsc = Word - 1
  /\ Seen # {} => \E i \in Seen : min_tsc = lines[i].tsc
  /\ \A i \in Seen : min_tsc <= lines[i].tsc

\* The events of a buffer are those of these lines, each once.
EventsOf(evts, S) ==
  \E from \in Bijection(1..Len(evts), S) :
    \A k \in 1..Len(evts) : evts[k] = Convert!parse_hw_log_line(lines[from[k]])

EventsMoved(evts) ==
  \E from \in Bijection(1..Len(evts), Convert!Printed) :
    \A k \in 1..Len(evts) : evts[k] = Convert!Moved(from[k])

ConvertInv ==
  /\ lines \in Outputs /\ pos \in 1..(Len(lines) + 1) /\ min_tsc \in Int
  /\ at \in {"count", "fatal", "collect", "write", "exited"}
  /\ evt_buf \in Seq(EventType)
  /\ at # "count" => event_count = Convert!count_transaction_events
  /\ MinRight
  /\ at \in {"count", "fatal", "collect"} => EventsOf(evt_buf, Seen)
  /\ at \in {"write", "exited"} => pos > Len(lines) /\ EventsMoved(evt_buf)
  /\ at = "exited" => file = SortedByTsc(evt_buf)

-----------------------------------------------------------------------------
\* The definitions of the library have been instantiated once more.
LEMMA ConvertSame ==
  /\ \A s : Convert!SortedByTsc(s) = SortedByTsc(s)
  /\ \A S : Convert!Cardinality(S) = Cardinality(S)
  /\ \A S, T : Convert!Bijection(S, T) = Bijection(S, T)
<1>1. \A S : Convert!Cardinality(S) = Cardinality(S)
  BY Zenon DEF Convert!Cardinality, Cardinality
<1>2. \A s, i : Convert!Rank(s, i) = Rank(s, i)
  BY <1>1 DEF Convert!Rank, Rank, Convert!Before, Before
<1>3. \A s : Convert!SortedByTsc(s) = SortedByTsc(s)
  <2> SUFFICES ASSUME NEW s PROVE Convert!SortedByTsc(s) = SortedByTsc(s)
    OBVIOUS
  <2>1. ASSUME NEW k
        PROVE  (CHOOSE i \in DOMAIN s : Convert!Rank(s, i) = k)
                 = (CHOOSE i \in DOMAIN s : Rank(s, i) = k)
    BY <1>2
  <2> DEFINE one(k) == CHOOSE i \in DOMAIN s : Convert!Rank(s, i) = k
             two(k) == CHOOSE i \in DOMAIN s : Rank(s, i) = k
  <2>2. Convert!SortedByTsc(s) = [k \in DOMAIN s |-> s[one(k)]]
    BY DEF Convert!SortedByTsc
  <2>3. SortedByTsc(s) = [k \in DOMAIN s |-> s[two(k)]]
    BY DEF SortedByTsc
  <2>4. \A k : one(k) = two(k)
    BY <2>1
  <2> HIDE DEF one, two
  <2> QED BY <2>2, <2>3, <2>4
<1>4. \A S, T : Convert!Bijection(S, T) = Bijection(S, T)
  BY DEF Convert!Bijection, Convert!Injection, Convert!Surjection, Convert!IsInjective,
         Bijection, Injection, Surjection, IsInjective
<1> QED BY <1>1, <1>3, <1>4

LEMMA ParsedIs ==
  ASSUME NEW l \in Convert!LineType, Convert!Parses(l), Word \in Nat
  PROVE  /\ l.tsc \in 0..(Word - 2) /\ Convert!parse_hw_log_line(l) \in EventType
         /\ Convert!parse_hw_log_line(l).tsc = l.tsc /\ Convert!IsTxnLine(l)
<1>1. l.tsc \in 0..(Word - 2) /\ Convert!IsTxnLine(l)
  BY DEF Convert!LineType, Convert!Parses, Convert!NoValue, Convert!IsTxnLine
<1>2. l.word \in {"submitted", "scheduled", "executing", "done", "removed"}
  BY DEF Convert!Parses, Convert!Kind
<1>3. Convert!Kind[l.word] \in Int
  BY <1>2 DEF Convert!Kind
<1>4. l.txn \in Int /\ l.puppet \in Int /\ l.tsc \in Int
  BY DEF Convert!LineType
<1> QED BY <1>1, <1>3, <1>4 DEF Convert!parse_hw_log_line, EventType

LEMMA LinesAre ==
  ASSUME Convert!ConversionAssumption, lines \in Outputs
  PROVE  Len(lines) \in Nat /\ DOMAIN lines = 1..Len(lines)
         /\ \A i \in 1..Len(lines) : lines[i] \in Convert!LineType
BY DEF Convert!ConversionAssumption

LEMMA ConvertInit == Convert!ConversionAssumption /\ Convert!Init => ConvertInv
<1> SUFFICES ASSUME Convert!ConversionAssumption, Convert!Init PROVE ConvertInv
  OBVIOUS
<1>1. Seen = {} /\ Len(lines) \in Nat /\ Len(evt_buf) = 0 /\ evt_buf \in Seq(EventType)
  BY LinesAre DEF Convert!Init, Seen
<1>2. EventsOf(evt_buf, Seen)
  <2>1. evt_buf \in Bijection(1..Len(evt_buf), Seen)
    BY <1>1 DEF Convert!Init, Bijection, Injection, Surjection, IsInjective
  <2> QED BY <1>1, <2>1 DEF EventsOf
<1> QED BY <1>1, <1>2 DEF Convert!Init, ConvertInv, MinRight, Convert!ConversionAssumption

LEMMA AllocateKeeps == ConvertInv /\ Convert!Allocate => ConvertInv'
BY DEF ConvertInv, Convert!Allocate, MinRight, EventsOf, Seen,
       Convert!count_transaction_events

LEMMA Appended ==
  ASSUME NEW S, NEW q \in Seq(S), NEW e \in S
  PROVE  /\ Append(q, e) \in Seq(S) /\ Len(Append(q, e)) = Len(q) + 1
         /\ \A k \in 1..Len(q) : Append(q, e)[k] = q[k]
         /\ Append(q, e)[Len(q) + 1] = e
OBVIOUS

LEMMA CollectKeeps ==
  Convert!ConversionAssumption /\ ConvertInv /\ Convert!Collect => ConvertInv'
<1> SUFFICES ASSUME Convert!ConversionAssumption, ConvertInv, Convert!Collect
             PROVE  ConvertInv'
  OBVIOUS
<1> DEFINE l == lines[pos]
           n == Len(evt_buf)
<1>1. /\ at = "collect" /\ pos \in 1..Len(lines) /\ pos' = pos + 1
      /\ IF Convert!IsTxnLine(l) /\ Convert!Parses(l)
         THEN /\ evt_buf' = Append(evt_buf, Convert!parse_hw_log_line(l))
              /\ min_tsc' = IF l.tsc < min_tsc THEN l.tsc ELSE min_tsc
         ELSE UNCHANGED <<evt_buf, min_tsc>>
      /\ UNCHANGED <<lines, at, event_count, file>> /\ Len(lines) \in Nat
  BY LinesAre DEF Convert!Collect, ConvertInv
<1>2. MinRight /\ EventsOf(evt_buf, Seen) /\ evt_buf \in Seq(EventType) /\ n \in Nat
      /\ min_tsc \in Int
  BY <1>1 DEF ConvertInv
<1>3. l \in Convert!LineType /\ \A i \in Seen : i \in 1..Len(lines) /\ lines[i].tsc \in Int
  BY <1>1, LinesAre DEF ConvertInv, Seen, Convert!LineType
<1>4. pos' \in 1..(Len(lines') + 1) /\ (event_count = Convert!count_transaction_events)'
  BY <1>1 DEF ConvertInv, Convert!count_transaction_events
<1>5. CASE Convert!Parses(l)
  <2>1. /\ Convert!IsTxnLine(l) /\ l.tsc \in 0..(Word - 2) /\ Convert!parse_hw_log_line(l) \in EventType
    BY <1>3, <1>5, ParsedIs DEF Convert!ConversionAssumption
  <2>2. Seen' = Seen \cup {pos} /\ pos \notin Seen
    BY <1>1, <1>5 DEF Seen
  <2>3. /\ evt_buf' = Append(evt_buf, Convert!parse_hw_log_line(l)) /\ Len(evt_buf') = n + 1
        /\ evt_buf' \in Seq(EventType)
        /\ \A k \in 1..n : evt_buf'[k] = evt_buf[k]
        /\ evt_buf'[n + 1] = Convert!parse_hw_log_line(l)
    <3>1. evt_buf' = Append(evt_buf, Convert!parse_hw_log_line(l))
      BY <1>1, <1>5, <2>1
    <3>2. evt_buf \in Seq(EventType) /\ n = Len(evt_buf)
      BY <1>2
    <3> HIDE DEF n
    <3> QED BY <2>1, <3>1, <3>2, Appended
  <2>4. MinRight'
    <3>1. min_tsc' = IF l.tsc < min_tsc THEN l.tsc ELSE min_tsc
      BY <1>1, <1>5, <2>1
    <3>2. \A i \in Seen' : min_tsc' <= lines'[i].tsc
      BY <1>1, <1>2, <1>3, <2>1, <2>2, <3>1 DEF MinRight
    <3>3. \E i \in Seen' : min_tsc' = lines'[i].tsc
      <4>1. CASE l.tsc < min_tsc
        BY <1>1, <2>2, <3>1, <4>1
      <4>2. CASE ~ (l.tsc < min_tsc)
        <5>1. Seen # {}
          BY <1>2, <2>1, <4>2 DEF MinRight, Convert!ConversionAssumption
        <5> QED BY <1>1, <1>2, <2>2, <3>1, <4>2, <5>1 DEF MinRight
      <4> QED BY <4>1, <4>2
    <3> QED BY <2>2, <3>2, <3>3 DEF MinRight
  <2>5. EventsOf(evt_buf, Seen)'
    <3>1. PICK from \in Bijection(1..n, Seen) :
            \A k \in 1..n : evt_buf[k] = Convert!parse_hw_log_line(lines[from[k]])
      BY <1>2 DEF EventsOf
    <3> DEFINE more == [k \in 1..(n + 1) |-> IF k = n + 1 THEN pos ELSE from[k]]
    <3>2. /\ from \in [1..n -> Seen] /\ \A j, k \in 1..n : from[j] = from[k] => j = k
          /\ \A i \in Seen : \E k \in 1..n : from[k] = i
      BY <3>1 DEF Bijection, Injection, Surjection, IsInjective
    <3>3. more \in [1..(n + 1) -> Seen']
      BY <1>2, <2>2, <3>2
    <3>4. ASSUME NEW j \in 1..(n + 1), NEW k \in 1..(n + 1), more[j] = more[k]
          PROVE  j = k
      <4>1. \A m \in 1..(n + 1) : m # n + 1 => m \in 1..n /\ more[m] = from[m] /\ more[m] # pos
        BY <1>2, <2>2, <3>2
      <4>2. more[n + 1] = pos
        BY <1>2
      <4> QED BY <3>2, <3>4, <4>1, <4>2
    <3>5. ASSUME NEW i \in Seen' PROVE \E k \in 1..(n + 1) : more[k] = i
      <4>1. CASE i = pos
        BY <1>2, <4>1
      <4>2. CASE i \in Seen
        <5>1. PICK k \in 1..n : from[k] = i
          BY <3>2, <4>2
        <5>2. k \in 1..(n + 1) /\ more[k] = i
          BY <1>2, <5>1
        <5> QED BY <5>2
      <4> QED BY <2>2, <4>1, <4>2
    <3>6. more \in Bijection(1..(n + 1), Seen')
      BY <3>3, <3>4, <3>5 DEF Bijection, Injection, Surjection, IsInjective
    <3>7. ASSUME NEW k \in 1..(n + 1)
          PROVE  evt_buf'[k] = Convert!parse_hw_log_line(lines'[more[k]])
      <4>1. CASE k = n + 1
        BY <1>1, <2>3, <4>1
      <4>2. CASE k # n + 1
        <5>1. k \in 1..n /\ more[k] = from[k]
          BY <1>2, <4>2
        <5> QED BY <1>1, <2>3, <3>1, <5>1
      <4> QED BY <4>1, <4>2
    <3> HIDE DEF more
    <3> QED BY <2>3, <3>6, <3>7 DEF EventsOf
  <2> QED BY <1>1, <1>4, <2>1, <2>3, <2>4, <2>5 DEF ConvertInv, Convert!LineType
<1>6. CASE ~ Convert!Parses(l)
  <2>1. UNCHANGED <<evt_buf, min_tsc>>
    BY <1>1, <1>6
  <2>2. Seen' = Seen
    BY <1>1, <1>6 DEF Seen
  <2>3. MinRight' /\ EventsOf(evt_buf, Seen)'
    BY <1>1, <1>2, <2>1, <2>2 DEF MinRight, EventsOf
  <2> QED BY <1>1, <1>4, <2>1, <2>3 DEF ConvertInv
<1> QED BY <1>5, <1>6

\* The first event is moved to 1, and no other before it.
LEMMA MovedIs ==
  ASSUME Convert!ConversionAssumption, lines \in Outputs, NEW m \in Int,
         \A i \in Convert!Printed : m <= lines[i].tsc,
         \E i \in Convert!Printed : m = lines[i].tsc, NEW i \in Convert!Printed
  PROVE  /\ Convert!Moved(i) = [Convert!parse_hw_log_line(lines[i]) EXCEPT !.tsc = @ - m + 1]
         /\ Convert!Moved(i) \in EventType /\ Convert!Moved(i).tsc > 0
<1> DEFINE T == {lines[k].tsc : k \in Convert!Printed}
<1>1. Convert!Min(T) = m
  <2>1. m \in T /\ \A y \in T : m <= y
    OBVIOUS
  <2>2. \A y \in T : y \in Int
    BY LinesAre, ParsedIs DEF Convert!Printed, Convert!ConversionAssumption
  <2>3. ASSUME NEW x \in T, \A y \in T : x <= y PROVE x = m
    <3>1. x <= m /\ m <= x /\ x \in Int
      BY <2>1, <2>2, <2>3
    <3> QED BY <3>1
  <2> QED BY <2>1, <2>3 DEF Convert!Min
<1>2. /\ Convert!parse_hw_log_line(lines[i]) \in EventType
      /\ Convert!parse_hw_log_line(lines[i]).tsc = lines[i].tsc /\ lines[i].tsc \in Int
  BY LinesAre, ParsedIs DEF Convert!Printed, Convert!ConversionAssumption
<1>3. Convert!Moved(i) = [Convert!parse_hw_log_line(lines[i]) EXCEPT !.tsc = @ - m + 1]
  BY <1>1 DEF Convert!Moved
<1> QED BY <1>2, <1>3 DEF EventType

LEMMA RebaseKeeps ==
  Convert!ConversionAssumption /\ ConvertInv /\ Convert!Rebase => ConvertInv'
<1> SUFFICES ASSUME Convert!ConversionAssumption, ConvertInv, Convert!Rebase
             PROVE  ConvertInv'
  OBVIOUS
<1> DEFINE n == Len(evt_buf)
<1>1. /\ at = "collect" /\ pos = Len(lines) + 1 /\ at' = "write" /\ Len(lines) \in Nat
      /\ evt_buf' = [k \in DOMAIN evt_buf |-> [evt_buf[k] EXCEPT !.tsc = Convert!Rebased(@)]]
      /\ UNCHANGED <<lines, event_count, pos, min_tsc, file>>
  BY LinesAre DEF Convert!Rebase, ConvertInv
<1>2. /\ MinRight /\ EventsOf(evt_buf, Seen) /\ evt_buf \in Seq(EventType) /\ n \in Nat
      /\ DOMAIN evt_buf = 1..n /\ min_tsc \in Int
  BY <1>1 DEF ConvertInv
<1>3. Seen = Convert!Printed
  BY <1>1, LinesAre DEF Seen, Convert!Printed, ConvertInv
<1>4. PICK from \in Bijection(1..n, Convert!Printed) :
        \A k \in 1..n : evt_buf[k] = Convert!parse_hw_log_line(lines[from[k]])
  BY <1>2, <1>3 DEF EventsOf
<1>5. \A k \in 1..n : from[k] \in Convert!Printed
  BY <1>4 DEF Bijection, Injection
<1>6. ASSUME NEW k \in 1..n
      PROVE  evt_buf'[k] = Convert!Moved(from[k]) /\ Convert!Moved(from[k]) \in EventType
  <2>1. /\ Convert!Moved(from[k]) =
             [Convert!parse_hw_log_line(lines[from[k]]) EXCEPT !.tsc = @ - min_tsc + 1]
        /\ Convert!Moved(from[k]) \in EventType
    <3>1. Convert!Printed # {}
      BY <1>5
    <3> QED BY <1>2, <1>3, <1>5, <3>1, MovedIs DEF MinRight, ConvertInv
  <2>2. /\ Convert!parse_hw_log_line(lines[from[k]]).tsc = lines[from[k]].tsc
        /\ Convert!parse_hw_log_line(lines[from[k]]) \in EventType
        /\ lines[from[k]].tsc \in 0..(Word - 2) /\ min_tsc <= lines[from[k]].tsc
        /\ min_tsc >= 0
    <3>1. \A i \in Convert!Printed : lines[i].tsc \in 0..(Word - 2)
      BY LinesAre, ParsedIs DEF Convert!Printed, Convert!ConversionAssumption, ConvertInv
    <3>2. min_tsc >= 0
      BY <1>2, <1>3, <1>5, <3>1 DEF MinRight
    <3>3. /\ Convert!parse_hw_log_line(lines[from[k]]).tsc = lines[from[k]].tsc
          /\ Convert!parse_hw_log_line(lines[from[k]]) \in EventType
      BY <1>5, LinesAre, ParsedIs DEF Convert!Printed, Convert!ConversionAssumption,
                                      ConvertInv
    <3> QED BY <1>2, <1>3, <1>5, <3>1, <3>2, <3>3 DEF MinRight
  <2>3. Convert!Rebased(lines[from[k]].tsc) = lines[from[k]].tsc - min_tsc + 1
    <3>1. lines[from[k]].tsc - min_tsc + 1 \in 0..(Word - 1)
      BY <1>2, <2>2 DEF Convert!ConversionAssumption
    <3> QED BY <3>1 DEF Convert!Rebased, Convert!ConversionAssumption
  <2>4. evt_buf'[k] = [evt_buf[k] EXCEPT !.tsc = Convert!Rebased(@)]
    BY <1>1, <1>2
  <2> QED BY <1>4, <2>1, <2>2, <2>3, <2>4 DEF EventType
<1>7. evt_buf' \in Seq(EventType) /\ Len(evt_buf') = n
  <2>1. evt_buf' \in [1..n -> EventType]
    BY <1>1, <1>2, <1>6
  <2> QED BY <1>2, <2>1
<1>8. EventsMoved(evt_buf)'
  <2>1. Convert!Printed' = Convert!Printed /\ \A i : Convert!Moved(i)' = Convert!Moved(i)
    BY <1>1 DEF Convert!Printed, Convert!Moved
  <2> QED BY <1>4, <1>6, <1>7, <2>1 DEF EventsMoved
<1>9. (event_count = Convert!count_transaction_events)' /\ MinRight'
  BY <1>1 DEF ConvertInv, Convert!count_transaction_events, MinRight, Seen
<1> QED BY <1>1, <1>7, <1>8, <1>9 DEF ConvertInv

LEMMA ConvertNext ==
  Convert!ConversionAssumption /\ ConvertInv /\ [Convert!Next]_Convert!vars => ConvertInv'
<1> SUFFICES ASSUME Convert!ConversionAssumption, ConvertInv, [Convert!Next]_Convert!vars
             PROVE  ConvertInv'
  OBVIOUS
<1>1. CASE Convert!Write
  <2>1. /\ at = "write" /\ at' = "exited" /\ file' = SortedByTsc(evt_buf)
        /\ UNCHANGED <<lines, event_count, pos, min_tsc, evt_buf>>
    BY <1>1, ConvertSame DEF Convert!Write
  <2>2. EventsMoved(evt_buf)' /\ SortedByTsc(evt_buf)' = SortedByTsc(evt_buf)
    <3>1. Convert!Printed' = Convert!Printed /\ \A i : Convert!Moved(i)' = Convert!Moved(i)
      BY <2>1 DEF Convert!Printed, Convert!Moved
    <3>2. EventsMoved(evt_buf)
      BY <2>1 DEF ConvertInv
    <3> QED BY <2>1, <3>1, <3>2 DEF EventsMoved
  <2>3. (event_count = Convert!count_transaction_events)' /\ MinRight'
    BY <2>1 DEF ConvertInv, Convert!count_transaction_events, MinRight, Seen
  <2> QED BY <2>1, <2>2, <2>3 DEF ConvertInv
<1>2. CASE UNCHANGED Convert!vars
  <2>1. UNCHANGED <<lines, at, event_count, pos, min_tsc, evt_buf, file>>
    BY <1>2 DEF Convert!vars
  <2>2. /\ MinRight' = MinRight /\ EventsOf(evt_buf, Seen)' = EventsOf(evt_buf, Seen)
        /\ EventsMoved(evt_buf)' = EventsMoved(evt_buf)
        /\ Convert!count_transaction_events' = Convert!count_transaction_events
    BY <2>1 DEF MinRight, Seen, EventsOf, EventsMoved, Convert!Printed, Convert!Moved,
                Convert!count_transaction_events
  <2> QED BY <2>1, <2>2 DEF ConvertInv
<1> QED BY <1>1, <1>2, AllocateKeeps, CollectKeeps, RebaseKeeps DEF Convert!Next

LEMMA FitsIfEventsOf ==
  ASSUME Convert!ConversionAssumption, ConvertInv, at # "count",
         NEW S \in SUBSET Convert!Printed, ExistsBijection(1..Len(evt_buf), S)
  PROVE  Len(evt_buf) <= event_count
<1> DEFINE T == {i \in DOMAIN lines : Convert!IsTxnLine(lines[i])}
<1>1. IsFiniteSet(T)
  <2>1. T \subseteq 1..Len(lines) /\ Len(lines) \in Nat
    BY LinesAre DEF ConvertInv
  <2> QED BY <2>1, FS_Interval, FS_Subset
<1>2. S \subseteq T
  BY DEF Convert!Printed, Convert!Parses, Convert!IsTxnLine
<1>3. PICK from : from \in Bijection(1..Len(evt_buf), S)
  BY DEF ExistsBijection
<1>4. from \in Injection(1..Len(evt_buf), T)
  BY <1>2, <1>3 DEF Bijection, Injection
<1>5. Cardinality(1..Len(evt_buf)) <= Cardinality(T)
  BY <1>1, <1>4, FS_Injection
<1>6. Len(evt_buf) \in Nat /\ Cardinality(1..Len(evt_buf)) = Len(evt_buf)
  <2>1. evt_buf \in Seq(EventType)
    BY DEF ConvertInv
  <2>2. Len(evt_buf) \in Nat
    BY <2>1
  <2>3. \A m \in Nat : Cardinality(1..m) = m
    <3> TAKE m \in Nat
    <3>1. Cardinality(1..m) = IF 1 > m THEN 0 ELSE m - 1 + 1
      BY FS_Interval
    <3> QED BY <3>1
  <2> QED BY <2>2, <2>3
<1> QED BY <1>5, <1>6, ConvertSame DEF ConvertInv, Convert!count_transaction_events

LEMMA KeptOnceSorted ==
  ASSUME Convert!ConversionAssumption, ConvertInv, at = "exited"
  PROVE  /\ \A k \in DOMAIN file : file[k].tsc > 0
         /\ \A j, k \in DOMAIN file : j < k => file[j].tsc <= file[k].tsc
         /\ \E from \in Bijection(DOMAIN file, Convert!Printed) :
              \A k \in DOMAIN file : file[k] = Convert!Moved(from[k])
<1> DEFINE n == Len(evt_buf)
<1>1. n \in Nat /\ Timed(evt_buf, n)
  <2>1. evt_buf \in Seq(EventType)
    BY DEF ConvertInv
  <2>2. n \in Nat /\ DOMAIN evt_buf = 1..n /\ \A k \in 1..n : evt_buf[k] \in EventType
    BY <2>1
  <2> QED BY <2>2 DEF Timed, EventType
<1>2. /\ DOMAIN file = 1..n /\ Permuted(file, evt_buf, n)
      /\ \A j, k \in 1..n : j <= k => file[j].tsc <= file[k].tsc
  BY <1>1, SortingPermutes DEF ConvertInv
<1>3. PICK from \in Bijection(1..n, Convert!Printed) : \A k \in 1..n : evt_buf[k] = Convert!Moved(from[k])
  BY DEF ConvertInv, EventsMoved
<1>4. PICK to \in [1..n -> 1..n] :
        /\ \A k \in 1..n : file[k] = evt_buf[to[k]]
        /\ \A k, l \in 1..n : to[k] = to[l] => k = l
        /\ \A i \in 1..n : \E k \in 1..n : to[k] = i
  BY <1>2 DEF Permuted
<1>5. /\ from \in [1..n -> Convert!Printed] /\ \A j, k \in 1..n : from[j] = from[k] => j = k
      /\ \A i \in Convert!Printed : \E k \in 1..n : from[k] = i
  BY <1>3 DEF Bijection, Injection, Surjection, IsInjective
<1> DEFINE both == [k \in 1..n |-> from[to[k]]]
<1>6. both \in Bijection(1..n, Convert!Printed)
  <2>1. both \in [1..n -> Convert!Printed]
    BY <1>5
  <2>2. \A j, k \in 1..n : both[j] = both[k] => j = k
    BY <1>4, <1>5
  <2>3. \A i \in Convert!Printed : \E k \in 1..n : both[k] = i
    BY <1>4, <1>5
  <2> QED BY <2>1, <2>2, <2>3 DEF Bijection, Injection, Surjection, IsInjective
<1>7. \A k \in 1..n : file[k] = Convert!Moved(both[k])
  BY <1>3, <1>4
<1>8. \A i \in Convert!Printed : Convert!Moved(i).tsc > 0
  <2>1. Seen = Convert!Printed
    BY LinesAre DEF ConvertInv, Seen, Convert!Printed
  <2>2. ASSUME NEW i \in Convert!Printed PROVE Convert!Moved(i).tsc > 0
    <3>1. /\ \A k \in Convert!Printed : min_tsc <= lines[k].tsc
          /\ \E k \in Convert!Printed : min_tsc = lines[k].tsc
      BY <2>1, <2>2 DEF ConvertInv, MinRight
    <3> QED BY <3>1, MovedIs DEF ConvertInv
  <2> QED BY <2>2
<1>9. \A k \in 1..n : both[k] \in Convert!Printed
  BY <1>6 DEF Bijection, Injection
<1> HIDE DEF both
<1> QED BY <1>1, <1>2, <1>6, <1>7, <1>8, <1>9

LEMMA ConversionFits ==
  Convert!ConversionAssumption /\ ConvertInv => Convert!ConversionKeeps
<1> SUFFICES ASSUME Convert!ConversionAssumption, ConvertInv PROVE Convert!ConversionKeeps
  OBVIOUS
<1>1. ASSUME at # "count" PROVE Len(evt_buf) <= event_count
  <2>1. CASE at \in {"fatal", "collect"}
    <3>1. EventsOf(evt_buf, Seen) /\ Seen \subseteq Convert!Printed
      BY <2>1, LinesAre DEF ConvertInv, Seen, Convert!Printed
    <3> QED BY <1>1, <3>1, FitsIfEventsOf DEF EventsOf, ExistsBijection
  <2>2. CASE at \in {"write", "exited"}
    <3>1. EventsMoved(evt_buf)
      BY <2>2 DEF ConvertInv
    <3> QED BY <1>1, <3>1, FitsIfEventsOf DEF EventsMoved, ExistsBijection
  <2> QED BY <1>1, <2>1, <2>2 DEF ConvertInv
<1> QED BY <1>1, KeptOnceSorted, ConvertSame DEF Convert!ConversionKeeps,
                                                 Convert!CollectedFits,
                                                 Convert!EventsAreKept

-----------------------------------------------------------------------------
(***************************************************************************)
(* The conflict scan of the analyzer, for every log and any number of      *)
(* puppets: the list that is kept by swapping and cutting.                 *)
(***************************************************************************)
\* The definition of the library has been instantiated once more.
LEMMA AnalyzeCardinality == \A S : Analyze!Cardinality(S) = Cardinality(S)
BY Zenon DEF Analyze!Cardinality, Cardinality

AnalysisTypes ==
  /\ at \in {"read", "sort", "sweep", "compare", "windows", "latencies", "write",
             "exited", "crashed"}
  /\ log \in Logs
  /\ tl \in [Analyze!Txns -> [1..5 -> Nat]]

Sched(t) == tl[t][2]
Done(t)  == tl[t][4]

\* What qsort leaves.
SchedSorted ==
  /\ sched \in Seq(Analyze!Txns)
  /\ \A j \in 1..Len(sched) : Sched(sched[j]) <= Done(sched[j])
  /\ \A j, k \in 1..Len(sched) : j # k => sched[j] # sched[k]
  /\ \A j, k \in 1..Len(sched) : j < k => Sched(sched[j]) <= Sched(sched[k])

\* The list holds transactions of before, each once.
ActiveOnce ==
  /\ active \in Seq(Analyze!Txns)
  /\ \A k \in 1..Len(active) : \E j \in 1..(idx - 1) : active[k] = sched[j]
  /\ \A k, m \in 1..Len(active) : k # m => active[k] # active[m]

\* Before w nobody is finished.
Swept == \A k \in 1..Len(active) : k < w => ~ Analyze!Finished(active[k])

AllSwept == \A k \in 1..Len(active) : ~ Analyze!Finished(active[k])

\* Nobody who runs is missing, if there was room when it was scheduled.
NoneDropped ==
  \A j \in Analyze!Running(idx) :
    Analyze!Fits(j) => \E k \in 1..Len(active) : active[k] = sched[j]

Meet(s, t) == /\ s # t /\ Analyze!check_txn_conflict(s, t)
              /\ Sched(s) <= Sched(t) /\ Sched(t) < Done(s)

ReasonToReport ==
  conflicts > 0 => \E s, t \in Analyze!ToSet(sched) : Meet(s, t)

AllComparedTo(n) ==
  conflicts = 0 =>
    \A j \in 1..n : \A i \in Analyze!Running(j) :
      Analyze!Fits(i) => ~ Analyze!check_txn_conflict(sched[j], sched[i])

Scanning == at \in {"sweep", "compare"}

ScanInv ==
  /\ AnalysisTypes
  /\ at \in {"read", "sort"} => idx = 1 /\ w = 1 /\ active = <<>> /\ conflicts = 0
  /\ Scanning \/ Analyze!ScanDone => /\ SchedSorted /\ conflicts \in Nat /\ ReasonToReport
                             /\ AllComparedTo(idx - 1)
  /\ Scanning => /\ idx \in 1..Len(sched) /\ w \in 1..(Len(active) + 1)
                 /\ ActiveOnce /\ NoneDropped
  /\ at = "sweep" => Swept
  /\ at = "compare" => w = 1 /\ AllSwept
  /\ Analyze!ScanDone => idx = Len(sched) + 1


LEMMA MaxOf ==
  ASSUME NEW T, NEW b \in Nat, T \subseteq 0..b, 0 \in T
  PROVE  Analyze!Max(T) \in T /\ \A n \in T : n <= Analyze!Max(T)
<1> DEFINE U == {n \in Nat : \A m \in T : m <= n}
<1>1. U \subseteq Nat /\ b \in U
  OBVIOUS
<1>2. PICK u \in U : \A n \in U : u <= n
  BY <1>1, LeastOf
<1>3. u \in T
  <2> SUFFICES ASSUME u \notin T PROVE FALSE
    OBVIOUS
  <2>1. u # 0 /\ u - 1 \in Nat
    BY <1>2
  <2>2. \A m \in T : m <= u - 1
    BY <1>2, <2>1
  <2> QED BY <1>2, <2>1, <2>2
<1>4. \E x \in T : \A y \in T : x >= y
  BY <1>2, <1>3
<1> DEFINE M == CHOOSE x \in T : \A y \in T : x >= y
<1>5. M \in T /\ \A y \in T : M >= y
  BY <1>4
<1>6. Analyze!Max(T) = M
  BY DEF Analyze!Max
<1> HIDE DEF M
<1> QED BY <1>5, <1>6

LEMMA ScanInit == Analyze!AnalysisAssumption /\ Analyze!Init => ScanInv
BY DEF Analyze!AnalysisAssumption, Analyze!Init, ScanInv, AnalysisTypes, Scanning,
       Analyze!ScanDone

LEMMA ReadLogKeeps == Analyze!AnalysisAssumption /\ ScanInv /\ Analyze!ReadLog => ScanInv'
<1> SUFFICES ASSUME Analyze!AnalysisAssumption, ScanInv, Analyze!ReadLog PROVE ScanInv'
  OBVIOUS
<1> DEFINE tscs(t, k) == {0} \cup {e.tsc : e \in {x \in log : x.txn = t /\ x.kind = Analyze!Stages[k]}}
<1>1. ASSUME NEW t \in Analyze!Txns, NEW k \in 1..5 PROVE Analyze!Max(tscs(t, k)) \in Nat
  <2>1. Word \in Nat /\ \A e \in log : e.tsc \in 0..Word
    BY DEF Analyze!AnalysisAssumption, ScanInv, AnalysisTypes
  <2>2. tscs(t, k) \subseteq 0..Word /\ 0 \in tscs(t, k)
    BY <2>1
  <2> HIDE DEF tscs
  <2>3. Analyze!Max(tscs(t, k)) \in tscs(t, k)
    BY <2>1, <2>2, MaxOf
  <2> QED BY <2>2, <2>3
<1>2. tl' = [t \in Analyze!Txns |-> [k \in 1..5 |-> Analyze!Max(tscs(t, k))]]
  BY DEF Analyze!ReadLog
<1> HIDE DEF tscs
<1>3. tl' \in [Analyze!Txns -> [1..5 -> Nat]]
  BY <1>1, <1>2
<1>4. AnalysisTypes' /\ at' \in {"sort", "crashed"}
  BY <1>3 DEF Analyze!ReadLog, ScanInv, AnalysisTypes
<1>5. idx' = 1 /\ w' = 1 /\ active' = <<>> /\ conflicts' = 0
  BY DEF Analyze!ReadLog, Analyze!scanVars, ScanInv
<1> QED BY <1>4, <1>5 DEF ScanInv, Scanning, Analyze!ScanDone

\* The sorted list is a sequence.
LEMMA SeqsOf ==
  ASSUME NEW S, IsFiniteSet(S), NEW s \in Analyze!SetToSeqs(S)
  PROVE  /\ s \in Seq(S)
         /\ \A j, k \in 1..Len(s) : j # k => s[j] # s[k]
<1> DEFINE n == Cardinality(S)
<1>1. n \in Nat
  BY FS_CardinalityType
<1> HIDE DEF n
<1>2. s \in [1..n -> S] /\ \A j, k \in 1..n : j # k => s[j] # s[k]
  BY AnalyzeCardinality DEF Analyze!SetToSeqs, n
<1>3. s \in Seq(S) /\ Len(s) = n
  BY <1>1, <1>2
<1> QED BY <1>2, <1>3

LEMMA TxnsFinite == Analyze!AnalysisAssumption => IsFiniteSet(Analyze!Txns)
BY FS_Interval DEF Analyze!AnalysisAssumption, Analyze!Txns

LEMMA SortSchedKeeps ==
  Analyze!AnalysisAssumption /\ ScanInv /\ Analyze!SortSched => ScanInv'
<1> SUFFICES ASSUME Analyze!AnalysisAssumption, ScanInv, Analyze!SortSched PROVE ScanInv'
  OBVIOUS
<1> DEFINE T == {t \in Analyze!Txns : Analyze!Interesting(t)}
<1>1. PICK s \in Analyze!SetToSeqs(T) :
        /\ \A i, j \in 1..Len(s) : i < j => tl[s[i]][2] <= tl[s[j]][2]
        /\ sched' = s
        /\ at' = IF s = <<>> THEN "windows" ELSE "sweep"
  BY DEF Analyze!SortSched
<1>2. IsFiniteSet(T) /\ T \subseteq Analyze!Txns
  BY TxnsFinite, FS_Subset
<1>3. \A t \in T : tl[t][2] <= tl[t][4]
  BY DEF Analyze!Interesting
<1> HIDE DEF T
<1>4. /\ s \in Seq(T)
      /\ \A j, k \in 1..Len(s) : j # k => s[j] # s[k]
  BY <1>2, SeqsOf
<1>5. UNCHANGED <<log, tl, idx, w, active, conflicts>> /\ at = "sort"
  BY DEF Analyze!SortSched
<1>6. SchedSorted'
  BY <1>1, <1>2, <1>3, <1>4, <1>5 DEF SchedSorted, Sched, Done
<1>7. idx' = 1 /\ w' = 1 /\ active' = <<>> /\ conflicts' = 0
  BY <1>5 DEF ScanInv
<1>8. AnalysisTypes' /\ at' \in {"sweep", "windows"}
  BY <1>1, <1>5 DEF ScanInv, AnalysisTypes
<1>9. ReasonToReport' /\ AllComparedTo(idx - 1)' /\ conflicts' \in Nat
  BY <1>7 DEF ReasonToReport, AllComparedTo
<1>10. Len(s) \in Nat /\ (s = <<>> => Len(s) = 0) /\ (s # <<>> => Len(s) > 0)
  BY <1>4
<1>11. at' = "sweep" => idx' \in 1..Len(sched') /\ w' \in 1..(Len(active') + 1)
  BY <1>1, <1>7, <1>10
<1>12. ActiveOnce'
  BY <1>7 DEF ActiveOnce
<1>13. NoneDropped'
  BY <1>7 DEF NoneDropped, Analyze!Running
<1>14. Swept'
  BY <1>7 DEF Swept
<1>15. at' = "windows" => idx' = Len(sched') + 1
  BY <1>1, <1>7, <1>10
<1> QED BY <1>6, <1>7, <1>8, <1>9, <1>11, <1>12, <1>13, <1>14, <1>15
        DEF ScanInv, Scanning, Analyze!ScanDone

\* All but the last.
LEMMA FrontOf ==
  ASSUME NEW S, NEW c \in Seq(S), NEW n \in Nat, Len(c) = n + 1
  PROVE  /\ Analyze!Front(c) \in Seq(S) /\ Len(Analyze!Front(c)) = n
         /\ \A k \in 1..n : Analyze!Front(c)[k] = c[k]
<1>1. Analyze!Front(c) = SubSeq(c, 1, n)
  BY DEF Analyze!Front
<1>2. SubSeq(c, 1, n) = [k \in 1..n |-> c[k]]
  <2>1. SubSeq(c, 1, n) = [k \in 1..(n - 1 + 1) |-> c[k + 1 - 1]]
    OBVIOUS
  <2> QED BY <2>1
<1>3. \A k \in 1..n : k \in 1..Len(c) /\ c[k] \in S
  OBVIOUS
<1> DEFINE f == [k \in 1..n |-> c[k]]
<1>4. f \in [1..n -> S] /\ \A k \in 1..n : f[k] = c[k]
  BY <1>3
<1> HIDE DEF f
<1>5. f \in Seq(S) /\ Len(f) = n
  BY <1>4
<1>6. Analyze!Front(c) = f
  BY <1>1, <1>2 DEF f
<1> QED BY <1>4, <1>5, <1>6

\* What taking the p-th out of the list leaves.
Cut(a, p) == Analyze!Front([a EXCEPT ![p] = Analyze!Last(a)])

LEMMA CutList ==
  ASSUME NEW S, NEW a \in Seq(S), NEW p \in 1..Len(a)
  PROVE  /\ Cut(a, p) \in Seq(S) /\ Len(Cut(a, p)) = Len(a) - 1
         /\ \A k \in 1..(Len(a) - 1) :
              Cut(a, p)[k] = IF k = p THEN a[Len(a)] ELSE a[k]
<1> DEFINE c == [a EXCEPT ![p] = Analyze!Last(a)]
           n == Len(a) - 1
<1>1. c \in Seq(S) /\ Len(c) = Len(a) /\ n \in Nat /\ Len(a) = n + 1
  BY DEF Analyze!Last
<1>2. \A k \in 1..Len(a) : c[k] = IF k = p THEN a[Len(a)] ELSE a[k]
  BY DEF Analyze!Last
<1>3. Cut(a, p) = Analyze!Front(c)
  BY DEF Cut
<1> HIDE DEF c, n
<1>4. Analyze!Front(c) \in Seq(S) /\ Len(Analyze!Front(c)) = n /\ \A k \in 1..n : Analyze!Front(c)[k] = c[k]
  BY <1>1, FrontOf
<1>5. \A k \in 1..n : k \in 1..Len(a)
  BY <1>1
<1> QED BY <1>2, <1>3, <1>4, <1>5 DEF n

\* Which state of the scan stays as long as the order does.
LEMMA SameOrder ==
  ASSUME UNCHANGED <<tl, sched, idx>>
  PROVE  /\ SchedSorted => SchedSorted'
         /\ \A i : Analyze!Fits(i)' = Analyze!Fits(i)
         /\ Analyze!Running(idx)' = Analyze!Running(idx)
         /\ \A t : Analyze!Finished(t)' = Analyze!Finished(t)
         /\ conflicts' = conflicts =>
              (ReasonToReport => ReasonToReport') /\ (AllComparedTo(idx - 1) => AllComparedTo(idx - 1)')
<1>1. /\ SchedSorted => SchedSorted'
      /\ \A i : Analyze!Fits(i)' = Analyze!Fits(i)
      /\ Analyze!Running(idx)' = Analyze!Running(idx)
      /\ \A t : Analyze!Finished(t)' = Analyze!Finished(t)
  BY DEF SchedSorted, Analyze!Fits, Analyze!Running, Sched, Done, Analyze!Finished
<1>2. conflicts' = conflicts => (ReasonToReport => ReasonToReport')
  BY DEF ReasonToReport, Meet, Sched, Done
<1>3. conflicts' = conflicts => (AllComparedTo(idx - 1) => AllComparedTo(idx - 1)')
  BY <1>1 DEF AllComparedTo, Analyze!Running
<1> QED BY <1>1, <1>2, <1>3

LEMMA TimesAreNat ==
  ASSUME ScanInv, Scanning \/ Analyze!ScanDone
  PROVE  /\ Len(sched) \in Nat
         /\ \A j \in 1..Len(sched) : /\ sched[j] \in Analyze!Txns
                                     /\ Sched(sched[j]) \in Nat
                                     /\ Done(sched[j]) \in Nat
<1>1. sched \in Seq(Analyze!Txns) /\ tl \in [Analyze!Txns -> [1..5 -> Nat]]
  BY DEF ScanInv, AnalysisTypes, SchedSorted
<1>2. \A t \in Analyze!Txns : tl[t][2] \in Nat /\ tl[t][4] \in Nat
  BY <1>1
<1>3. Len(sched) \in Nat /\ \A j \in 1..Len(sched) : sched[j] \in Analyze!Txns
  BY <1>1
<1>4. \A t \in Analyze!Txns : Sched(t) \in Nat /\ Done(t) \in Nat
  BY <1>2 DEF Sched, Done
<1> QED BY <1>3, <1>4

LEMMA SweepKeeps == ScanInv /\ Analyze!Sweep => ScanInv'
<1> SUFFICES ASSUME ScanInv, Analyze!Sweep PROVE ScanInv'
  OBVIOUS
<1>1. /\ at = "sweep" /\ UNCHANGED <<log, tl, sched, idx, conflicts>>
      /\ SchedSorted /\ ActiveOnce /\ NoneDropped /\ Swept
      /\ idx \in 1..Len(sched) /\ w \in 1..(Len(active) + 1)
  BY DEF Analyze!Sweep, ScanInv, Scanning
<1>2. /\ SchedSorted' /\ conflicts' \in Nat /\ ReasonToReport' /\ AllComparedTo(idx - 1)'
      /\ idx' \in 1..Len(sched')
  BY <1>1, SameOrder DEF ScanInv, Scanning
<1>3. active \in Seq(Analyze!Txns) /\ Len(active) \in Nat
  BY <1>1 DEF ActiveOnce
<1>4. CASE w > Len(active)
  <2>1. w' = 1 /\ at' = "compare" /\ UNCHANGED active
    BY <1>4 DEF Analyze!Sweep
  <2>2. ActiveOnce' /\ NoneDropped'
    <3>1. ActiveOnce'
      BY <1>1, <2>1 DEF ActiveOnce
    <3>2. NoneDropped'
      BY <1>1, <2>1, SameOrder DEF NoneDropped
    <3> QED BY <3>1, <3>2
  <2>3. AllSwept'
    BY <1>1, <1>3, <1>4, <2>1 DEF Swept, AllSwept, Analyze!Finished
  <2>4. AnalysisTypes' /\ w' \in 1..(Len(active') + 1)
    BY <1>1, <1>3, <2>1 DEF ScanInv, AnalysisTypes
  <2> QED BY <1>2, <2>1, <2>2, <2>3, <2>4 DEF ScanInv, Scanning, Analyze!ScanDone
<1>5. CASE w <= Len(active) /\ ~ Analyze!Finished(active[w])
  <2>1. w' = w + 1 /\ UNCHANGED <<active, at>>
    BY <1>1, <1>3, <1>5 DEF Analyze!Sweep
  <2>2. ActiveOnce' /\ NoneDropped'
    BY <1>1, <2>1, SameOrder DEF ActiveOnce, NoneDropped
  <2>3. Swept'
    BY <1>1, <1>3, <1>5, <2>1 DEF Swept, Analyze!Finished
  <2>4. AnalysisTypes' /\ w' \in 1..(Len(active') + 1)
    BY <1>1, <1>3, <1>5, <2>1 DEF ScanInv, AnalysisTypes
  <2> QED BY <1>1, <1>2, <2>1, <2>2, <2>3, <2>4 DEF ScanInv, Scanning, Analyze!ScanDone
<1>6. CASE w <= Len(active) /\ Analyze!Finished(active[w])
  <2>1. /\ w' = w /\ at' = at
        /\ active' = Cut(active, w)
    BY <1>1, <1>3, <1>6 DEF Analyze!Sweep, Cut
  <2>2. w \in 1..Len(active)
    BY <1>1, <1>3, <1>6
  <2>3. /\ active' \in Seq(Analyze!Txns) /\ Len(active') = Len(active) - 1
        /\ \A k \in 1..Len(active') :
             active'[k] = IF k = w THEN active[Len(active)] ELSE active[k]
    BY <1>3, <2>1, <2>2, CutList
  <2>4. ActiveOnce'
    <3> DEFINE of(k) == IF k = w THEN Len(active) ELSE k
    <3>1. \A k \in 1..Len(active') : /\ of(k) \in 1..Len(active)
                                    /\ active'[k] = active[of(k)]
      BY <1>3, <2>2, <2>3
    <3>2. \A k, m \in 1..Len(active') : k # m => of(k) # of(m)
      BY <1>3, <2>2, <2>3
    <3> HIDE DEF of
    <3>3. /\ \A k \in 1..Len(active) : \E j \in 1..(idx - 1) : active[k] = sched[j]
          /\ \A k, m \in 1..Len(active) : k # m => active[k] # active[m]
          /\ idx' = idx /\ sched' = sched
      BY <1>1 DEF ActiveOnce
    <3>4. \A k \in 1..Len(active') : \E j \in 1..(idx' - 1) : active'[k] = sched'[j]
      BY <3>1, <3>3
    <3>5. \A k, m \in 1..Len(active') : k # m => active'[k] # active'[m]
      BY <3>1, <3>2, <3>3
    <3> QED BY <2>3, <3>4, <3>5 DEF ActiveOnce
  <2>5. NoneDropped'
    <3> SUFFICES ASSUME NEW j \in Analyze!Running(idx), Analyze!Fits(j)
                 PROVE  \E k \in 1..Len(active') : active'[k] = sched[j]
      BY <1>1, SameOrder DEF NoneDropped
    <3>1. PICK k \in 1..Len(active) : active[k] = sched[j]
      BY <1>1 DEF NoneDropped
    <3>2. j \in 1..(idx - 1) /\ Done(sched[j]) > Sched(sched[idx])
      BY DEF Analyze!Running, Done, Sched
    <3>3. Done(sched[j]) \in Nat /\ Sched(sched[idx]) \in Nat
      BY <1>1, <3>2, TimesAreNat DEF Scanning
    <3>4. ~ Analyze!Finished(sched[j])
      BY <3>2, <3>3 DEF Analyze!Finished, Done, Sched
    <3>5. k # w
      BY <1>6, <3>1, <3>4
    <3>6. CASE k < Len(active)
      BY <1>3, <2>3, <3>1, <3>5, <3>6
    <3>7. CASE k = Len(active)
      <4>1. w \in 1..Len(active')
        BY <1>3, <2>2, <2>3, <3>5, <3>7
      <4> QED BY <2>3, <3>1, <3>7, <4>1
    <3> QED BY <1>3, <3>6, <3>7
  <2>6. Swept'
    BY <1>1, <1>3, <2>1, <2>2, <2>3 DEF Swept, Analyze!Finished
  <2>7. AnalysisTypes' /\ w' \in 1..(Len(active') + 1)
    BY <1>1, <1>3, <2>1, <2>2, <2>3 DEF ScanInv, AnalysisTypes
  <2> QED BY <1>1, <1>2, <2>1, <2>4, <2>5, <2>6, <2>7 DEF ScanInv, Scanning,
                                                          Analyze!ScanDone
<1> QED BY <1>1, <1>3, <1>4, <1>5, <1>6

LEMMA TxnsConflictAlike ==
  \A s, t : Analyze!check_txn_conflict(s, t) <=> Analyze!check_txn_conflict(t, s)
BY DEF Analyze!check_txn_conflict

\* Where the list is complete it holds nobody else.
LEMMA ListIsRunning ==
  ASSUME Analyze!AnalysisAssumption, ScanInv, at = "compare"
  PROVE  /\ \A k \in 1..Len(active) : \E j \in Analyze!Running(idx) : active[k] = sched[j]
         /\ \A j \in Analyze!Running(idx) : j \in 1..(idx - 1) /\ Done(sched[j]) > Sched(sched[idx])
         /\ IsFiniteSet(Analyze!Running(idx))
<1>1. AllSwept /\ ActiveOnce /\ idx \in 1..Len(sched)
  BY DEF ScanInv, Scanning
<1>2. ASSUME NEW k \in 1..Len(active)
      PROVE  \E j \in Analyze!Running(idx) : active[k] = sched[j]
  <2>1. PICK j \in 1..(idx - 1) : active[k] = sched[j]
    BY <1>1 DEF ActiveOnce
  <2>2. ~ Analyze!Finished(sched[j])
    BY <1>1, <2>1 DEF AllSwept
  <2>3. Done(sched[j]) \in Nat /\ Sched(sched[idx]) \in Nat
    BY <1>1, TimesAreNat DEF Scanning
  <2>4. Done(sched[j]) > Sched(sched[idx])
    BY <2>2, <2>3 DEF Analyze!Finished, Done, Sched
  <2> QED BY <2>1, <2>4 DEF Analyze!Running, Done, Sched
<1>3. Analyze!Running(idx) \subseteq 1..(idx - 1) /\ IsFiniteSet(1..(idx - 1))
  BY <1>1, FS_Interval DEF Analyze!Running
<1>4. IsFiniteSet(Analyze!Running(idx))
  BY <1>3, FS_Subset
<1>5. \A j \in Analyze!Running(idx) : j \in 1..(idx - 1) /\ Done(sched[j]) > Sched(sched[idx])
  BY DEF Analyze!Running, Done, Sched
<1> QED BY <1>2, <1>4, <1>5

\* A list without repetition counts its elements.
LEMMA OnceCounts ==
  ASSUME NEW S, NEW a \in Seq(S), \A k, m \in 1..Len(a) : k # m => a[k] # a[m]
  PROVE  IsFiniteSet(Analyze!ToSet(a)) /\ Cardinality(Analyze!ToSet(a)) = Len(a)
<1>1. Len(a) \in Nat /\ DOMAIN a = 1..Len(a)
  OBVIOUS
<1>2. IsFiniteSet(1..Len(a))
  BY <1>1, FS_Interval
<1>3. \A m \in Nat : Cardinality(1..m) = m
  <2> TAKE m \in Nat
  <2>1. Cardinality(1..m) = IF 1 > m THEN 0 ELSE m - 1 + 1
    BY FS_Interval
  <2> QED BY <2>1
<1>4. a \in Bijection(1..Len(a), Analyze!ToSet(a))
  <2>1. a \in [1..Len(a) -> Analyze!ToSet(a)]
    BY <1>1 DEF Analyze!ToSet
  <2>2. \A x, y \in DOMAIN a : a[x] = a[y] => x = y
    BY <1>1
  <2>3. \A u \in Analyze!ToSet(a) : \E x \in 1..Len(a) : a[x] = u
    BY <1>1 DEF Analyze!ToSet
  <2> QED BY <2>1, <2>2, <2>3 DEF Bijection, Injection, Surjection, IsInjective
<1>5. ExistsBijection(1..Len(a), Analyze!ToSet(a))
  BY <1>4 DEF ExistsBijection
<1>6. IsFiniteSet(Analyze!ToSet(a)) /\ Cardinality(Analyze!ToSet(a)) = Cardinality(1..Len(a))
  BY <1>2, <1>5, FS_Bijection
<1> QED BY <1>1, <1>3, <1>6

\* So there is room where fewer run than there are puppets.
LEMMA RoomInList ==
  ASSUME Analyze!AnalysisAssumption, ScanInv, at = "compare", Analyze!Fits(idx)
  PROVE  Len(active) < num_puppets
<1> DEFINE R == Analyze!Running(idx)
           n == Len(active)
<1>1. active \in Seq(Analyze!Txns) /\ \A k, m \in 1..Len(active) : k # m => active[k] # active[m]
  BY DEF ScanInv, Scanning, ActiveOnce
<1>2. /\ n \in Nat
      /\ \A k, m \in 1..n : k # m => active[k] # active[m]
      /\ \A k \in 1..n : \E j \in R : active[k] = sched[j]
      /\ IsFiniteSet(R)
  BY <1>1, ListIsRunning
<1>3. IsFiniteSet(1..n) /\ Cardinality(1..n) = n
  <2>1. IsFiniteSet(1..n)
    BY <1>2, FS_Interval
  <2>2. \A m \in Nat : Cardinality(1..m) = m
    <3> TAKE m \in Nat
    <3>1. Cardinality(1..m) = IF 1 > m THEN 0 ELSE m - 1 + 1
      BY FS_Interval
    <3> QED BY <3>1
  <2> HIDE DEF n
  <2> QED BY <1>2, <2>1, <2>2
<1> HIDE DEF n, R
<1> DEFINE from == [k \in 1..n |-> CHOOSE j \in R : active[k] = sched[j]]
<1>4. from \in [1..n -> R] /\ \A k \in 1..n : active[k] = sched[from[k]]
  <2>1. \A k \in 1..n : LET j == CHOOSE i \in R : active[k] = sched[i]
                        IN  j \in R /\ active[k] = sched[j]
    BY <1>2
  <2> QED BY <2>1
<1> HIDE DEF from
<1>5. \A x, y \in 1..n : from[x] = from[y] => x = y
  BY <1>2, <1>4
<1>6. from \in Injection(1..n, R)
  BY <1>4, <1>5 DEF Injection, IsInjective
<1>7. Cardinality(1..n) <= Cardinality(R)
  BY <1>2, <1>3, <1>6, FS_Injection
<1>8. Cardinality(R) < num_puppets
  BY AnalyzeCardinality DEF Analyze!Fits, R
<1>9. Cardinality(R) \in Nat /\ num_puppets \in Nat
  BY <1>2, FS_CardinalityType DEF Analyze!AnalysisAssumption
<1> QED BY <1>2, <1>3, <1>7, <1>8, <1>9 DEF n

LEMMA CompareKeeps == Analyze!AnalysisAssumption /\ ScanInv /\ Analyze!Compare => ScanInv'
<1> SUFFICES ASSUME Analyze!AnalysisAssumption, ScanInv, Analyze!Compare PROVE ScanInv'
  OBVIOUS
<1> DEFINE meets ==
      \E i \in 1..Len(active) : Analyze!check_txn_conflict(sched[idx], active[i])
<1>1. /\ at = "compare" /\ UNCHANGED <<log, tl, sched, w>>
      /\ SchedSorted /\ ActiveOnce /\ NoneDropped
      /\ idx \in 1..Len(sched) /\ w = 1 /\ conflicts \in Nat
      /\ ReasonToReport /\ AllComparedTo(idx - 1) /\ AnalysisTypes
  BY DEF Analyze!Compare, ScanInv, Scanning
<1>2. /\ conflicts' = conflicts + IF meets THEN 1 ELSE 0
      /\ active' = IF Len(active) < num_puppets THEN Append(active, sched[idx]) ELSE active
      /\ idx' = idx + 1
      /\ at' = IF idx = Len(sched) THEN "windows" ELSE "sweep"
  BY DEF Analyze!Compare
<1>3. /\ Len(sched) \in Nat /\ idx \in Nat
      /\ \A j \in 1..Len(sched) : /\ sched[j] \in Analyze!Txns
                                  /\ Sched(sched[j]) \in Nat
                                  /\ Done(sched[j]) \in Nat
  BY <1>1, TimesAreNat DEF Scanning
<1>4. /\ \A k \in 1..Len(active) : \E j \in Analyze!Running(idx) : active[k] = sched[j]
      /\ \A j \in Analyze!Running(idx) : j \in 1..(idx - 1) /\ Done(sched[j]) > Sched(sched[idx])
  BY <1>1, ListIsRunning
<1>5. SchedSorted' /\ AnalysisTypes' /\ at' \in {"windows", "sweep"}
  BY <1>1, <1>2 DEF SchedSorted, AnalysisTypes, Sched, Done
<1>6. conflicts' \in Nat /\ (conflicts' = 0 => conflicts = 0 /\ ~ meets)
      /\ (conflicts' > 0 => conflicts > 0 \/ meets)
  BY <1>1, <1>2
<1>7. ReasonToReport'
  <2> SUFFICES ASSUME conflicts' > 0
               PROVE  (\E s, t \in Analyze!ToSet(sched) : Meet(s, t))'
    BY DEF ReasonToReport
  <2>1. \E s, t \in Analyze!ToSet(sched) : Meet(s, t)
    <3>1. CASE conflicts > 0
      BY <1>1, <3>1 DEF ReasonToReport
    <3>2. CASE meets
      <4>1. PICK i \in 1..Len(active) : Analyze!check_txn_conflict(sched[idx], active[i])
        BY <3>2
      <4>2. PICK j \in Analyze!Running(idx) : active[i] = sched[j]
        BY <1>4
      <4>3. j \in 1..Len(sched) /\ j < idx
        BY <1>1, <1>3, <1>4
      <4>4. sched[j] # sched[idx] /\ Sched(sched[j]) <= Sched(sched[idx])
        BY <1>1, <4>3 DEF SchedSorted
      <4>5. Sched(sched[idx]) < Done(sched[j])
        BY <1>1, <1>3, <1>4, <4>3
      <4>6. Analyze!check_txn_conflict(sched[j], sched[idx])
        BY <4>1, <4>2, TxnsConflictAlike
      <4>7. sched[j] \in Analyze!ToSet(sched) /\ sched[idx] \in Analyze!ToSet(sched)
        BY <1>1, <4>3 DEF SchedSorted, Analyze!ToSet
      <4> QED BY <4>4, <4>5, <4>6, <4>7 DEF Meet
    <3> QED BY <1>6, <3>1, <3>2
  <2> QED BY <1>1, <2>1 DEF Meet, Sched, Done
<1> HIDE DEF meets
<1>8. AllComparedTo(idx - 1)'
  <2> SUFFICES ASSUME conflicts' = 0, NEW j \in 1..idx, NEW i \in Analyze!Running(j),
                      Analyze!Fits(i)
               PROVE  ~ Analyze!check_txn_conflict(sched[j], sched[i])
    <3>1. idx' - 1 = idx
      BY <1>2, <1>3
    <3>2. /\ \A m : Analyze!Fits(m)' = Analyze!Fits(m)
          /\ \A m : Analyze!Running(m)' = Analyze!Running(m)
      BY <1>1 DEF Analyze!Fits, Analyze!Running
    <3> QED BY <1>1, <3>1, <3>2 DEF AllComparedTo
  <2>1. CASE j = idx
    <3>1. PICK k \in 1..Len(active) : active[k] = sched[i]
      BY <1>1, <2>1 DEF NoneDropped
    <3> QED BY <1>6, <2>1, <3>1 DEF meets
  <2>2. CASE j # idx
    <3>1. j \in 1..(idx - 1)
      BY <1>3, <2>2
    <3> QED BY <1>1, <1>6, <3>1 DEF AllComparedTo
  <2> QED BY <2>1, <2>2
<1>9. /\ active' \in Seq(Analyze!Txns)
      /\ Len(active) \in Nat /\ Len(active') \in {Len(active), Len(active) + 1}
      /\ Len(active') = Len(active) => active' = active
      /\ Len(active') = Len(active) + 1 => active'[Len(active) + 1] = sched[idx]
      /\ \A k \in 1..Len(active) : active'[k] = active[k]
  <2>1. active \in Seq(Analyze!Txns) /\ sched[idx] \in Analyze!Txns
    BY <1>1, <1>3 DEF ActiveOnce
  <2> QED BY <1>2, <2>1
<1>10. ActiveOnce'
  <2>1. \A k \in 1..Len(active) : \E j \in 1..(idx - 1) : active[k] = sched[j]
    BY <1>1 DEF ActiveOnce
  <2>2. \A k \in 1..Len(active') : k \in 1..Len(active) \/ active'[k] = sched[idx]
    BY <1>9
  <2>3. \A k \in 1..Len(active') : \E j \in 1..(idx' - 1) : active'[k] = sched'[j]
    BY <1>1, <1>2, <1>3, <1>9, <2>1, <2>2
  <2>4. \A k \in 1..Len(active) : active[k] # sched[idx]
    BY <1>1, <1>3, <2>1 DEF SchedSorted
  <2>5. \A k, m \in 1..Len(active') : k # m => active'[k] # active'[m]
    <3> SUFFICES ASSUME NEW k \in 1..Len(active'), NEW m \in 1..Len(active'), k # m
                 PROVE  active'[k] # active'[m]
      OBVIOUS
    <3>1. CASE k \in 1..Len(active) /\ m \in 1..Len(active)
      BY <1>1, <1>9, <3>1 DEF ActiveOnce
    <3>2. CASE k \in 1..Len(active) /\ m \notin 1..Len(active)
      BY <1>9, <2>2, <2>4, <3>2
    <3>3. CASE k \notin 1..Len(active) /\ m \in 1..Len(active)
      BY <1>9, <2>2, <2>4, <3>3
    <3>4. k \in 1..Len(active) \/ m \in 1..Len(active)
      BY <1>9
    <3> QED BY <3>1, <3>2, <3>3, <3>4
  <2> QED BY <1>9, <2>3, <2>5 DEF ActiveOnce
<1>11. idx < Len(sched) => NoneDropped'
  <2> SUFFICES ASSUME idx < Len(sched), NEW j \in Analyze!Running(idx'), Analyze!Fits(j)
               PROVE  \E k \in 1..Len(active') : active'[k] = sched[j]
    BY <1>1 DEF NoneDropped, Analyze!Fits, Analyze!Running
  <2>1. j \in 1..idx /\ Done(sched[j]) > Sched(sched[idx + 1])
    BY <1>2, <1>3 DEF Analyze!Running, Done, Sched
  <2>2. CASE j = idx
    <3>1. Len(active) < num_puppets
      BY <1>1, <2>2, RoomInList
    <3>2. active' = Append(active, sched[idx]) /\ active \in Seq(Analyze!Txns)
      BY <1>1, <1>2, <3>1 DEF ActiveOnce
    <3> QED BY <1>9, <2>2, <3>2
  <2>3. CASE j # idx
    <3>1. j \in 1..(idx - 1) /\ j \in 1..Len(sched) /\ idx + 1 \in 1..Len(sched)
      BY <1>1, <1>3, <2>1, <2>3
    <3>2. Sched(sched[idx]) <= Sched(sched[idx + 1])
      BY <1>1, <1>3, <3>1 DEF SchedSorted
    <3>3. Done(sched[j]) > Sched(sched[idx])
      BY <1>1, <1>3, <2>1, <3>1, <3>2
    <3>4. j \in Analyze!Running(idx)
      BY <3>1, <3>3 DEF Analyze!Running, Done, Sched
    <3>5. PICK k \in 1..Len(active) : active[k] = sched[j]
      BY <1>1, <3>4 DEF NoneDropped
    <3> QED BY <1>9, <3>5
  <2> QED BY <2>2, <2>3
<1>12. Swept' /\ w' \in 1..(Len(active') + 1) /\ w' = 1
  BY <1>1, <1>9 DEF Swept
<1>13. CASE idx = Len(sched)
  <2>1. at' = "windows" /\ idx' = Len(sched') + 1
    BY <1>1, <1>2, <1>13
  <2> QED BY <1>5, <1>6, <1>7, <1>8, <2>1 DEF ScanInv, Scanning, Analyze!ScanDone
<1>14. CASE idx # Len(sched)
  <2>1. at' = "sweep" /\ idx' \in 1..Len(sched') /\ idx < Len(sched)
    BY <1>1, <1>2, <1>3, <1>14
  <2> QED BY <1>5, <1>6, <1>7, <1>8, <1>10, <1>11, <1>12, <2>1
          DEF ScanInv, Scanning, Analyze!ScanDone
<1> QED BY <1>13, <1>14

LEMMA RestKeeps ==
  ScanInv /\ (Analyze!CountWindows \/ Analyze!CountLatencies \/ Analyze!WriteReport \/ UNCHANGED Analyze!vars) => ScanInv'
<1> SUFFICES ASSUME ScanInv,
                    Analyze!CountWindows \/ Analyze!CountLatencies \/ Analyze!WriteReport \/ UNCHANGED Analyze!vars
             PROVE  ScanInv'
  OBVIOUS
<1>1. UNCHANGED <<log, tl, sched, idx, w, active, conflicts>>
  BY DEF Analyze!CountWindows, Analyze!CountLatencies, Analyze!WriteReport, Analyze!vars,
         Analyze!scanVars
<1>2. AnalysisTypes' /\ (at' = at \/ (Analyze!ScanDone /\ at' \in {"crashed", "latencies", "write", "exited"}))
  BY <1>1 DEF Analyze!CountWindows, Analyze!CountLatencies, Analyze!WriteReport,
              Analyze!vars, ScanInv, AnalysisTypes,
              Analyze!ScanDone
<1>3. /\ SchedSorted => SchedSorted'
      /\ ActiveOnce => ActiveOnce'
      /\ Swept => Swept'
      /\ AllSwept => AllSwept'
  BY <1>1, SameOrder DEF ActiveOnce, Swept, AllSwept
<1>4. NoneDropped => NoneDropped'
  BY <1>1, SameOrder DEF NoneDropped
<1>5. /\ ReasonToReport => ReasonToReport'
      /\ AllComparedTo(idx - 1) => AllComparedTo(idx - 1)'
  BY <1>1, SameOrder
<1> QED BY <1>1, <1>2, <1>3, <1>4, <1>5 DEF ScanInv, Scanning, Analyze!ScanDone

LEMMA ScanNext ==
  Analyze!AnalysisAssumption /\ ScanInv /\ [Analyze!Next]_Analyze!vars => ScanInv'
BY ReadLogKeeps, SortSchedKeeps, SweepKeeps, CompareKeeps, RestKeeps DEF Analyze!Next

LEMMA ScanHolds == Analyze!AnalysisAssumption /\ ScanInv => Analyze!ScanFindsWhatFits
<1> SUFFICES ASSUME Analyze!AnalysisAssumption, ScanInv PROVE Analyze!ScanFindsWhatFits
  OBVIOUS
<1>1. Analyze!ActiveIsRunning
  <2> SUFFICES ASSUME at = "compare"
               PROVE  /\ Analyze!Cardinality(Analyze!ToSet(active)) = Len(active)
                      /\ Analyze!ToSet(active) \subseteq {sched[j] : j \in Analyze!Running(idx)}
                      /\ \A j \in Analyze!Running(idx) :
                           Analyze!Fits(j) => sched[j] \in Analyze!ToSet(active)
    BY DEF Analyze!ActiveIsRunning
  <2>1. /\ active \in Seq(Analyze!Txns) /\ NoneDropped
        /\ \A k, m \in 1..Len(active) : k # m => active[k] # active[m]
    BY DEF ScanInv, Scanning, ActiveOnce
  <2>2. Analyze!Cardinality(Analyze!ToSet(active)) = Len(active)
    BY <2>1, OnceCounts, AnalyzeCardinality
  <2>3. \A k \in 1..Len(active) : \E j \in Analyze!Running(idx) : active[k] = sched[j]
    BY ListIsRunning
  <2>4. DOMAIN active = 1..Len(active)
    BY <2>1
  <2>5. Analyze!ToSet(active) = {active[k] : k \in 1..Len(active)}
    BY <2>4 DEF Analyze!ToSet
  <2>6. Analyze!ToSet(active) \subseteq {sched[j] : j \in Analyze!Running(idx)}
    BY <2>3, <2>5
  <2>7. \A j \in Analyze!Running(idx) : Analyze!Fits(j) => sched[j] \in Analyze!ToSet(active)
    BY <2>1, <2>5 DEF NoneDropped
  <2> QED BY <2>2, <2>6, <2>7
<1>2. Analyze!NoConflictMissed
  <2> SUFFICES ASSUME Analyze!ScanDone, conflicts = 0,
                      NEW i \in DOMAIN sched, NEW j \in DOMAIN sched, i < j,
                      Analyze!Overlap(sched[i], sched[j]), Analyze!Fits(i)
               PROVE  ~ Analyze!check_txn_conflict(sched[i], sched[j])
    BY DEF Analyze!NoConflictMissed
  <2>1. sched \in Seq(Analyze!Txns) /\ idx - 1 = Len(sched) /\ AllComparedTo(idx - 1)
    BY DEF ScanInv, SchedSorted
  <2>2. i \in 1..Len(sched) /\ j \in 1..Len(sched) /\ Len(sched) \in Nat
    BY <2>1
  <2>3. Sched(sched[j]) < Done(sched[i])
    BY DEF Analyze!Overlap, Sched, Done
  <2>4. Sched(sched[j]) \in Nat /\ Done(sched[i]) \in Nat
    BY <2>2, TimesAreNat
  <2>5. i \in Analyze!Running(j)
    BY <2>2, <2>3, <2>4 DEF Analyze!Running, Sched, Done
  <2> QED BY <2>1, <2>2, <2>5, TxnsConflictAlike DEF AllComparedTo
<1>3. Analyze!NoFalseAlarm
  BY DEF ScanInv, Analyze!NoFalseAlarm, ReasonToReport, Meet, Sched, Done
<1> QED BY <1>1, <1>2, <1>3 DEF Analyze!ScanFindsWhatFits

-----------------------------------------------------------------------------
(***************************************************************************)
(* The figures of the analyzer, for every log, any number of windows and   *)
(* any number of buckets: sums of counts, quotients, and the layout of the *)
(* file.                                                                   *)
(***************************************************************************)

Totals(f, n) == CHOOSE u : u = [i \in 0..n |-> IF i = 0 THEN 0 ELSE u[i - 1] + f[i]]

LEMMA SumIs == \A f, n : Analyze!SumTo(f, n) = Totals(f, n)[n]
BY DEF Analyze!SumTo, Totals

LEMMA TotalsExist ==
  ASSUME NEW f
  PROVE  \A n \in Nat : \E u : u = [i \in 0..n |-> IF i = 0 THEN 0 ELSE u[i - 1] + f[i]]
<1> DEFINE S == {n \in Nat : \E u : u = [i \in 0..n |-> IF i = 0 THEN 0 ELSE u[i - 1] + f[i]]}
<1>1. 0 \in S
  <2> DEFINE u == [i \in 0..0 |-> 0]
  <2>1. u = [i \in 0..0 |-> IF i = 0 THEN 0 ELSE u[i - 1] + f[i]]
    OBVIOUS
  <2> QED BY <2>1
<1>2. ASSUME NEW n \in Nat, n \in S PROVE n + 1 \in S
  <2>1. PICK u : u = [i \in 0..n |-> IF i = 0 THEN 0 ELSE u[i - 1] + f[i]]
    BY <1>2
  <2> DEFINE v == [i \in 0..(n + 1) |-> IF i = n + 1 THEN u[n] + f[n + 1] ELSE u[i]]
  <2>2. \A i \in 0..(n + 1) : v[i] = IF i = 0 THEN 0 ELSE v[i - 1] + f[i]
    <3> SUFFICES ASSUME NEW i \in 0..(n + 1)
                 PROVE  v[i] = IF i = 0 THEN 0 ELSE v[i - 1] + f[i]
      OBVIOUS
    <3>1. CASE i = n + 1
      BY <3>1
    <3>2. CASE i # n + 1
      <4>1. i \in 0..n /\ v[i] = u[i] /\ u[i] = IF i = 0 THEN 0 ELSE u[i - 1] + f[i]
        BY <2>1, <3>2
      <4>2. i # 0 => v[i - 1] = u[i - 1]
        BY <4>1
      <4> QED BY <4>1, <4>2
    <3> QED BY <3>1, <3>2
  <2>3. v = [i \in 0..(n + 1) |-> IF i = 0 THEN 0 ELSE v[i - 1] + f[i]]
    <3> DEFINE x == [i \in 0..(n + 1) |-> IF i = 0 THEN 0 ELSE v[i - 1] + f[i]]
    <3>1. DOMAIN v = DOMAIN x /\ v = [i \in DOMAIN v |-> v[i]] /\ x = [i \in DOMAIN x |-> x[i]]
      OBVIOUS
    <3>2. \A i \in 0..(n + 1) : v[i] = x[i]
      BY <2>2
    <3> HIDE DEF v
    <3> QED BY <3>1, <3>2
  <2> HIDE DEF v
  <2> QED BY <2>3
<1> HIDE DEF S
<1>3. \A n \in Nat : n \in S
  BY <1>1, <1>2, ByInduction
<1> QED BY <1>3 DEF S

LEMMA TotalsAre ==
  ASSUME NEW f, NEW n \in Nat
  PROVE  /\ Totals(f, n)[0] = 0
         /\ \A i \in 1..n : Totals(f, n)[i] = Totals(f, n)[i - 1] + f[i]
<1> DEFINE u == Totals(f, n)
<1>1. u = [i \in 0..n |-> IF i = 0 THEN 0 ELSE u[i - 1] + f[i]]
  BY TotalsExist DEF Totals
<1> HIDE DEF u
<1>2. u[0] = 0 /\ \A i \in 1..n : u[i] = u[i - 1] + f[i]
  BY <1>1
<1> QED BY <1>2 DEF u

\* What is counted bucket by bucket is counted.
LEMMA SumOfCounts ==
  ASSUME NEW T, IsFiniteSet(T), NEW b \in [T -> Int], NEW n \in Nat, NEW f,
         \A i \in 1..n : f[i] = Analyze!Cardinality({t \in T : b[t] = i - 1})
  PROVE  Analyze!SumTo(f, n) = Analyze!Cardinality({t \in T : b[t] \in 0..(n - 1)})
<1> DEFINE Below(k) == {t \in T : b[t] \in 0..(k - 1)}
           At(k) == {t \in T : b[t] = k}
           S == {k \in Nat : k <= n => Totals(f, n)[k] = Analyze!Cardinality(Below(k))}
<1>1. 0 \in S
  <2>1. Below(0) = {}
    OBVIOUS
  <2> QED BY <2>1, TotalsAre, AnalyzeCardinality, FS_EmptySet
<1>2. ASSUME NEW k \in Nat, k \in S PROVE k + 1 \in S
  <2> SUFFICES ASSUME k + 1 <= n
               PROVE  Totals(f, n)[k + 1] = Analyze!Cardinality(Below(k + 1))
    OBVIOUS
  <2>1. Below(k + 1) = Below(k) \cup At(k) /\ Below(k) \cap At(k) = {}
    OBVIOUS
  <2>2. IsFiniteSet(Below(k)) /\ IsFiniteSet(At(k))
    BY AnalyzeCardinality, FS_Subset
  <2>3. Totals(f, n)[k] = Analyze!Cardinality(Below(k)) /\ f[k + 1] = Analyze!Cardinality(At(k))
    BY <1>2
  <2> HIDE DEF Below, At
  <2>4. Analyze!Cardinality(Below(k) \cup At(k))
          = Analyze!Cardinality(Below(k)) + Analyze!Cardinality(At(k)) - Analyze!Cardinality(Below(k) \cap At(k))
    BY <2>2, AnalyzeCardinality, FS_Union
  <2>5. /\ Analyze!Cardinality(Below(k)) \in Nat /\ Analyze!Cardinality(At(k)) \in Nat
        /\ Analyze!Cardinality(Below(k) \cap At(k)) = 0
    BY <2>1, <2>2, AnalyzeCardinality, FS_CardinalityType, FS_EmptySet
  <2>6. Totals(f, n)[k + 1] = Totals(f, n)[k] + f[k + 1]
    <3>1. k + 1 \in 1..n /\ (k + 1) - 1 = k
      OBVIOUS
    <3> QED BY <3>1, TotalsAre
  <2> QED BY <2>1, <2>3, <2>4, <2>5, <2>6
<1> HIDE DEF S
<1>3. \A k \in Nat : k \in S
  BY <1>1, <1>2, ByInduction
<1> QED BY <1>3, SumIs DEF S

LEMMA MaxIn ==
  ASSUME NEW T, NEW b \in Nat, T \subseteq 0..b, 0 \in T
  PROVE  Analyze!Max(T) \in T /\ \A n \in T : n <= Analyze!Max(T)
<1> DEFINE U == {n \in Nat : \A m \in T : m <= n}
<1>1. U \subseteq Nat /\ b \in U
  OBVIOUS
<1>2. PICK u \in U : \A n \in U : u <= n
  <2> HIDE DEF U
  <2> QED BY <1>1, LeastOf
<1>3. u \in T
  <2> SUFFICES ASSUME u \notin T PROVE FALSE
    OBVIOUS
  <2>1. u # 0 /\ u \in Nat
    BY <1>2
  <2>2. \A m \in T : m \in Nat /\ m <= u - 1
    BY <1>2, <2>1
  <2>3. u - 1 \in U
    BY <2>1, <2>2
  <2> QED BY <1>2, <2>1, <2>3
<1>4. u \in T /\ \A n \in T : n <= u
  BY <1>2, <1>3
<1> QED BY <1>4 DEF Analyze!Max

LEMMA MinIn ==
  ASSUME NEW T, T \subseteq Nat, T # {}
  PROVE  Analyze!Min(T) \in T /\ \A n \in T : Analyze!Min(T) <= n
BY LeastOf DEF Analyze!Min

Counted == [k \in 1..5 |-> [i \in 1..num_throughput_windows |->
              Analyze!Cardinality({t \in Analyze!complete_txns : Analyze!WindowOf(t, k) = i - 1})]]

Histograms(u) == [l \in 1..5 |-> Analyze!Histogram(l, u)]

Known == \E u \in 0..(num_buckets - 1) : hist = Histograms(u)

Windowed == windows = Counted /\ (Analyze!window_cycles # 0 \/ Analyze!complete_txns = {})

\* The figures are what they are counted from, which no longer changes.
FigureInv ==
  /\ log \in Logs
  /\ tl \in [Analyze!Txns -> [1..5 -> 0..(Word - 1)]]
  /\ at \notin {"latencies", "write", "exited"} => windows = <<>>
  /\ at \notin {"write", "exited"} => hist = <<>>
  /\ at \in {"latencies", "write", "exited"} => Windowed
  /\ at \in {"write", "exited"} => Known
  /\ at = "exited" => file = Analyze!Header \o Analyze!InTurn(windows) \o Analyze!InTurn(hist)

LEMMA FigureInit == Analyze!AnalysisAssumption /\ Analyze!Init => FigureInv
BY DEF Analyze!AnalysisAssumption, Analyze!Init, FigureInv

LEMMA ReadTimes ==
  ASSUME Analyze!AnalysisAssumption, FigureInv, Analyze!ReadLog
  PROVE  tl' \in [Analyze!Txns -> [1..5 -> 0..(Word - 1)]]
<1> DEFINE tscs(t, k) == {0} \cup {e.tsc : e \in {x \in log : x.txn = t /\ x.kind = Analyze!Stages[k]}}
<1>1. Word - 1 \in Nat
  BY DEF Analyze!AnalysisAssumption
<1>2. ASSUME NEW t \in Analyze!Txns, NEW k \in 1..5
      PROVE  Analyze!Max(tscs(t, k)) \in 0..(Word - 1)
  <2>1. \A e \in log : e.tsc \in 0..(Word - 1)
    BY DEF Analyze!AnalysisAssumption, FigureInv
  <2>2. tscs(t, k) \subseteq 0..(Word - 1) /\ 0 \in tscs(t, k)
    BY <1>1, <2>1
  <2> HIDE DEF tscs
  <2>3. Analyze!Max(tscs(t, k)) \in tscs(t, k)
    BY <1>1, <2>2, MaxIn
  <2> QED BY <2>2, <2>3
<1>3. tl' = [t \in Analyze!Txns |-> [k \in 1..5 |-> Analyze!Max(tscs(t, k))]]
  BY DEF Analyze!ReadLog
<1> HIDE DEF tscs
<1> QED BY <1>2, <1>3

LEMMA FigureNext ==
  Analyze!AnalysisAssumption /\ FigureInv /\ [Analyze!Next]_Analyze!vars => FigureInv'
<1> SUFFICES ASSUME Analyze!AnalysisAssumption, FigureInv, [Analyze!Next]_Analyze!vars
             PROVE  FigureInv'
  OBVIOUS
<1>1. CASE Analyze!ReadLog
  <2>1. tl' \in [Analyze!Txns -> [1..5 -> 0..(Word - 1)]]
    BY <1>1, ReadTimes
  <2>2. at = "read" /\ at' \in {"crashed", "sort"} /\ UNCHANGED <<log, windows, hist>>
    BY <1>1 DEF Analyze!ReadLog
  <2> QED BY <2>1, <2>2 DEF FigureInv
<1>2. CASE Analyze!SortSched \/ Analyze!Sweep \/ Analyze!Compare
  <2>1. /\ at \in {"sort", "sweep", "compare"} /\ at' \in {"sweep", "compare", "windows"}
        /\ UNCHANGED <<log, tl, windows, hist>>
    BY <1>2 DEF Analyze!SortSched, Analyze!Sweep, Analyze!Compare, FigureInv
  <2> QED BY <2>1 DEF FigureInv
<1>3. CASE Analyze!CountWindows
  <2>1. /\ at = "windows" /\ UNCHANGED <<log, tl, hist>>
        /\ \/ at' = "crashed" /\ UNCHANGED windows
           \/ at' = "latencies" /\ windows' = Counted
                /\ (Analyze!window_cycles # 0 \/ Analyze!complete_txns = {})
    BY <1>3 DEF Analyze!CountWindows, Counted
  <2>2. Analyze!complete_txns' = Analyze!complete_txns
    BY <2>1 DEF Analyze!complete_txns
  <2>3. Analyze!window_cycles' = Analyze!window_cycles /\ Analyze!first_submit' = Analyze!first_submit
    BY <2>1, <2>2 DEF Analyze!window_cycles, Analyze!last_done, Analyze!first_submit
  <2>4. Counted' = Counted
    BY <2>1, <2>2, <2>3 DEF Counted, Analyze!WindowOf, Analyze!Quotient, Analyze!AsInt
  <2> QED BY <2>1, <2>2, <2>3, <2>4 DEF FigureInv, Windowed
<1>4. CASE Analyze!CountLatencies
  <2>1. /\ at = "latencies" /\ at' = "write" /\ UNCHANGED <<log, tl, windows>>
        /\ Known'
    <3>1. at = "latencies" /\ at' = "write" /\ UNCHANGED <<log, tl, windows>>
      BY <1>4 DEF Analyze!CountLatencies
    <3>2. PICK u \in 0..(num_buckets - 1) : hist' = Histograms(u)
      BY <1>4 DEF Analyze!CountLatencies, Histograms
    <3>3. Histograms(u)' = Histograms(u)
      BY <3>1 DEF Histograms, Analyze!Histogram, Analyze!Span, Analyze!Measured,
                  Analyze!ordered_txns, Analyze!complete_txns,
                  Analyze!first_submit, Analyze!last_done
    <3> QED BY <3>1, <3>2, <3>3 DEF Known
  <2>2. Windowed' = Windowed
    BY <2>1 DEF Windowed, Counted, Analyze!window_cycles, Analyze!complete_txns,
                Analyze!last_done, Analyze!first_submit,
                Analyze!WindowOf, Analyze!Quotient, Analyze!AsInt
  <2> QED BY <2>1, <2>2 DEF FigureInv
<1>5. CASE Analyze!WriteReport
  <2>1. /\ at = "write" /\ at' = "exited" /\ UNCHANGED <<log, tl, windows, hist>>
        /\ file' = Analyze!Header \o Analyze!InTurn(windows) \o Analyze!InTurn(hist)
    BY <1>5 DEF Analyze!WriteReport
  <2>2. Windowed' = Windowed /\ Known' = Known /\ Analyze!Header' = Analyze!Header
    BY <2>1 DEF Windowed, Counted, Analyze!window_cycles, Analyze!complete_txns,
                Analyze!last_done, Analyze!first_submit,
                Analyze!WindowOf, Analyze!Quotient, Analyze!AsInt, Known,
                Histograms, Analyze!Histogram, Analyze!Span, Analyze!Measured, Analyze!ordered_txns, Analyze!Header
  <2>3. Analyze!InTurn(windows)' = Analyze!InTurn(windows) /\ Analyze!InTurn(hist)' = Analyze!InTurn(hist)
    BY <2>1 DEF Analyze!InTurn
  <2> QED BY <2>1, <2>2, <2>3 DEF FigureInv
<1>6. CASE UNCHANGED Analyze!vars
  <2>1. UNCHANGED <<log, at, tl, windows, hist, file>>
    BY <1>6 DEF Analyze!vars
  <2>2. Windowed' = Windowed /\ Known' = Known /\ Analyze!Header' = Analyze!Header
    BY <2>1 DEF Windowed, Counted, Analyze!window_cycles, Analyze!complete_txns,
                Analyze!last_done, Analyze!first_submit,
                Analyze!WindowOf, Analyze!Quotient, Analyze!AsInt, Known,
                Histograms, Analyze!Histogram, Analyze!Span, Analyze!Measured, Analyze!ordered_txns, Analyze!Header
  <2>3. Analyze!InTurn(windows)' = Analyze!InTurn(windows) /\ Analyze!InTurn(hist)' = Analyze!InTurn(hist)
    BY <2>1 DEF Analyze!InTurn
  <2> QED BY <2>1, <2>2, <2>3 DEF FigureInv
<1> QED BY <1>1, <1>2, <1>3, <1>4, <1>5, <1>6 DEF Analyze!Next

\* Between the first submission and the last end lies every complete one.
LEMMA Bounds ==
  ASSUME Analyze!AnalysisAssumption, FigureInv
  PROVE  /\ Analyze!first_submit \in 0..(Word - 1) /\ Analyze!last_done \in 0..(Word - 1)
         /\ \A t \in Analyze!complete_txns : /\ t \in Analyze!Txns
                                     /\ Analyze!first_submit <= tl[t][1] /\ tl[t][4] <= Analyze!last_done
<1> DEFINE F == {tl[t][1] : t \in Analyze!complete_txns}
           L == {tl[t][4] : t \in Analyze!complete_txns}
<1>1. Word - 1 \in Nat
  BY DEF Analyze!AnalysisAssumption
<1>2. \A t \in Analyze!complete_txns : t \in Analyze!Txns /\ tl[t][1] \in 0..(Word - 1) /\ tl[t][4] \in 0..(Word - 1)
  BY DEF FigureInv, Analyze!complete_txns
<1>3. F \subseteq 0..(Word - 1) /\ L \subseteq 0..(Word - 1)
  BY <1>2
<1>4. \A t \in Analyze!complete_txns : tl[t][1] \in F /\ tl[t][4] \in L
  OBVIOUS
<1>5. Analyze!first_submit = Analyze!Min({Word - 1} \cup F) /\ Analyze!last_done = Analyze!Max({0} \cup L)
  BY DEF Analyze!first_submit, Analyze!last_done
<1> HIDE DEF F, L
<1>6. /\ Analyze!first_submit \in {Word - 1} \cup F
      /\ \A n \in {Word - 1} \cup F : Analyze!first_submit <= n
  <2>1. {Word - 1} \cup F \subseteq Nat
    <3>1. \A n \in F : n \in 0..(Word - 1)
      BY <1>3
    <3>2. \A n \in F : n \in Nat
      BY <3>1
    <3> QED BY <1>1, <3>2
  <2>2. {Word - 1} \cup F # {}
    OBVIOUS
  <2> QED BY <1>5, <2>1, <2>2, MinIn
<1>7. /\ Analyze!last_done \in {0} \cup L
      /\ \A n \in {0} \cup L : n <= Analyze!last_done
  <2>1. {0} \cup L \subseteq 0..(Word - 1) /\ 0 \in {0} \cup L
    BY <1>1, <1>3
  <2> QED BY <1>1, <1>5, <2>1, MaxIn
<1>8. Analyze!first_submit \in 0..(Word - 1) /\ Analyze!last_done \in 0..(Word - 1)
  BY <1>1, <1>3, <1>6, <1>7
<1> QED BY <1>2, <1>4, <1>6, <1>7, <1>8

LEMMA FigureTxnsFinite ==
  ASSUME Analyze!AnalysisAssumption
  PROVE  IsFiniteSet(Analyze!complete_txns) /\ IsFiniteSet(Analyze!Measured)
<1>1. IsFiniteSet(Analyze!Txns)
  BY AnalyzeCardinality, FS_Interval DEF Analyze!AnalysisAssumption, Analyze!Txns
<1>2. Analyze!complete_txns \subseteq Analyze!Txns /\ Analyze!Measured \subseteq Analyze!Txns
  BY DEF Analyze!complete_txns, Analyze!Measured, Analyze!ordered_txns
<1> QED BY <1>1, <1>2, AnalyzeCardinality, FS_Subset

LEMMA StagesInOrder ==
  ASSUME Analyze!AnalysisAssumption, FigureInv, NEW t \in Analyze!ordered_txns
  PROVE  /\ t \in Analyze!complete_txns /\ \A k \in 1..5 : tl[t][k] \in 0..(Word - 1)
         /\ tl[t][1] <= tl[t][2] /\ tl[t][2] <= tl[t][3]
         /\ tl[t][3] <= tl[t][4] /\ tl[t][4] <= tl[t][5]
<1>1. t \in Analyze!complete_txns /\ t \in Analyze!Txns /\ \A k \in 1..4 : tl[t][k] <= tl[t][k + 1]
  BY DEF Analyze!ordered_txns, Analyze!complete_txns
<1> QED BY <1>1 DEF FigureInv

\* Every transaction in order is measured.
LEMMA AllMeasured ==
  Analyze!AnalysisAssumption /\ FigureInv => Analyze!Measured = Analyze!ordered_txns
BY Bounds DEF Analyze!Measured, Analyze!ordered_txns

LEMMA SpanIs ==
  \A t : /\ Analyze!Span(t, 1) = tl[t][4] - tl[t][1] /\ Analyze!Span(t, 2) = tl[t][2] - tl[t][1]
         /\ Analyze!Span(t, 3) = tl[t][3] - tl[t][2] /\ Analyze!Span(t, 4) = tl[t][4] - tl[t][3]
         /\ Analyze!Span(t, 5) = tl[t][5] - tl[t][4]
BY DEF Analyze!Span, Analyze!Spans

LEMMA SpansAre ==
  ASSUME Analyze!AnalysisAssumption, FigureInv, NEW t \in Analyze!Measured
  PROVE  /\ \A l \in 1..5 : Analyze!Span(t, l) \in 0..(Word - 1)
         /\ Analyze!Span(t, 1) = Analyze!Span(t, 2) + Analyze!Span(t, 3) + Analyze!Span(t, 4)
<1>1. t \in Analyze!ordered_txns
  BY DEF Analyze!Measured
<1>2. Word - 1 \in Nat
  BY DEF Analyze!AnalysisAssumption
<1>3. /\ tl[t][1] \in 0..(Word - 1) /\ tl[t][2] \in 0..(Word - 1) /\ tl[t][3] \in 0..(Word - 1)
      /\ tl[t][4] \in 0..(Word - 1) /\ tl[t][5] \in 0..(Word - 1)
      /\ tl[t][1] <= tl[t][2] /\ tl[t][2] <= tl[t][3]
      /\ tl[t][3] <= tl[t][4] /\ tl[t][4] <= tl[t][5]
  BY <1>1, StagesInOrder
<1>4. /\ Analyze!Span(t, 1) \in 0..(Word - 1) /\ Analyze!Span(t, 2) \in 0..(Word - 1)
      /\ Analyze!Span(t, 3) \in 0..(Word - 1) /\ Analyze!Span(t, 4) \in 0..(Word - 1)
      /\ Analyze!Span(t, 5) \in 0..(Word - 1)
  BY <1>2, <1>3, SpanIs
<1>5. Analyze!Span(t, 1) = Analyze!Span(t, 2) + Analyze!Span(t, 3) + Analyze!Span(t, 4)
  BY <1>3, SpanIs
<1> QED BY <1>4, <1>5

LEMMA LatenciesRight == Analyze!AnalysisAssumption /\ FigureInv => Analyze!LatenciesAddUp
<1> SUFFICES ASSUME Analyze!AnalysisAssumption, FigureInv PROVE Analyze!LatenciesAddUp
  OBVIOUS
<1>1. \A t \in Analyze!Measured : /\ \A l \in 1..5 : Analyze!Span(t, l) >= 0
                          /\ Analyze!Span(t, 1) = Analyze!Span(t, 2) + Analyze!Span(t, 3) + Analyze!Span(t, 4)
  BY SpansAre DEF Analyze!AnalysisAssumption
<1> QED BY <1>1, AllMeasured DEF Analyze!LatenciesAddUp

LEMMA DivGrows ==
  ASSUME NEW a \in Nat, NEW b \in Nat, a <= b, NEW d \in Nat \ {0}
  PROVE  a \div d <= b \div d /\ a \div d \in Nat /\ b \div d \in Nat
<1> DEFINE p == a \div d
           q == b \div d
<1>1. /\ a = d * p + (a % d) /\ b = d * q + (b % d)
      /\ a % d \in 0..(d - 1) /\ b % d \in 0..(d - 1) /\ p \in Nat /\ q \in Nat
  OBVIOUS
<1> DEFINE r == a % d
           s == b % d
<1>2. a = d * p + r /\ b = d * q + s /\ r \in 0..(d - 1) /\ s \in 0..(d - 1)
  BY <1>1
<1> HIDE DEF p, q, r, s
<1>3. ~ p >= q + 1
  <2> SUFFICES ASSUME p >= q + 1 PROVE FALSE
    OBVIOUS
  <2>1. d * p >= d * (q + 1) /\ d * (q + 1) = d * q + d
    BY <1>1
  <2> QED BY <1>1, <1>2, <2>1
<1>4. p <= q
  BY <1>1, <1>3
<1> QED BY <1>1, <1>4 DEF p, q

LEMMA WindowCycles ==
  ASSUME Analyze!AnalysisAssumption, FigureInv
  PROVE  Analyze!window_cycles \in Nat
<1>1. /\ Word \in Nat \ {0} /\ num_throughput_windows \in Nat \ {0}
      /\ Analyze!last_done - Analyze!first_submit \in Int
  BY Bounds DEF Analyze!AnalysisAssumption
<1>2. (Analyze!last_done - Analyze!first_submit) % Word \in Nat
  BY <1>1
<1> DEFINE z == (Analyze!last_done - Analyze!first_submit) % Word
<1>3. z \in Nat
  BY <1>2
<1> HIDE DEF z
<1>4. z \div num_throughput_windows \in Nat
  BY <1>1, <1>3
<1> QED BY <1>4 DEF z, Analyze!window_cycles

\* A quotient is below a number if what is divided is below so many times.
LEMMA QuotientBelow ==
  ASSUME NEW a \in Nat, NEW d \in Nat \ {0}, NEW m \in Nat
  PROVE  a \div d \in Nat /\ (a \div d < m <=> a < d * m)
<1> DEFINE q == a \div d
           r == a % d
<1>1. q \in Nat /\ a = d * q + r /\ r \in 0..(d - 1)
  OBVIOUS
<1> HIDE DEF q, r
<1>2. ASSUME q < m PROVE a < d * m
  <2>1. d * (q + 1) <= d * m /\ d * (q + 1) = d * q + d
    BY <1>1, <1>2
  <2>2. d * q \in Int /\ d * m \in Int
    BY <1>1
  <2> QED BY <1>1, <2>1, <2>2
<1>3. ASSUME q >= m PROVE a >= d * m
  <2>1. d * q >= d * m
    BY <1>1, <1>3
  <2>2. d * q \in Int /\ d * m \in Int
    BY <1>1
  <2> QED BY <1>1, <2>1, <2>2
<1>4. d * m \in Int
  OBVIOUS
<1>5. a \div d \in Nat /\ (a \div d < m <=> a < d * m)
  BY <1>1, <1>2, <1>3, <1>4 DEF q
<1> QED BY <1>5

LEMMA IntHalf ==
  ASSUME Analyze!AnalysisAssumption
  PROVE  /\ IntWord \in Nat \ {0} /\ IntWord \div 2 \in Nat /\ IntWord \div 2 <= IntWord
         /\ num_throughput_windows \in Nat \ {0} /\ num_throughput_windows < IntWord \div 2
BY DEF Analyze!AnalysisAssumption

LEMMA CompleteTimes ==
  ASSUME Analyze!AnalysisAssumption, FigureInv, NEW t \in Analyze!complete_txns, NEW k \in 1..5
  PROVE  tl[t][k] \in 0..(Word - 1)
BY DEF Analyze!complete_txns, FigureInv

\* The window of a time that fits, without a wrap-around.
LEMMA WindowIs ==
  ASSUME Analyze!AnalysisAssumption, FigureInv, Analyze!window_cycles # 0, Analyze!TimesFit,
         NEW t \in Analyze!complete_txns, NEW k \in 1..5
  PROVE  /\ tl[t][k] - Analyze!first_submit \in Nat
         /\ Analyze!WindowOf(t, k) = (tl[t][k] - Analyze!first_submit) \div Analyze!window_cycles
<1> DEFINE a == tl[t][k] - Analyze!first_submit
           half == IntWord \div 2
           d == Analyze!window_cycles
<1>1. /\ Word \in Nat \ {0} /\ d \in Nat \ {0} /\ Analyze!first_submit \in 0..(Word - 1)
      /\ half \in Nat /\ half <= IntWord /\ IntWord \in Nat \ {0}
  BY Bounds, WindowCycles, IntHalf DEF Analyze!AnalysisAssumption
<1>2. tl[t][k] \in 0..(Word - 1)
  BY CompleteTimes
<1>3. /\ Analyze!first_submit <= tl[t][k]
      /\ tl[t][k] < Analyze!first_submit + d * half
  BY DEF Analyze!TimesFit
<1>4. d * half \in Int
  BY <1>1
<1>5. a \in 0..(Word - 1) /\ a < d * half
  BY <1>1, <1>2, <1>3, <1>4
<1>6. Analyze!WindowOf(t, k) = Analyze!AsInt((a % Word) \div d)
  BY DEF Analyze!WindowOf, Analyze!Quotient
<1> HIDE DEF a, half, d
<1>7. a % Word = a /\ a \in Nat
  BY <1>1, <1>5
<1> DEFINE q == a \div d
<1>8. q \in Nat /\ q < half
  BY <1>1, <1>5, <1>7, QuotientBelow
<1> HIDE DEF q
<1>9. q % IntWord = q
  BY <1>1, <1>8
<1>10. Analyze!AsInt(q) = q
  BY <1>8, <1>9 DEF Analyze!AsInt, half
<1> QED BY <1>6, <1>7, <1>10 DEF q, a, d

\* Those of a transaction in order.
LEMMA WindowsInOrder ==
  ASSUME Analyze!AnalysisAssumption, FigureInv, Analyze!window_cycles # 0, Analyze!TimesFit,
         NEW t \in Analyze!ordered_txns, NEW k \in 1..4
  PROVE  /\ Analyze!WindowOf(t, k) \in Nat
         /\ Analyze!WindowOf(t, k) <= Analyze!WindowOf(t, k + 1)
<1>1. Analyze!window_cycles \in Nat \ {0} /\ Analyze!first_submit \in Int
  BY Bounds, WindowCycles DEF Analyze!AnalysisAssumption
<1>2. t \in Analyze!complete_txns /\ k \in 1..5 /\ k + 1 \in 1..5
  BY StagesInOrder
<1>3. tl[t][k] \in Int /\ tl[t][k + 1] \in Int /\ tl[t][k] <= tl[t][k + 1]
  <2>1. tl[t][k] \in 0..(Word - 1) /\ tl[t][k + 1] \in 0..(Word - 1) /\ Word \in Nat
    BY <1>2, CompleteTimes DEF Analyze!AnalysisAssumption
  <2> QED BY <2>1 DEF Analyze!ordered_txns
<1> DEFINE a == tl[t][k] - Analyze!first_submit
           b == tl[t][k + 1] - Analyze!first_submit
<1>4. /\ a \in Nat /\ Analyze!WindowOf(t, k) = a \div Analyze!window_cycles
      /\ b \in Nat /\ Analyze!WindowOf(t, k + 1) = b \div Analyze!window_cycles
  BY <1>2, WindowIs
<1>5. a <= b
  BY <1>1, <1>3
<1> HIDE DEF a, b
<1> QED BY <1>1, <1>4, <1>5, DivGrows

LEMMA WindowIsInt ==
  ASSUME Analyze!AnalysisAssumption, FigureInv, Analyze!window_cycles # 0, NEW t \in Analyze!complete_txns, NEW k \in 1..5
  PROVE  Analyze!WindowOf(t, k) \in Int
<1>1. /\ Word \in Nat \ {0} /\ Analyze!window_cycles \in Nat \ {0} /\ Analyze!first_submit \in Int
      /\ IntWord \in Nat \ {0} /\ tl[t][k] \in Int
  BY Bounds, WindowCycles, IntHalf, CompleteTimes DEF Analyze!AnalysisAssumption
<1> DEFINE z == (tl[t][k] - Analyze!first_submit) % Word
           q == z \div Analyze!window_cycles
<1>2. z \in Nat
  BY <1>1
<1> HIDE DEF z
<1>3. q \in Int
  BY <1>1, <1>2
<1>4. Analyze!WindowOf(t, k) = Analyze!AsInt(q)
  BY DEF Analyze!WindowOf, Analyze!Quotient, z
<1> HIDE DEF q
<1>5. q % IntWord \in Int
  BY <1>1, <1>3
<1> QED BY <1>1, <1>4, <1>5 DEF Analyze!AsInt

LEMMA UpToCounts ==
  ASSUME Analyze!AnalysisAssumption, FigureInv, Windowed, NEW k \in 1..5,
         NEW i \in 1..num_throughput_windows
  PROVE  Analyze!UpTo(k, i) = Analyze!Cardinality({t \in Analyze!complete_txns : Analyze!WindowOf(t, k) \in 0..(i - 1)})
<1> DEFINE b == [t \in Analyze!complete_txns |-> Analyze!WindowOf(t, k)]
<1>1. b \in [Analyze!complete_txns -> Int]
  BY WindowIsInt DEF Windowed
<1>2. i \in Nat
  BY DEF Analyze!AnalysisAssumption
<1>3. \A j \in 1..i : windows[k][j] = Analyze!Cardinality({t \in Analyze!complete_txns : b[t] = j - 1})
  <2> SUFFICES ASSUME NEW j \in 1..i
               PROVE  windows[k][j] = Analyze!Cardinality({t \in Analyze!complete_txns : b[t] = j - 1})
    OBVIOUS
  <2>1. {t \in Analyze!complete_txns : b[t] = j - 1} = {t \in Analyze!complete_txns : Analyze!WindowOf(t, k) = j - 1}
    OBVIOUS
  <2>2. j \in 1..num_throughput_windows
    BY DEF Analyze!AnalysisAssumption
  <2> QED BY <2>1, <2>2 DEF Windowed, Counted
<1>4. {t \in Analyze!complete_txns : b[t] \in 0..(i - 1)} = {t \in Analyze!complete_txns : Analyze!WindowOf(t, k) \in 0..(i - 1)}
  OBVIOUS
<1> HIDE DEF b
<1>5. Analyze!SumTo(windows[k], i) = Analyze!Cardinality({t \in Analyze!complete_txns : b[t] \in 0..(i - 1)})
  BY <1>1, <1>2, <1>3, SumOfCounts, FigureTxnsFinite
<1> QED BY <1>4, <1>5 DEF Analyze!UpTo

LEMMA WindowsFull == Analyze!AnalysisAssumption /\ FigureInv => Analyze!WindowsCountUpToEnd
<1> DEFINE n == num_throughput_windows
           d == Analyze!window_cycles
           Early(k) == {t \in Analyze!complete_txns : tl[t][k] < Analyze!first_submit + d * n}
<1> SUFFICES ASSUME Analyze!AnalysisAssumption, FigureInv, windows # <<>>, Analyze!TimesFit,
                    NEW k \in 1..5
             PROVE  Analyze!UpTo(k, n) = Analyze!Cardinality(Early(k))
  BY DEF Analyze!WindowsCountUpToEnd
<1>1. Windowed /\ n \in Nat \ {0} /\ n \in 1..n
  BY IntHalf DEF FigureInv
<1>2. Analyze!UpTo(k, n)
        = Analyze!Cardinality({t \in Analyze!complete_txns : Analyze!WindowOf(t, k) \in 0..(n - 1)})
  BY <1>1, UpToCounts
<1>3. ASSUME NEW t \in Analyze!complete_txns
      PROVE  Analyze!WindowOf(t, k) \in 0..(n - 1) <=> tl[t][k] < Analyze!first_submit + d * n
  <2> DEFINE a == tl[t][k] - Analyze!first_submit
  <2>1. d \in Nat \ {0} /\ Analyze!first_submit \in Int /\ tl[t][k] \in Int
    BY <1>1, Bounds, WindowCycles, CompleteTimes DEF Windowed, Analyze!AnalysisAssumption
  <2>2. a \in Nat /\ Analyze!WindowOf(t, k) = a \div d
    BY <2>1, WindowIs
  <2>3. d * n \in Int /\ (a < d * n <=> tl[t][k] < Analyze!first_submit + d * n)
    BY <1>1, <2>1
  <2> HIDE DEF a, d, n
  <2>4. a \div d \in Nat /\ (a \div d < n <=> a < d * n)
    BY <1>1, <2>1, <2>2, QuotientBelow
  <2>5. a \div d \in 0..(n - 1) <=> a \div d < n
    BY <1>1, <2>4
  <2> QED BY <2>2, <2>3, <2>4, <2>5
<1> HIDE DEF n, d
<1>4. {t \in Analyze!complete_txns : Analyze!WindowOf(t, k) \in 0..(n - 1)} = Early(k)
  BY <1>3
<1> QED BY <1>2, <1>4

LEMMA PipelinesInOrder == Analyze!AnalysisAssumption /\ FigureInv => Analyze!PipelineOrder
<1> SUFFICES ASSUME Analyze!AnalysisAssumption, FigureInv, windows # <<>>, Analyze!TimesFit,
                    Analyze!ordered_txns = Analyze!complete_txns,
                    NEW i \in 1..num_throughput_windows, NEW k \in 1..4
             PROVE  Analyze!UpTo(k, i) >= Analyze!UpTo(k + 1, i)
  BY DEF Analyze!PipelineOrder
<1>1. Windowed
  BY DEF FigureInv
<1> DEFINE Upper == {t \in Analyze!complete_txns : Analyze!WindowOf(t, k) \in 0..(i - 1)}
           Lower == {t \in Analyze!complete_txns : Analyze!WindowOf(t, k + 1) \in 0..(i - 1)}
<1>2. k \in 1..5 /\ k + 1 \in 1..5 /\ i \in Nat
  BY DEF Analyze!AnalysisAssumption
<1>3. Analyze!UpTo(k, i) = Analyze!Cardinality(Upper) /\ Analyze!UpTo(k + 1, i) = Analyze!Cardinality(Lower)
  BY <1>1, <1>2, UpToCounts
<1>4. Lower \subseteq Upper
  <2> SUFFICES ASSUME NEW t \in Analyze!complete_txns, Analyze!WindowOf(t, k + 1) \in 0..(i - 1)
               PROVE  Analyze!WindowOf(t, k) \in 0..(i - 1)
    OBVIOUS
  <2>1. Analyze!window_cycles # 0
    BY <1>1 DEF Windowed
  <2>2. Analyze!WindowOf(t, k) \in Nat /\ Analyze!WindowOf(t, k) <= Analyze!WindowOf(t, k + 1)
    BY <2>1, WindowsInOrder
  <2>3. Analyze!WindowOf(t, k + 1) \in Int
    BY <1>2, <2>1, WindowIsInt
  <2> QED BY <1>2, <2>2, <2>3
<1>5. IsFiniteSet(Upper)
  BY FigureTxnsFinite, AnalyzeCardinality, FS_Subset
<1> HIDE DEF Upper, Lower
<1>6. Analyze!Cardinality(Lower) <= Analyze!Cardinality(Upper) /\ Analyze!Cardinality(Lower) \in Nat
      /\ Analyze!Cardinality(Upper) \in Nat
  BY <1>4, <1>5, AnalyzeCardinality, FS_Subset, FS_CardinalityType
<1> QED BY <1>3, <1>6

LEMMA DivBounds ==
  ASSUME NEW d \in Nat \ {0}, NEW n \in Nat, NEW v \in 0..d
  PROVE  (v * n) \div d \in 0..n
<1> DEFINE q == (v * n) \div d
           r == (v * n) % d
<1>1. v * n \in Nat /\ v * n <= d * n
  <2>1. v \in Nat /\ d - v \in Nat
    OBVIOUS
  <2>2. v * n \in Nat /\ (d - v) * n \in Nat
    BY <2>1
  <2>3. (d - v) * n = d * n - v * n /\ d * n \in Nat
    BY <2>1
  <2> QED BY <2>2, <2>3
<1> DEFINE z == v * n
<1>2. z \in Nat /\ z <= d * n /\ q = z \div d /\ r = z % d
  BY <1>1
<1> HIDE DEF z
<1>3. z = d * q + r /\ q \in Nat /\ r \in 0..(d - 1)
  BY <1>2
<1> HIDE DEF q, r
<1>4. ~ q >= n + 1
  <2> SUFFICES ASSUME q >= n + 1 PROVE FALSE
    OBVIOUS
  <2>1. d * q >= d * (n + 1) /\ d * (n + 1) = d * n + d
    BY <1>3
  <2> DEFINE A == d * q
             B == d * n
  <2>2. A \in Int /\ B \in Int /\ A >= B + d /\ z = A + r /\ z <= B
    BY <1>2, <1>3, <2>1
  <2> HIDE DEF A, B
  <2> QED BY <1>3, <2>2
<1> QED BY <1>3, <1>4 DEF q

LEMMA DivExact ==
  ASSUME NEW d \in Nat \ {0}, NEW n \in Nat
  PROVE  (d * n) \div d = n
<1> DEFINE z == d * n
           q == z \div d
           r == z % d
<1>1. z \in Nat /\ z = d * n
  OBVIOUS
<1> HIDE DEF z
<1>2. z = d * q + r /\ q \in Nat /\ r \in 0..(d - 1)
  BY <1>1
<1> HIDE DEF q, r
<1>3. d * (n - q) = r
  BY <1>1, <1>2
<1>4. ~ n - q >= 1
  <2> SUFFICES ASSUME n - q >= 1 PROVE FALSE
    OBVIOUS
  <2>1. d * (n - q) >= d
    BY <1>2
  <2> QED BY <1>2, <1>3, <2>1
<1>5. ~ n - q <= -1
  <2> SUFFICES ASSUME n - q <= -1 PROVE FALSE
    OBVIOUS
  <2>1. d * (n - q) <= -d
    BY <1>2
  <2> QED BY <1>2, <1>3, <2>1
<1> QED BY <1>2, <1>4, <1>5 DEF q, z

\* Where a value between the least and the greatest goes.
LEMMA BucketFits ==
  ASSUME NEW n \in Nat \ {0}, n = num_buckets, NEW min \in Int, NEW max \in Int, min < max,
         NEW v \in min..max
  PROVE  /\ Analyze!BucketOf(v, min, max) \in 0..(n - 1)
         /\ v = min => Analyze!BucketOf(v, min, max) = 0
         /\ v = max => Analyze!BucketOf(v, min, max) = n - 1
<1> DEFINE d == max - min
           x == v - min
           q == (x * n) \div d
<1>1. d \in Nat \ {0} /\ x \in 0..d
  OBVIOUS
<1>2. Analyze!BucketOf(v, min, max) = IF q >= n THEN n - 1 ELSE q
  BY DEF Analyze!BucketOf
<1>3. (v = min => x = 0) /\ (v = max => x = d)
  OBVIOUS
<1> HIDE DEF d, x
<1>4. q \in 0..n
  BY <1>1, DivBounds
<1>5. x = 0 => q = 0
  <2>1. 0 \div d = 0
    BY <1>1
  <2>2. 0 * n = 0
    OBVIOUS
  <2> QED BY <2>1, <2>2
<1>6. x = d => q = n
  BY <1>1, DivExact
<1> HIDE DEF q
<1> QED BY <1>2, <1>3, <1>4, <1>5, <1>6

BucketAt(t, l, u) ==
  LET of == {Analyze!Span(s, l) : s \in Analyze!Measured}
  IN  IF Analyze!Min(of) = Analyze!Max(of) THEN u ELSE Analyze!BucketOf(Analyze!Span(t, l), Analyze!Min(of), Analyze!Max(of))

LEMMA HistogramIs ==
  ASSUME NEW l \in 1..5, NEW u
  PROVE  Analyze!Histogram(l, u) = [i \in 1..num_buckets |->
                              Analyze!Cardinality({t \in Analyze!Measured : BucketAt(t, l, u) = i - 1})]
BY DEF Analyze!Histogram, BucketAt

LEMMA Extremes ==
  ASSUME NEW T, NEW b \in Nat, T \subseteq 0..b, T # {}
  PROVE  /\ Analyze!Min(T) \in T /\ \A n \in T : Analyze!Min(T) <= n
         /\ Analyze!Max(T) \in T /\ \A n \in T : n <= Analyze!Max(T)
<1>1. T \subseteq Nat
  OBVIOUS
<1>2. Analyze!Min(T) \in T /\ \A n \in T : Analyze!Min(T) <= n
  BY <1>1, MinIn
<1> DEFINE R == {b - n : n \in T}
<1>3. R \subseteq Nat /\ R # {}
  <2>1. \A n \in T : b - n \in Nat
    <3> SUFFICES ASSUME NEW n \in T PROVE b - n \in Nat
      OBVIOUS
    <3>1. n \in 0..b
      OBVIOUS
    <3> QED BY <3>1
  <2> QED BY <2>1
<1>4. PICK r \in R : \A n \in R : r <= n
  <2> HIDE DEF R
  <2> QED BY <1>3, LeastOf
<1>5. PICK g \in T : r = b - g
  BY <1>4
<1>6. \A n \in T : n <= g
  <2> SUFFICES ASSUME NEW n \in T PROVE n <= g
    OBVIOUS
  <2>1. b - n \in R
    OBVIOUS
  <2>2. r <= b - n /\ n \in Nat /\ g \in Nat
    BY <1>4, <2>1
  <2> QED BY <1>5, <2>2
<1>7. Analyze!Max(T) \in T /\ \A n \in T : n <= Analyze!Max(T)
  BY <1>5, <1>6 DEF Analyze!Max
<1> QED BY <1>2, <1>7

LEMMA BucketsAre ==
  ASSUME Analyze!AnalysisAssumption, FigureInv, NEW l \in 1..5, NEW u \in 0..(num_buckets - 1)
  PROVE  /\ \A t \in Analyze!Measured : BucketAt(t, l, u) \in 0..(num_buckets - 1)
         /\ Analyze!Cardinality({Analyze!Span(t, l) : t \in Analyze!Measured}) > 1 =>
              \E s, t \in Analyze!Measured : /\ BucketAt(s, l, u) = 0
                                     /\ BucketAt(t, l, u) = num_buckets - 1
<1> DEFINE of == {Analyze!Span(t, l) : t \in Analyze!Measured}
<1>1. /\ Word - 1 \in Nat /\ num_buckets \in Nat \ {0}
      /\ of \subseteq 0..(Word - 1)
  BY SpansAre DEF Analyze!AnalysisAssumption
<1>2. CASE Analyze!Measured = {}
  <2>1. of = {}
    BY <1>2
  <2>2. Analyze!Cardinality(of) = 0
    BY <2>1, AnalyzeCardinality, FS_EmptySet
  <2> QED BY <1>2, <2>2
<1>3. CASE Analyze!Measured # {}
  <2>1. of # {}
    BY <1>3
  <2> DEFINE min == Analyze!Min(of)
             max == Analyze!Max(of)
  <2>2. \A t \in Analyze!Measured : Analyze!Span(t, l) \in of
    OBVIOUS
  <2>3. \A t \in Analyze!Measured : BucketAt(t, l, u) = IF min = max THEN u ELSE Analyze!BucketOf(Analyze!Span(t, l), min, max)
    BY DEF BucketAt
  <2>4. \A v \in of : \E t \in Analyze!Measured : v = Analyze!Span(t, l)
    OBVIOUS
  <2> HIDE DEF of
  <2>5. /\ min \in of /\ \A n \in of : min <= n
        /\ max \in of /\ \A n \in of : n <= max
    BY <1>1, <2>1, Extremes
  <2> HIDE DEF min, max
  <2>6. min \in Int /\ max \in Int /\ \A n \in of : n \in Int /\ n \in min..max
    BY <1>1, <2>5
  <2>7. CASE min = max
    <3>1. \A n \in of : n = min
      BY <2>6, <2>7
    <3>2. of = {min}
      BY <2>5, <3>1
    <3>3. Analyze!Cardinality(of) = 1
      BY <3>2, AnalyzeCardinality, FS_Singleton
    <3> QED BY <2>3, <2>7, <3>3 DEF of
  <2>8. CASE min # max
    <3>1. min < max
      BY <2>5, <2>6, <2>8
    <3>2. \A t \in Analyze!Measured : BucketAt(t, l, u) = Analyze!BucketOf(Analyze!Span(t, l), min, max)
      BY <2>3, <2>8
    <3>3. \A t \in Analyze!Measured : BucketAt(t, l, u) \in 0..(num_buckets - 1)
      <4> SUFFICES ASSUME NEW t \in Analyze!Measured
                   PROVE  Analyze!BucketOf(Analyze!Span(t, l), min, max) \in 0..(num_buckets - 1)
        BY <3>2
      <4>1. Analyze!Span(t, l) \in min..max
        BY <2>2, <2>6
      <4> QED BY <1>1, <2>6, <3>1, <4>1, BucketFits
    <3>4. PICK s \in Analyze!Measured : min = Analyze!Span(s, l)
      BY <2>4, <2>5
    <3>5. PICK t \in Analyze!Measured : max = Analyze!Span(t, l)
      BY <2>4, <2>5
    <3>6. Analyze!BucketOf(min, min, max) = 0 /\ Analyze!BucketOf(max, min, max) = num_buckets - 1
      BY <1>1, <2>5, <2>6, <3>1, BucketFits
    <3> QED BY <3>2, <3>3, <3>4, <3>5, <3>6
  <2> QED BY <2>7, <2>8
<1> QED BY <1>2, <1>3

LEMMA HistogramsFull == Analyze!AnalysisAssumption /\ FigureInv => Analyze!HistogramsAreFull
<1> SUFFICES ASSUME Analyze!AnalysisAssumption, FigureInv, hist # <<>>, NEW l \in 1..5
             PROVE  /\ Analyze!SumTo(hist[l], num_buckets) = Analyze!Cardinality(Analyze!Measured)
                    /\ Analyze!Cardinality({Analyze!Span(t, l) : t \in Analyze!Measured}) > 1 =>
                         hist[l][1] > 0 /\ hist[l][num_buckets] > 0
  BY DEF Analyze!HistogramsAreFull
<1>1. PICK u \in 0..(num_buckets - 1) : hist = Histograms(u)
  BY DEF FigureInv, Known
<1> DEFINE b == [t \in Analyze!Measured |-> BucketAt(t, l, u)]
<1>2. \A i \in 1..num_buckets : hist[l][i] = Analyze!Cardinality({t \in Analyze!Measured : b[t] = i - 1})
  <2> SUFFICES ASSUME NEW i \in 1..num_buckets
               PROVE  hist[l][i] = Analyze!Cardinality({t \in Analyze!Measured : b[t] = i - 1})
    OBVIOUS
  <2>1. {t \in Analyze!Measured : b[t] = i - 1} = {t \in Analyze!Measured : BucketAt(t, l, u) = i - 1}
    OBVIOUS
  <2>2. hist[l] = Analyze!Histogram(l, u)
    BY <1>1 DEF Histograms
  <2>3. hist[l] = [j \in 1..num_buckets |->
                     Analyze!Cardinality({t \in Analyze!Measured : BucketAt(t, l, u) = j - 1})]
    BY <2>2, HistogramIs
  <2>4. hist[l][i] = Analyze!Cardinality({t \in Analyze!Measured : BucketAt(t, l, u) = i - 1})
    BY <2>3
  <2> QED BY <2>1, <2>4
<1>3. num_buckets \in Nat \ {0} /\ IsFiniteSet(Analyze!Measured)
  BY FigureTxnsFinite DEF Analyze!AnalysisAssumption
<1>4. \A t \in Analyze!Measured : b[t] = BucketAt(t, l, u) /\ b[t] \in 0..(num_buckets - 1)
  BY BucketsAre
<1>5. b \in [Analyze!Measured -> Int]
  BY <1>4
<1>6. {t \in Analyze!Measured : b[t] \in 0..(num_buckets - 1)} = Analyze!Measured
  BY <1>4
<1> HIDE DEF b
<1>7. Analyze!SumTo(hist[l], num_buckets) = Analyze!Cardinality(Analyze!Measured)
  <2>1. Analyze!SumTo(hist[l], num_buckets) = Analyze!Cardinality({t \in Analyze!Measured : b[t] \in 0..(num_buckets - 1)})
    <3>1. num_buckets \in Nat
      BY <1>3
    <3> DEFINE f == hist[l]
    <3>2. \A i \in 1..num_buckets : f[i] = Analyze!Cardinality({t \in Analyze!Measured : b[t] = i - 1})
      BY <1>2
    <3> HIDE DEF f
    <3>3. Analyze!SumTo(f, num_buckets) = Analyze!Cardinality({t \in Analyze!Measured : b[t] \in 0..(num_buckets - 1)})
      BY <1>3, <1>5, <3>1, <3>2, SumOfCounts
    <3> QED BY <3>3 DEF f
  <2> QED BY <1>6, <2>1
<1>8. ASSUME Analyze!Cardinality({Analyze!Span(t, l) : t \in Analyze!Measured}) > 1
      PROVE  hist[l][1] > 0 /\ hist[l][num_buckets] > 0
  <2>1. PICK s \in Analyze!Measured, t \in Analyze!Measured : b[s] = 0 /\ b[t] = num_buckets - 1
    BY <1>4, <1>8, BucketsAre
  <2>2. ASSUME NEW n, NEW x \in Analyze!Measured, b[x] = n
        PROVE  Analyze!Cardinality({y \in Analyze!Measured : b[y] = n}) > 0
    <3> DEFINE A == {y \in Analyze!Measured : b[y] = n}
    <3>1. IsFiniteSet(A) /\ A # {}
      BY <1>3, <2>2, AnalyzeCardinality, FS_Subset
    <3> HIDE DEF A
    <3>2. Analyze!Cardinality(A) \in Nat /\ Analyze!Cardinality(A) # 0
      BY <3>1, AnalyzeCardinality, FS_CardinalityType, FS_EmptySet
    <3>3. Analyze!Cardinality(A) > 0
      BY <3>2
    <3> QED BY <3>3 DEF A
  <2>3. 1 \in 1..num_buckets /\ num_buckets \in 1..num_buckets /\ 1 - 1 = 0
    BY <1>3
  <2>4. /\ hist[l][1] = Analyze!Cardinality({x \in Analyze!Measured : b[x] = 0})
        /\ hist[l][num_buckets] = Analyze!Cardinality({x \in Analyze!Measured : b[x] = num_buckets - 1})
    BY <1>2, <2>3
  <2>5. /\ Analyze!Cardinality({x \in Analyze!Measured : b[x] = 0}) > 0
        /\ Analyze!Cardinality({x \in Analyze!Measured : b[x] = num_buckets - 1}) > 0
    BY <2>1, <2>2
  <2> QED BY <2>4, <2>5
<1> QED BY <1>7, <1>8

-----------------------------------------------------------------------------
\* The report

Cat(p, q) == p \o q

Joins(p, q, r) ==
  /\ Len(r) = Len(p) + Len(q)
  /\ \A i \in 1..Len(p) : r[i] = p[i]
  /\ \A i \in 1..Len(q) : r[Len(p) + i] = q[i]

LEMMA Joined ==
  \A S : \A p, q \in Seq(S) : Cat(p, q) \in Seq(S) /\ Joins(p, q, Cat(p, q))
BY DEF Cat, Joins

Laid(q, s, n) ==
  /\ Len(q) = 5 * n
  /\ \A k \in 1..5, i \in 1..n : q[(k - 1) * n + i] = s[k][i]

LEMMA InTurnAt ==
  ASSUME NEW S, NEW n \in Nat, NEW s, \A k \in 1..5 : s[k] \in Seq(S) /\ Len(s[k]) = n
  PROVE  Analyze!InTurn(s) \in Seq(S) /\ Laid(Analyze!InTurn(s), s, n)
<1> DEFINE b2 == Cat(s[1], s[2])
           b3 == Cat(b2, s[3])
           b4 == Cat(b3, s[4])
           b5 == Cat(b4, s[5])
<1>1. /\ s[1] \in Seq(S) /\ Len(s[1]) = n /\ s[2] \in Seq(S) /\ Len(s[2]) = n
      /\ s[3] \in Seq(S) /\ Len(s[3]) = n /\ s[4] \in Seq(S) /\ Len(s[4]) = n
      /\ s[5] \in Seq(S) /\ Len(s[5]) = n
  OBVIOUS
<1>2. Analyze!InTurn(s) = b5
  BY DEF Analyze!InTurn, Cat
<1>3. /\ b2 \in Seq(S) /\ Len(b2) = n + n
      /\ \A i \in 1..n : b2[i] = s[1][i]
      /\ \A i \in 1..n : b2[n + i] = s[2][i]
  <2>1. b2 \in Seq(S) /\ Joins(s[1], s[2], b2)
    BY <1>1, Joined
  <2> HIDE DEF b2
  <2>2. Len(b2) = n + n
    BY <1>1, <2>1 DEF Joins
  <2>3. \A i \in 1..n : b2[i] = s[1][i]
    BY <1>1, <2>1 DEF Joins
  <2>4. \A i \in 1..n : b2[n + i] = s[2][i]
    BY <1>1, <2>1 DEF Joins
  <2> QED BY <2>1, <2>2, <2>3, <2>4
<1>b3. b3 = Cat(b2, s[3])
  OBVIOUS
<1>b4. b4 = Cat(b3, s[4])
  OBVIOUS
<1>b5. b5 = Cat(b4, s[5])
  OBVIOUS
<1> HIDE DEF b2, b3, b4, b5
<1>4. /\ b3 \in Seq(S) /\ Len(b3) = n + n + n
      /\ \A i \in 1..(n + n) : b3[i] = b2[i]
      /\ \A i \in 1..n : b3[n + n + i] = s[3][i]
  <2>1. b3 \in Seq(S) /\ Joins(b2, s[3], b3)
    BY <1>1, <1>3, <1>b3, Joined
  <2>2. Len(b3) = n + n + n
    BY <1>1, <1>3, <2>1 DEF Joins
  <2>3. \A i \in 1..(n + n) : b3[i] = b2[i]
    BY <1>1, <1>3, <2>1 DEF Joins
  <2>4. \A i \in 1..n : b3[n + n + i] = s[3][i]
    BY <1>1, <1>3, <2>1 DEF Joins
  <2> QED BY <2>1, <2>2, <2>3, <2>4
<1>5. /\ b4 \in Seq(S) /\ Len(b4) = n + n + n + n
      /\ \A i \in 1..(n + n + n) : b4[i] = b3[i]
      /\ \A i \in 1..n : b4[n + n + n + i] = s[4][i]
  <2>1. b4 \in Seq(S) /\ Joins(b3, s[4], b4)
    BY <1>1, <1>4, <1>b4, Joined
  <2>2. Len(b4) = n + n + n + n
    BY <1>1, <1>4, <2>1 DEF Joins
  <2>3. \A i \in 1..(n + n + n) : b4[i] = b3[i]
    BY <1>1, <1>4, <2>1 DEF Joins
  <2>4. \A i \in 1..n : b4[n + n + n + i] = s[4][i]
    BY <1>1, <1>4, <2>1 DEF Joins
  <2> QED BY <2>1, <2>2, <2>3, <2>4
<1>6. /\ b5 \in Seq(S) /\ Len(b5) = n + n + n + n + n
      /\ \A i \in 1..(n + n + n + n) : b5[i] = b4[i]
      /\ \A i \in 1..n : b5[n + n + n + n + i] = s[5][i]
  <2>1. b5 \in Seq(S) /\ Joins(b4, s[5], b5)
    BY <1>1, <1>5, <1>b5, Joined
  <2>2. Len(b5) = n + n + n + n + n
    BY <1>1, <1>5, <2>1 DEF Joins
  <2>3. \A i \in 1..(n + n + n + n) : b5[i] = b4[i]
    BY <1>1, <1>5, <2>1 DEF Joins
  <2>4. \A i \in 1..n : b5[n + n + n + n + i] = s[5][i]
    BY <1>1, <1>5, <2>1 DEF Joins
  <2> QED BY <2>1, <2>2, <2>3, <2>4
<1>7. ASSUME NEW i \in 1..n
      PROVE  /\ b5[i] = s[1][i] /\ b5[n + i] = s[2][i] /\ b5[n + n + i] = s[3][i]
             /\ b5[n + n + n + i] = s[4][i] /\ b5[n + n + n + n + i] = s[5][i]
  <2>0. /\ i \in 1..(n + n) /\ i \in 1..(n + n + n) /\ i \in 1..(n + n + n + n)
        /\ n + i \in 1..(n + n) /\ n + i \in 1..(n + n + n)
        /\ n + i \in 1..(n + n + n + n)
        /\ n + n + i \in 1..(n + n + n) /\ n + n + i \in 1..(n + n + n + n)
        /\ n + n + n + i \in 1..(n + n + n + n)
    OBVIOUS
  <2>1. b5[i] = b4[i] /\ b4[i] = b3[i] /\ b3[i] = b2[i] /\ b2[i] = s[1][i]
    BY <2>0, <1>3, <1>4, <1>5, <1>6
  <2>2. /\ b5[n + i] = b4[n + i] /\ b4[n + i] = b3[n + i]
        /\ b3[n + i] = b2[n + i] /\ b2[n + i] = s[2][i]
    BY <2>0, <1>3, <1>4, <1>5, <1>6
  <2>3. /\ b5[n + n + i] = b4[n + n + i] /\ b4[n + n + i] = b3[n + n + i]
        /\ b3[n + n + i] = s[3][i]
    BY <2>0, <1>4, <1>5, <1>6
  <2>4. b5[n + n + n + i] = b4[n + n + n + i] /\ b4[n + n + n + i] = s[4][i]
    BY <2>0, <1>5, <1>6
  <2> QED BY <1>6, <2>1, <2>2, <2>3, <2>4
<1>8. ASSUME NEW k \in 1..5, NEW i \in 1..n PROVE b5[(k - 1) * n + i] = s[k][i]
  <2> DEFINE p == (k - 1) * n
  <2>1. \/ k = 1 /\ p = 0
        \/ k = 2 /\ p = n
        \/ k = 3 /\ p = n + n
        \/ k = 4 /\ p = n + n + n
        \/ k = 5 /\ p = n + n + n + n
    OBVIOUS
  <2> HIDE DEF p
  <2>2. /\ b5[i] = s[1][i] /\ b5[n + i] = s[2][i] /\ b5[n + n + i] = s[3][i]
        /\ b5[n + n + n + i] = s[4][i] /\ b5[n + n + n + n + i] = s[5][i]
    BY <1>7
  <2>3. b5[p + i] = s[k][i]
    <3>1. CASE k = 1 /\ p = 0
      <4>1. p + i = i
        BY <3>1
      <4> QED BY <2>2, <3>1, <4>1
    <3>2. CASE k # 1
      BY <2>1, <2>2, <3>2
    <3> QED BY <2>1, <3>1, <3>2
  <2> QED BY <2>3 DEF p
<1>9. Len(b5) = 5 * n
  BY <1>6
<1> QED BY <1>2, <1>6, <1>8, <1>9 DEF Laid

LEMMA Cutting ==
  ASSUME NEW S, NEW q \in Seq(S), NEW from \in Nat, NEW n \in Nat, from + n <= Len(q)
  PROVE  SubSeq(q, from + 1, from + n) = [i \in 1..n |-> q[from + i]]
<1> DEFINE c == SubSeq(q, from + 1, from + n)
           f == [i \in 1..n |-> q[from + i]]
<1>1. DOMAIN c = 1..n /\ \A i \in 1..n : c[i] = q[from + i]
  OBVIOUS
<1>2. c = [i \in DOMAIN c |-> c[i]]
  OBVIOUS
<1> HIDE DEF c
<1> QED BY <1>1, <1>2 DEF c

LEMMA SeriesAre ==
  ASSUME Analyze!AnalysisAssumption, FigureInv, Windowed, Known
  PROVE  /\ windows = [k \in 1..5 |-> [i \in 1..num_throughput_windows |-> windows[k][i]]]
         /\ \A k \in 1..5 : windows[k] \in Seq(Nat) /\ Len(windows[k]) = num_throughput_windows
         /\ hist = [l \in 1..5 |-> [i \in 1..num_buckets |-> hist[l][i]]]
         /\ \A l \in 1..5 : hist[l] \in Seq(Nat) /\ Len(hist[l]) = num_buckets
<1>1. num_throughput_windows \in Nat /\ num_buckets \in Nat
  BY DEF Analyze!AnalysisAssumption
<1>2. \A k, j : Analyze!Cardinality({t \in Analyze!complete_txns : Analyze!WindowOf(t, k) = j}) \in Nat
  BY FigureTxnsFinite, AnalyzeCardinality, FS_Subset, FS_CardinalityType
<1>4. PICK u \in 0..(num_buckets - 1) : hist = Histograms(u)
  BY DEF Known
<1>5. \A k \in 1..5 : /\ windows[k] \in [1..num_throughput_windows -> Nat]
                      /\ hist[k] \in [1..num_buckets -> Nat]
  <2> SUFFICES ASSUME NEW k \in 1..5
               PROVE  /\ windows[k] \in [1..num_throughput_windows -> Nat]
                      /\ hist[k] \in [1..num_buckets -> Nat]
    OBVIOUS
  <2>1. windows[k] = [i \in 1..num_throughput_windows |->
                        Analyze!Cardinality({t \in Analyze!complete_txns : Analyze!WindowOf(t, k) = i - 1})]
    BY DEF Windowed, Counted
  <2>2. hist[k] = Analyze!Histogram(k, u)
    BY <1>4 DEF Histograms
  <2>3. hist[k] = [i \in 1..num_buckets |->
                     Analyze!Cardinality({t \in Analyze!Measured : BucketAt(t, k, u) = i - 1})]
    BY <2>2, HistogramIs
  <2>4. windows[k] \in [1..num_throughput_windows -> Nat]
    <3> DEFINE c(i) == Analyze!Cardinality({t \in Analyze!complete_txns : Analyze!WindowOf(t, k) = i - 1})
    <3>1. \A i : c(i) \in Nat
      BY <1>2
    <3>2. windows[k] = [i \in 1..num_throughput_windows |-> c(i)]
      BY <2>1
    <3> HIDE DEF c
    <3> QED BY <3>1, <3>2
  <2>5. hist[k] \in [1..num_buckets -> Nat]
    <3> DEFINE c(i) == Analyze!Cardinality({t \in Analyze!Measured : BucketAt(t, k, u) = i - 1})
    <3>1. \A i : c(i) \in Nat
      <4> SUFFICES ASSUME NEW i PROVE c(i) \in Nat
        OBVIOUS
      <4> DEFINE A == {t \in Analyze!Measured : BucketAt(t, k, u) = i - 1}
      <4>1. IsFiniteSet(A)
        BY FigureTxnsFinite, AnalyzeCardinality, FS_Subset
      <4> HIDE DEF A
      <4>2. Analyze!Cardinality(A) \in Nat
        BY <4>1, AnalyzeCardinality, FS_CardinalityType
      <4> QED BY <4>2 DEF A
    <3>2. hist[k] = [i \in 1..num_buckets |-> c(i)]
      BY <2>3
    <3> HIDE DEF c
    <3> QED BY <3>1, <3>2
  <2> QED BY <2>4, <2>5
<1>6. \A n \in Nat : \A f \in [1..n -> Nat] : f \in Seq(Nat) /\ Len(f) = n
  OBVIOUS
<1>7. windows = [k \in 1..5 |-> windows[k]] /\ hist = [l \in 1..5 |-> hist[l]]
  BY <1>4 DEF Windowed, Counted, Histograms
<1>8. \A k \in 1..5 : /\ windows[k] = [i \in 1..num_throughput_windows |-> windows[k][i]]
                      /\ hist[k] = [i \in 1..num_buckets |-> hist[k][i]]
  BY <1>5
<1>9. \A k \in 1..5 : /\ windows[k] \in Seq(Nat) /\ Len(windows[k]) = num_throughput_windows
                      /\ hist[k] \in Seq(Nat) /\ Len(hist[k]) = num_buckets
  BY <1>1, <1>5, <1>6
<1> QED BY <1>7, <1>8, <1>9

LEMMA ReportRight == Analyze!AnalysisAssumption /\ FigureInv => Analyze!ReportReadsBack
<1> SUFFICES ASSUME Analyze!AnalysisAssumption, FigureInv, at = "exited"
             PROVE  Analyze!read_binary_output = [throughput |-> windows, histogram |-> hist]
  BY DEF Analyze!ReportReadsBack
<1> DEFINE nw == num_throughput_windows
           nb == num_buckets
           W == Analyze!InTurn(windows)
           H == Analyze!InTurn(hist)
<1>1. nw \in Nat /\ nb \in Nat
  BY DEF Analyze!AnalysisAssumption
<1>2. /\ windows = [k \in 1..5 |-> [i \in 1..nw |-> windows[k][i]]]
      /\ \A k \in 1..5 : windows[k] \in Seq(Nat) /\ Len(windows[k]) = nw
      /\ hist = [l \in 1..5 |-> [i \in 1..nb |-> hist[l][i]]]
      /\ \A l \in 1..5 : hist[l] \in Seq(Nat) /\ Len(hist[l]) = nb
  BY SeriesAre DEF FigureInv
<1>3. /\ W \in Seq(Nat) /\ Len(W) = 5 * nw
      /\ \A k \in 1..5, i \in 1..nw : W[(k - 1) * nw + i] = windows[k][i]
  <2>1. W \in Seq(Nat) /\ Laid(W, windows, nw)
    BY <1>1, <1>2, InTurnAt
  <2> QED BY <2>1 DEF Laid
<1>4. /\ H \in Seq(Nat) /\ Len(H) = 5 * nb
      /\ \A l \in 1..5, i \in 1..nb : H[(l - 1) * nb + i] = hist[l][i]
  <2>1. H \in Seq(Nat) /\ Laid(H, hist, nb)
    BY <1>1, <1>2, InTurnAt
  <2> QED BY <2>1 DEF Laid
<1>5. /\ Analyze!Header \in Seq(Nat) /\ Len(Analyze!Header) = 6 /\ Analyze!Header[4] = nb /\ Analyze!Header[6] = nw
  <2>1. Analyze!Cardinality(Analyze!complete_txns) \in Nat /\ Analyze!Cardinality(Analyze!Measured) \in Nat
    BY FigureTxnsFinite, AnalyzeCardinality, FS_CardinalityType
  <2> DEFINE c == Analyze!Cardinality(Analyze!complete_txns)
             m == Analyze!Cardinality(Analyze!Measured)
  <2>2. Analyze!Header = <<NumTxns, c, m, nb, num_puppets, nw>>
    BY DEF Analyze!Header
  <2>3. NumTxns \in Nat /\ num_puppets \in Nat /\ c \in Nat /\ m \in Nat
    BY <2>1 DEF Analyze!AnalysisAssumption
  <2> HIDE DEF c, m
  <2> QED BY <1>1, <2>2, <2>3
<1>6. file = (Analyze!Header \o W) \o H
  BY DEF FigureInv
<1> HIDE DEF W, H
<1> DEFINE F == Cat(Analyze!Header, W)
<1>7. /\ F \in Seq(Nat) /\ Len(F) = 6 + 5 * nw
      /\ \A i \in 1..6 : F[i] = Analyze!Header[i]
      /\ \A i \in 1..(5 * nw) : F[6 + i] = W[i]
  <2>1. F \in Seq(Nat) /\ Joins(Analyze!Header, W, F)
    BY <1>3, <1>5, Joined
  <2> HIDE DEF F
  <2>2. Len(F) = 6 + 5 * nw
    BY <1>3, <1>5, <2>1 DEF Joins
  <2>3. \A i \in 1..6 : F[i] = Analyze!Header[i]
    BY <1>3, <1>5, <2>1 DEF Joins
  <2>4. \A i \in 1..(5 * nw) : F[6 + i] = W[i]
    BY <1>3, <1>5, <2>1 DEF Joins
  <2> QED BY <2>1, <2>2, <2>3, <2>4
<1> HIDE DEF F
<1>8. /\ file \in Seq(Nat) /\ Len(file) = 6 + 5 * nw + 5 * nb
      /\ \A i \in 1..(6 + 5 * nw) : file[i] = F[i]
      /\ \A i \in 1..(5 * nb) : file[6 + 5 * nw + i] = H[i]
  <2>1. file = Cat(F, H)
    BY <1>6 DEF F, Cat
  <2>2. file \in Seq(Nat) /\ Joins(F, H, file)
    BY <1>4, <1>7, <2>1, Joined
  <2>3. Len(file) = 6 + 5 * nw + 5 * nb
    BY <1>1, <1>4, <1>7, <2>2 DEF Joins
  <2>4. \A i \in 1..(6 + 5 * nw) : file[i] = F[i]
    BY <1>1, <1>4, <1>7, <2>2 DEF Joins
  <2>5. \A i \in 1..(5 * nb) : file[6 + 5 * nw + i] = H[i]
    BY <1>1, <1>4, <1>7, <2>2 DEF Joins
  <2> QED BY <2>2, <2>3, <2>4, <2>5
<1>9. file[4] = nb /\ file[6] = nw
  <2>1. 4 \in 1..6 /\ 6 \in 1..6 /\ 4 \in 1..(6 + 5 * nw) /\ 6 \in 1..(6 + 5 * nw)
    BY <1>1
  <2> QED BY <1>5, <1>7, <1>8, <2>1
<1>10. ASSUME NEW k \in 1..5
       PROVE  SubSeq(file, (6 + (k - 1) * nw) + 1, (6 + (k - 1) * nw) + nw) = windows[k]
  <2> DEFINE from == 6 + (k - 1) * nw
  <2>1. from \in Nat /\ from + nw <= 6 + 5 * nw /\ from + nw <= Len(file)
    <3>1. k = 1 \/ k = 2 \/ k = 3 \/ k = 4 \/ k = 5
      OBVIOUS
    <3>2. 1 - 1 = 0 /\ 2 - 1 = 1 /\ 3 - 1 = 2 /\ 4 - 1 = 3 /\ 5 - 1 = 4
      OBVIOUS
    <3>3. (k - 1) * nw \in Nat /\ (k - 1) * nw + nw <= 5 * nw
      BY <1>1, <3>1, <3>2
    <3> QED BY <1>1, <1>8, <3>3
  <2>2. \A i \in 1..nw : file[from + i] = windows[k][i]
    <3> SUFFICES ASSUME NEW i \in 1..nw PROVE file[from + i] = windows[k][i]
      OBVIOUS
    <3> DEFINE e == (k - 1) * nw + i
    <3>1. from + i = 6 + e /\ from + i \in 1..(6 + 5 * nw) /\ e \in 1..(5 * nw)
      BY <1>1, <2>1
    <3>2. W[e] = windows[k][i]
      BY <1>3
    <3> HIDE DEF e, from
    <3>3. file[from + i] = F[from + i]
      BY <1>8, <3>1
    <3>4. F[6 + e] = W[e]
      BY <1>7, <3>1
    <3> QED BY <3>1, <3>2, <3>3, <3>4
  <2> HIDE DEF from
  <2>3. SubSeq(file, from + 1, from + nw) = [i \in 1..nw |-> file[from + i]]
    BY <1>1, <1>8, <2>1, Cutting
  <2>4. [i \in 1..nw |-> file[from + i]] = [i \in 1..nw |-> windows[k][i]]
    BY <2>2
  <2>5. windows[k] = [i \in 1..nw |-> windows[k][i]]
    BY <1>2
  <2> QED BY <2>3, <2>4, <2>5 DEF from
<1>11. ASSUME NEW l \in 1..5
       PROVE  SubSeq(file, (6 + 5 * nw + (l - 1) * nb) + 1, (6 + 5 * nw + (l - 1) * nb) + nb)
                = hist[l]
  <2> DEFINE from == 6 + 5 * nw + (l - 1) * nb
  <2>1. from \in Nat /\ from + nb <= 6 + 5 * nw + 5 * nb /\ from + nb <= Len(file)
        /\ \A i \in 1..nb : (l - 1) * nb + i \in 1..(5 * nb)
    <3>1. l = 1 \/ l = 2 \/ l = 3 \/ l = 4 \/ l = 5
      OBVIOUS
    <3>2. 1 - 1 = 0 /\ 2 - 1 = 1 /\ 3 - 1 = 2 /\ 4 - 1 = 3 /\ 5 - 1 = 4
      OBVIOUS
    <3>3. (l - 1) * nb \in Nat /\ (l - 1) * nb + nb <= 5 * nb
      BY <1>1, <3>1, <3>2
    <3> QED BY <1>1, <1>8, <3>3
  <2>2. \A i \in 1..nb : file[from + i] = hist[l][i]
    <3> SUFFICES ASSUME NEW i \in 1..nb PROVE file[from + i] = hist[l][i]
      OBVIOUS
    <3> DEFINE e == (l - 1) * nb + i
    <3>1. from + i = 6 + 5 * nw + e /\ e \in 1..(5 * nb)
      BY <1>1, <2>1
    <3>2. H[e] = hist[l][i]
      BY <1>4
    <3> HIDE DEF e, from
    <3> QED BY <1>8, <3>1, <3>2
  <2> HIDE DEF from
  <2>3. SubSeq(file, from + 1, from + nb) = [i \in 1..nb |-> file[from + i]]
    BY <1>1, <1>8, <2>1, Cutting
  <2>4. [i \in 1..nb |-> file[from + i]] = [i \in 1..nb |-> hist[l][i]]
    BY <2>2
  <2>5. hist[l] = [i \in 1..nb |-> hist[l][i]]
    BY <1>2
  <2> QED BY <2>3, <2>4, <2>5 DEF from
<1>12. windows = [k \in 1..5 |-> windows[k]] /\ hist = [l \in 1..5 |-> hist[l]]
  BY <1>2
<1>13. Analyze!read_binary_output =
         [throughput |-> [k \in 1..5 |->
            SubSeq(file, (6 + (k - 1) * nw) + 1, (6 + (k - 1) * nw) + nw)],
          histogram |-> [l \in 1..5 |->
            SubSeq(file, (6 + 5 * nw + (l - 1) * nb) + 1, (6 + 5 * nw + (l - 1) * nb) + nb)]]
  BY <1>9 DEF Analyze!read_binary_output
<1>14. [k \in 1..5 |-> SubSeq(file, (6 + (k - 1) * nw) + 1, (6 + (k - 1) * nw) + nw)] = windows
  BY <1>10, <1>12
<1>15. [l \in 1..5 |-> SubSeq(file, (6 + 5 * nw + (l - 1) * nb) + 1,
                              (6 + 5 * nw + (l - 1) * nb) + nb)] = hist
  BY <1>11, <1>12
<1> QED BY <1>13, <1>14, <1>15

LEMMA FiguresHold == Analyze!AnalysisAssumption /\ FigureInv => Analyze!FiguresAgree
BY WindowsFull, PipelinesInOrder, LatenciesRight, HistogramsFull, ReportRight DEF Analyze!FiguresAgree

-----------------------------------------------------------------------------
(***************************************************************************)
(* The real executor, for any number of puppets and of workers at the      *)
(* host.  Never are there more ids on the way than places they take; were  *)
(* one lost or doubled, there would be fewer.                              *)
(***************************************************************************)
\* FiniteSets has been instantiated once more.
LEMMA ExecCounts == \A S : Exec!Cardinality(S) = Cardinality(S)
BY Zenon DEF Exec!Cardinality, Cardinality

Report == [txnId : Int, puppetId : Int]

WayTypes ==
  /\ next \in Int /\ numTxnScheduled \in Int
  /\ schedQ \in Seq(Report) /\ workDoneQ \in Seq(Report)
  /\ reqFF \in Seq(Int) /\ Len(reqFF) <= 1
  /\ doneFF \in Seq(Int) /\ Len(doneFF) <= 1
  /\ IsFiniteSet(atHost)

\* As many ids are on the way as places are taken, and the next is not among them.
WayInv ==
  /\ WayTypes
  /\ \A t \in Exec!OnTheWay : t \in Int /\ t < next
  /\ Cardinality(Exec!OnTheWay) = Exec!PlacesTaken
  /\ numTxnScheduled = Exec!PlacesTaken

\* The ids in a queue are no more than its entries.
LEMMA FewIn ==
  ASSUME NEW n \in Nat, NEW f, NEW S, S = {f[k] : k \in 1..n}
  PROVE  IsFiniteSet(S) /\ Cardinality(S) \in Nat /\ Cardinality(S) <= n
<1> DEFINE g == [k \in 1..n |-> f[k]]
<1>1. g \in Surjection(1..n, S)
  BY DEF Surjection
<1>2. IsFiniteSet(1..n) /\ Cardinality(1..n) = n
  BY FS_Interval
<1> HIDE DEF g
<1>3. IsFiniteSet(S) /\ Cardinality(S) <= Cardinality(1..n)
  BY <1>1, <1>2, FS_Surjection
<1> QED BY <1>2, <1>3, FS_CardinalityType

LEMMA FewInBoth ==
  ASSUME NEW S, NEW T, NEW m \in Nat, NEW n \in Nat, IsFiniteSet(S), IsFiniteSet(T),
         Cardinality(S) <= m, Cardinality(T) <= n
  PROVE  /\ IsFiniteSet(S \cup T) /\ Cardinality(S \cup T) \in Nat
         /\ Cardinality(S \cup T) <= m + n
<1>1. IsFiniteSet(S \cup T)
      /\ Cardinality(S \cup T) = Cardinality(S) + Cardinality(T) - Cardinality(S \cap T)
  BY FS_Union
<1>2. IsFiniteSet(S \cap T)
  BY FS_Intersection
<1>3. /\ Cardinality(S) \in Nat /\ Cardinality(T) \in Nat
      /\ Cardinality(S \cap T) \in Nat /\ Cardinality(S \cup T) \in Nat
  BY <1>1, <1>2, FS_CardinalityType
<1> QED BY <1>1, <1>3

LEMMA OneMore ==
  ASSUME NEW S, NEW x, IsFiniteSet(S)
  PROVE  /\ IsFiniteSet(S \cup {x}) /\ Cardinality(S) \in Nat
         /\ Cardinality(S \cup {x}) \in Nat /\ Cardinality(S \cup {x}) <= Cardinality(S) + 1
<1>1. IsFiniteSet(S \cup {x}) /\ Cardinality(S \cup {x}) =
        IF x \in S THEN Cardinality(S) ELSE Cardinality(S) + 1
  BY FS_AddElement
<1>2. Cardinality(S) \in Nat
  BY FS_CardinalityType
<1> QED BY <1>1, <1>2

LEMMA FewOnTheWay ==
  ASSUME WayTypes
  PROVE  /\ IsFiniteSet(Exec!OnTheWay) /\ Cardinality(Exec!OnTheWay) \in Nat
         /\ Exec!PlacesTaken = Len(schedQ) + Len(reqFF) + Cardinality(atHost)
                                 + Len(doneFF) + Len(workDoneQ)
         /\ Exec!PlacesTaken \in Nat
         /\ Cardinality(Exec!OnTheWay) <= Exec!PlacesTaken
<1> DEFINE S == {schedQ[k].txnId : k \in DOMAIN schedQ}
           R == {reqFF[k] : k \in DOMAIN reqFF}
           D == {doneFF[k] : k \in DOMAIN doneFF}
           W == {workDoneQ[k].txnId : k \in DOMAIN workDoneQ}
<1>1. /\ Len(schedQ) \in Nat /\ DOMAIN schedQ = 1..Len(schedQ)
      /\ Len(workDoneQ) \in Nat /\ DOMAIN workDoneQ = 1..Len(workDoneQ)
      /\ Len(reqFF) \in Nat /\ DOMAIN reqFF = 1..Len(reqFF)
      /\ Len(doneFF) \in Nat /\ DOMAIN doneFF = 1..Len(doneFF)
      /\ IsFiniteSet(atHost)
  BY DEF WayTypes
<1>2. IsFiniteSet(S) /\ Cardinality(S) \in Nat /\ Cardinality(S) <= Len(schedQ)
  <2> DEFINE f == [k \in 1..Len(schedQ) |-> schedQ[k].txnId]
  <2>1. S = {f[k] : k \in 1..Len(schedQ)}
    BY <1>1
  <2> HIDE DEF f, S
  <2> QED BY <1>1, <2>1, FewIn
<1>3. IsFiniteSet(R) /\ Cardinality(R) \in Nat /\ Cardinality(R) <= Len(reqFF)
  <2>1. R = {reqFF[k] : k \in 1..Len(reqFF)}
    BY <1>1
  <2> HIDE DEF R
  <2> QED BY <1>1, <2>1, FewIn
<1>4. IsFiniteSet(D) /\ Cardinality(D) \in Nat /\ Cardinality(D) <= Len(doneFF)
  <2>1. D = {doneFF[k] : k \in 1..Len(doneFF)}
    BY <1>1
  <2> HIDE DEF D
  <2> QED BY <1>1, <2>1, FewIn
<1>5. IsFiniteSet(W) /\ Cardinality(W) \in Nat /\ Cardinality(W) <= Len(workDoneQ)
  <2> DEFINE f == [k \in 1..Len(workDoneQ) |-> workDoneQ[k].txnId]
  <2>1. W = {f[k] : k \in 1..Len(workDoneQ)}
    BY <1>1
  <2> HIDE DEF f, W
  <2> QED BY <1>1, <2>1, FewIn
<1>6. Exec!OnTheWay = (((S \cup R) \cup atHost) \cup D) \cup W
  BY DEF Exec!OnTheWay
<1>7. Exec!PlacesTaken = Len(schedQ) + Len(reqFF) + Cardinality(atHost)
                           + Len(doneFF) + Len(workDoneQ)
  BY ExecCounts DEF Exec!PlacesTaken
<1> HIDE DEF S, R, D, W
<1> DEFINE a == Len(schedQ)  r == Len(reqFF)  h == Cardinality(atHost)
           d == Len(doneFF)  w0 == Len(workDoneQ)
<1>8. a \in Nat /\ r \in Nat /\ h \in Nat /\ d \in Nat /\ w0 \in Nat
  BY <1>1, FS_CardinalityType
<1>9. /\ Cardinality(S) <= a /\ Cardinality(R) <= r /\ Cardinality(atHost) <= h
      /\ Cardinality(D) <= d /\ Cardinality(W) <= w0
  BY <1>2, <1>3, <1>4, <1>5, <1>8
<1> HIDE DEF a, r, h, d, w0
<1>10. IsFiniteSet(S \cup R) /\ Cardinality(S \cup R) <= a + r
  BY <1>2, <1>3, <1>8, <1>9, FewInBoth
<1>11. /\ IsFiniteSet((S \cup R) \cup atHost)
       /\ Cardinality((S \cup R) \cup atHost) <= (a + r) + h
  BY <1>1, <1>8, <1>9, <1>10, a + r \in Nat, FewInBoth
<1>12. /\ IsFiniteSet(((S \cup R) \cup atHost) \cup D)
       /\ Cardinality(((S \cup R) \cup atHost) \cup D) <= (a + r + h) + d
  BY <1>4, <1>8, <1>9, <1>11, a + r + h \in Nat, FewInBoth
<1>13. /\ IsFiniteSet(Exec!OnTheWay) /\ Cardinality(Exec!OnTheWay) \in Nat
       /\ Cardinality(Exec!OnTheWay) <= (a + r + h + d) + w0
  BY <1>5, <1>6, <1>8, <1>9, <1>12, a + r + h + d \in Nat, FewInBoth
<1>14. Exec!PlacesTaken = a + r + h + d + w0
  BY <1>7 DEF a, r, h, d, w0
<1> QED BY <1>7, <1>8, <1>13, <1>14

\* What leaves a queue at its head.
LEMMA ShiftedIds ==
  ASSUME NEW q \in Seq(Report), NEW r \in Seq(Report), Len(q) > 0, Len(r) = Len(q) - 1,
         \A k \in 1..Len(r) : r[k] = q[k + 1]
  PROVE  {q[k].txnId : k \in DOMAIN q} = {r[k].txnId : k \in DOMAIN r} \cup {q[1].txnId}
<1>1. Len(q) \in Nat /\ DOMAIN q = 1..Len(q) /\ DOMAIN r = 1..Len(r) /\ Len(r) \in Nat
  OBVIOUS
<1>2. ASSUME NEW k \in 1..Len(q)
      PROVE  q[k].txnId \in {r[j].txnId : j \in DOMAIN r} \cup {q[1].txnId}
  <2>1. CASE k = 1
    BY <2>1
  <2>2. CASE k # 1
    <3>1. k - 1 \in 1..Len(r) /\ (k - 1) + 1 = k
      BY <1>1, <2>2
    <3>2. r[k - 1] = q[k]
      BY <3>1
    <3> QED BY <1>1, <3>1, <3>2
  <2> QED BY <2>1, <2>2
<1>3. ASSUME NEW j \in 1..Len(r) PROVE r[j].txnId \in {q[k].txnId : k \in DOMAIN q}
  <2>1. j + 1 \in 1..Len(q) /\ r[j] = q[j + 1]
    BY <1>1
  <2> QED BY <1>1, <2>1
<1>4. q[1].txnId \in {q[k].txnId : k \in DOMAIN q}
  BY <1>1
<1> QED BY <1>1, <1>2, <1>3, <1>4

LEMMA WayInit == Exec!Init => WayInv
<1> SUFFICES ASSUME Exec!Init PROVE WayInv
  OBVIOUS
<1>1. /\ next = 1 /\ numTxnScheduled = 0 /\ atHost = {}
      /\ schedQ = <<>> /\ workDoneQ = <<>> /\ reqFF = <<>> /\ doneFF = <<>>
  BY DEF Exec!Init
<1>2. WayTypes
  BY <1>1, FS_EmptySet DEF WayTypes
<1>3. Exec!OnTheWay = {}
  BY <1>1 DEF Exec!OnTheWay
<1>4. Cardinality({}) = 0 /\ Exec!PlacesTaken = 0
  BY <1>1, <1>2, FewOnTheWay, FS_EmptySet
<1> QED BY <1>1, <1>2, <1>3, <1>4 DEF WayInv

\* It is enough that no id disappears for good: there cannot be more of them.
LEMMA NoneLost ==
  ASSUME WayTypes, WayTypes',
         \A t \in Exec!OnTheWay' : t \in Int /\ t < next',
         Cardinality(Exec!OnTheWay') >= Exec!PlacesTaken',
         numTxnScheduled' = Exec!PlacesTaken' \/ numTxnScheduled' = Cardinality(Exec!OnTheWay')
  PROVE  WayInv'
<1>1. (WayTypes =>
         /\ Cardinality(Exec!OnTheWay) \in Nat /\ Exec!PlacesTaken \in Nat
         /\ Cardinality(Exec!OnTheWay) <= Exec!PlacesTaken)'
  BY FewOnTheWay, PTL
<1>2. Cardinality(Exec!OnTheWay)' \in Nat /\ Exec!PlacesTaken' \in Nat
      /\ Cardinality(Exec!OnTheWay)' <= Exec!PlacesTaken'
  BY <1>1
<1>3. Cardinality(Exec!OnTheWay)' = Exec!PlacesTaken'
  BY <1>2
<1> QED BY <1>3 DEF WayInv

LEMMA WayNext == WayInv /\ [Exec!Next]_Exec!vars => WayInv'
<1> SUFFICES ASSUME WayInv, [Exec!Next]_Exec!vars PROVE WayInv'
  OBVIOUS
<1>t. /\ WayTypes /\ next \in Int /\ numTxnScheduled \in Int
      /\ schedQ \in Seq(Report) /\ workDoneQ \in Seq(Report)
      /\ reqFF \in Seq(Int) /\ Len(reqFF) \in 0..1
      /\ doneFF \in Seq(Int) /\ Len(doneFF) \in 0..1
      /\ IsFiniteSet(atHost) /\ Cardinality(atHost) \in Nat
      /\ Len(schedQ) \in Nat /\ Len(workDoneQ) \in Nat
  <2>1. WayTypes
    BY DEF WayInv
  <2>2. IsFiniteSet(atHost) /\ Cardinality(atHost) \in Nat
    BY <2>1, FS_CardinalityType DEF WayTypes
  <2>3. /\ schedQ \in Seq(Report) /\ workDoneQ \in Seq(Report)
        /\ reqFF \in Seq(Int) /\ Len(reqFF) <= 1 /\ doneFF \in Seq(Int) /\ Len(doneFF) <= 1
        /\ next \in Int /\ numTxnScheduled \in Int
    BY <2>1 DEF WayTypes
  <2>4. /\ Len(schedQ) \in Nat /\ Len(workDoneQ) \in Nat
        /\ Len(reqFF) \in Nat /\ Len(doneFF) \in Nat
    BY <2>3, LenProperties
  <2>5. \A n \in Nat : n <= 1 => n \in 0..1
    OBVIOUS
  <2>6. Len(reqFF) \in 0..1 /\ Len(doneFF) \in 0..1
    BY <2>3, <2>4, <2>5, Zenon
  <2> QED BY <2>1, <2>2, <2>3, <2>4, <2>6
<1>w. /\ IsFiniteSet(Exec!OnTheWay) /\ Exec!PlacesTaken \in Nat
      /\ Cardinality(Exec!OnTheWay) = Exec!PlacesTaken
      /\ numTxnScheduled = Exec!PlacesTaken
      /\ \A t \in Exec!OnTheWay : t \in Int /\ t < next
      /\ Exec!PlacesTaken = Len(schedQ) + Len(reqFF) + Cardinality(atHost)
                              + Len(doneFF) + Len(workDoneQ)
  BY <1>t, FewOnTheWay DEF WayInv
\* The places are counted in the same way after the step.
<1>p. Exec!PlacesTaken' = Len(schedQ') + Len(reqFF') + Cardinality(atHost')
                            + Len(doneFF') + Len(workDoneQ')
  BY ExecCounts DEF Exec!PlacesTaken
<1>1. ASSUME NEW p \in Exec!Puppets, Exec!Schedule(p) PROVE WayInv'
  <2> DEFINE r == [txnId |-> next, puppetId |-> p]
  <2>1. /\ schedQ' = Append(schedQ, r) /\ next' = next + 1
        /\ numTxnScheduled' = numTxnScheduled + 1
        /\ UNCHANGED <<workDoneQ, reqFF, doneFF, atHost>>
    BY <1>1 DEF Exec!Schedule
  <2>2. r \in Report /\ r.txnId = next
    BY <1>t DEF Report, Exec!Puppets
  <2> HIDE DEF r
  <2>3. /\ schedQ' \in Seq(Report) /\ Len(schedQ') = Len(schedQ) + 1
        /\ \A k \in 1..Len(schedQ) : schedQ'[k] = schedQ[k]
        /\ schedQ'[Len(schedQ) + 1] = r
    BY <1>t, <2>1, <2>2
  <2>4. WayTypes'
    BY <1>t, <2>1, <2>3 DEF WayTypes
  <2>5. {schedQ'[k].txnId : k \in DOMAIN schedQ'}
          = {schedQ[k].txnId : k \in DOMAIN schedQ} \cup {next}
    <3>1. DOMAIN schedQ' = DOMAIN schedQ \cup {Len(schedQ) + 1} /\ DOMAIN schedQ = 1..Len(schedQ)
      BY <1>t, <2>3
    <3> QED BY <2>2, <2>3, <3>1
  <2>6. Exec!OnTheWay' = Exec!OnTheWay \cup {next}
    BY <2>1, <2>5 DEF Exec!OnTheWay
  <2>7. Cardinality(Exec!OnTheWay \cup {next}) = Cardinality(Exec!OnTheWay) + 1
    <3>1. next \notin Exec!OnTheWay
      BY <1>t, <1>w
    <3> QED BY <1>w, <3>1, FS_AddElement
  <2>8. Exec!PlacesTaken' = Exec!PlacesTaken + 1
    <3>1. Len(schedQ') = Len(schedQ) + 1
      BY <2>3
    <3>2. Exec!PlacesTaken' = Len(schedQ') + Len(reqFF) + Cardinality(atHost)
                                + Len(doneFF) + Len(workDoneQ)
      BY <1>p, <2>1
    <3>3. Exec!PlacesTaken = Len(schedQ) + Len(reqFF) + Cardinality(atHost)
                               + Len(doneFF) + Len(workDoneQ)
      BY <1>w
    <3> DEFINE a == Len(schedQ)
               b == Len(reqFF)
               c == Cardinality(atHost)
               d == Len(doneFF)
               e == Len(workDoneQ)
    <3>4. a \in Nat /\ b \in Int /\ c \in Nat /\ d \in Int /\ e \in Nat
      BY <1>t
    <3>5. /\ Exec!PlacesTaken' = (a + 1) + b + c + d + e
          /\ Exec!PlacesTaken = a + b + c + d + e
      BY <3>1, <3>2, <3>3, Zenon
    <3> HIDE DEF a, b, c, d, e
    <3> QED BY <3>4, <3>5
  <2>9. \A t \in Exec!OnTheWay' : t \in Int /\ t < next'
    BY <1>t, <1>w, <2>1, <2>6
  <2>10. Cardinality(Exec!OnTheWay') = Exec!PlacesTaken' /\ Exec!PlacesTaken' \in Nat
         /\ numTxnScheduled' = Exec!PlacesTaken'
    BY <1>w, <2>1, <2>6, <2>7, <2>8
  <2> QED BY <2>4, <2>9, <2>10 DEF WayInv
<1>2. CASE Exec!request_put
  <2>1. /\ schedQ # <<>> /\ schedQ' = Tail(schedQ) /\ reqFF = <<>>
        /\ reqFF' = <<schedQ[1].txnId>>
        /\ UNCHANGED <<numTxnScheduled, next, workDoneQ, doneFF, atHost>>
    BY <1>2 DEF Exec!request_put
  <2>2. /\ schedQ' \in Seq(Report) /\ Len(schedQ') = Len(schedQ) - 1 /\ Len(schedQ) > 0
        /\ \A k \in 1..Len(schedQ') : schedQ'[k] = schedQ[k + 1]
    BY <1>t, <2>1
  <2>3. schedQ[1].txnId \in Int
    <3>1. schedQ[1] \in Report
      BY <1>t, <2>2
    <3> QED BY <3>1 DEF Report
  <2>4. /\ reqFF' \in Seq(Int) /\ Len(reqFF') = 1 /\ Len(reqFF) = 0
        /\ DOMAIN reqFF' = {1} /\ DOMAIN reqFF = {} /\ reqFF'[1] = schedQ[1].txnId
    BY <2>1, <2>3
  <2>5. WayTypes'
    BY <1>t, <2>1, <2>2, <2>4 DEF WayTypes
  <2>6. {schedQ[k].txnId : k \in DOMAIN schedQ}
          = {schedQ'[k].txnId : k \in DOMAIN schedQ'} \cup {schedQ[1].txnId}
    BY <1>t, <2>2, ShiftedIds
  <2>7. Exec!OnTheWay' = Exec!OnTheWay
    <3>1. {reqFF'[k] : k \in DOMAIN reqFF'} = {schedQ[1].txnId}
          /\ {reqFF[k] : k \in DOMAIN reqFF} = {}
      BY <2>4
    <3> QED BY <2>1, <2>6, <3>1 DEF Exec!OnTheWay
  <2>8. Exec!PlacesTaken' = Exec!PlacesTaken
    BY <1>t, <1>w, <1>p, <2>1, <2>2, <2>4
  <2> QED BY <1>w, <2>1, <2>5, <2>7, <2>8 DEF WayInv
<1>3. CASE Exec!transactionScheduled
  <2> DEFINE t == reqFF[1]
  <2>1. /\ reqFF # <<>> /\ reqFF' = <<>> /\ atHost' = atHost \cup {t}
        /\ UNCHANGED <<numTxnScheduled, next, schedQ, workDoneQ, doneFF>>
    BY <1>3 DEF Exec!transactionScheduled
  <2>2. Len(reqFF) = 1 /\ Len(reqFF') = 0 /\ DOMAIN reqFF = {1} /\ DOMAIN reqFF' = {}
    BY <1>t, <2>1
  <2> HIDE DEF t
  <2>3. /\ IsFiniteSet(atHost') /\ Cardinality(atHost') \in Nat
        /\ Cardinality(atHost') <= Cardinality(atHost) + 1
    BY <1>t, <2>1, OneMore
  <2>4. WayTypes'
    BY <1>t, <2>1, <2>2, <2>3 DEF WayTypes
  <2>5. Exec!OnTheWay' = Exec!OnTheWay
    <3>1. {reqFF[k] : k \in DOMAIN reqFF} = {t} /\ {reqFF'[k] : k \in DOMAIN reqFF'} = {}
      BY <2>2 DEF t
    <3> QED BY <2>1, <3>1 DEF Exec!OnTheWay
  <2>6. Exec!PlacesTaken' <= Exec!PlacesTaken /\ Exec!PlacesTaken' \in Nat
    <3> DEFINE h == Cardinality(atHost)
               k == Cardinality(atHost')
    <3>1. h \in Nat /\ k \in Nat /\ k <= h + 1
      BY <1>t, <2>3
    <3>2. Exec!PlacesTaken = Len(schedQ) + 1 + h + Len(doneFF) + Len(workDoneQ)
      BY <1>w, <2>2
    <3>3. Exec!PlacesTaken' = Len(schedQ) + 0 + k + Len(doneFF) + Len(workDoneQ)
      BY <1>p, <2>1, <2>2
    <3> HIDE DEF h, k
    <3> QED BY <1>t, <3>1, <3>2, <3>3
  <2>7. /\ \A x \in Exec!OnTheWay' : x \in Int /\ x < next'
        /\ Cardinality(Exec!OnTheWay') >= Exec!PlacesTaken'
        /\ numTxnScheduled' = Cardinality(Exec!OnTheWay')
    BY <1>w, <2>1, <2>5, <2>6
  <2> QED BY <1>t, <2>4, <2>7, NoneLost
<1>4. ASSUME NEW t \in atHost, Exec!reportWorkDone(t) PROVE WayInv'
  <2>1. /\ atHost' = atHost \ {t} /\ doneFF = <<>> /\ doneFF' = <<t>>
        /\ UNCHANGED <<numTxnScheduled, next, schedQ, workDoneQ, reqFF>>
    BY <1>4 DEF Exec!reportWorkDone
  <2>2. t \in Int
    <3>1. t \in Exec!OnTheWay
      BY <1>4 DEF Exec!OnTheWay
    <3> QED BY <1>w, <3>1
  <2>3. /\ doneFF' \in Seq(Int) /\ Len(doneFF') = 1 /\ Len(doneFF) = 0
        /\ DOMAIN doneFF' = {1} /\ DOMAIN doneFF = {} /\ doneFF'[1] = t
    BY <2>1, <2>2
  <2>4. IsFiniteSet(atHost') /\ Cardinality(atHost') = Cardinality(atHost) - 1
    BY <1>t, <1>4, <2>1, FS_RemoveElement
  <2>5. WayTypes'
    BY <1>t, <2>1, <2>3, <2>4 DEF WayTypes
  <2>6. Exec!OnTheWay' = Exec!OnTheWay
    <3>1. {doneFF'[k] : k \in DOMAIN doneFF'} = {t} /\ {doneFF[k] : k \in DOMAIN doneFF} = {}
      BY <2>3
    <3>2. atHost = atHost' \cup {t}
      BY <1>4, <2>1
    <3> QED BY <2>1, <3>1, <3>2 DEF Exec!OnTheWay
  <2>7. Exec!PlacesTaken' = Exec!PlacesTaken
    BY <1>t, <1>w, <1>p, <2>1, <2>3, <2>4
  <2> QED BY <1>w, <2>1, <2>5, <2>6, <2>7 DEF WayInv
<1>5. CASE Exec!response_get
  <2> DEFINE r == [txnId |-> doneFF[1], puppetId |-> 0]
  <2>1. /\ doneFF # <<>> /\ doneFF' = <<>> /\ workDoneQ' = Append(workDoneQ, r)
        /\ UNCHANGED <<numTxnScheduled, next, schedQ, reqFF, atHost>>
    BY <1>5 DEF Exec!response_get
  <2>2. /\ Len(doneFF) = 1 /\ Len(doneFF') = 0 /\ DOMAIN doneFF = {1} /\ DOMAIN doneFF' = {}
        /\ doneFF' \in Seq(Int) /\ doneFF[1] \in Int
    BY <1>t, <2>1
  <2>3. r \in Report /\ r.txnId = doneFF[1]
    BY <2>2 DEF Report
  <2> HIDE DEF r
  <2>4. /\ workDoneQ' \in Seq(Report) /\ Len(workDoneQ') = Len(workDoneQ) + 1
        /\ \A k \in 1..Len(workDoneQ) : workDoneQ'[k] = workDoneQ[k]
        /\ workDoneQ'[Len(workDoneQ) + 1] = r
    BY <1>t, <2>1, <2>3
  <2>5. WayTypes'
    BY <1>t, <2>1, <2>2, <2>4 DEF WayTypes
  <2>6. {workDoneQ'[k].txnId : k \in DOMAIN workDoneQ'}
          = {workDoneQ[k].txnId : k \in DOMAIN workDoneQ} \cup {doneFF[1]}
    <3>1. /\ DOMAIN workDoneQ' = DOMAIN workDoneQ \cup {Len(workDoneQ) + 1}
          /\ DOMAIN workDoneQ = 1..Len(workDoneQ)
      BY <1>t, <2>4
    <3> QED BY <2>3, <2>4, <3>1
  <2>7. Exec!OnTheWay' = Exec!OnTheWay
    <3>1. {doneFF[k] : k \in DOMAIN doneFF} = {doneFF[1]} /\ {doneFF'[k] : k \in DOMAIN doneFF'} = {}
      BY <2>2
    <3> QED BY <2>1, <2>6, <3>1 DEF Exec!OnTheWay
  <2>8. Exec!PlacesTaken' = Exec!PlacesTaken
    BY <1>t, <1>w, <1>p, <2>1, <2>2, <2>4
  <2> QED BY <1>w, <2>1, <2>5, <2>7, <2>8 DEF WayInv
<1>6. CASE Exec!clearWorkDone
  <2> DEFINE h == workDoneQ[1].txnId
  <2>1. /\ workDoneQ # <<>> /\ workDoneQ' = Tail(workDoneQ)
        /\ numTxnScheduled' = numTxnScheduled - 1
        /\ UNCHANGED <<next, schedQ, reqFF, doneFF, atHost>>
    BY <1>6 DEF Exec!clearWorkDone
  <2>2. /\ workDoneQ' \in Seq(Report) /\ Len(workDoneQ') = Len(workDoneQ) - 1
        /\ Len(workDoneQ) > 0
        /\ \A k \in 1..Len(workDoneQ') : workDoneQ'[k] = workDoneQ[k + 1]
    BY <1>t, <2>1
  <2>3. WayTypes'
    BY <1>t, <2>1, <2>2 DEF WayTypes
  <2> HIDE DEF h
  <2>4. {workDoneQ[k].txnId : k \in DOMAIN workDoneQ}
          = {workDoneQ'[k].txnId : k \in DOMAIN workDoneQ'} \cup {h}
    BY <1>t, <2>2, ShiftedIds DEF h
  <2>5. Exec!OnTheWay = Exec!OnTheWay' \cup {h}
    BY <2>1, <2>4 DEF Exec!OnTheWay
  <2>6. Exec!PlacesTaken' = Exec!PlacesTaken - 1
    BY <1>t, <1>w, <1>p, <2>1, <2>2
  <2>7. IsFiniteSet(Exec!OnTheWay') /\ Cardinality(Exec!OnTheWay') \in Nat
    <3>1. Exec!OnTheWay' \in SUBSET Exec!OnTheWay
      BY <2>5
    <3> QED BY <1>w, <3>1, FS_Subset, FS_CardinalityType
  <2>8. Cardinality(Exec!OnTheWay') + 1 >= Cardinality(Exec!OnTheWay)
    <3>1. Cardinality(Exec!OnTheWay' \cup {h}) <= Cardinality(Exec!OnTheWay') + 1
          /\ Cardinality(Exec!OnTheWay' \cup {h}) \in Nat
      BY <2>7, OneMore
    <3> QED BY <2>5, <2>7, <3>1
  <2>9. /\ \A x \in Exec!OnTheWay' : x \in Int /\ x < next'
        /\ Cardinality(Exec!OnTheWay') >= Exec!PlacesTaken'
        /\ numTxnScheduled' = Exec!PlacesTaken'
    BY <1>w, <2>1, <2>5, <2>6, <2>7, <2>8
  <2> QED BY <1>t, <2>3, <2>9, NoneLost
<1>7. CASE UNCHANGED Exec!vars
  BY <1>7, <1>p, <1>w DEF Exec!vars, WayInv, WayTypes, Exec!OnTheWay
<1> QED BY <1>1, <1>2, <1>3, <1>4, <1>5, <1>6, <1>7 DEF Exec!Next

LEMMA ReportsHold == WayInv => Exec!EachReportedOnce
BY ExecCounts DEF WayInv, Exec!EachReportedOnce

-----------------------------------------------------------------------------
(***************************************************************************)
(* The runner by the clock, for every command line: every transaction that *)
(* a puppet has begun is one that it has started, and by the next sample   *)
(* something is completed that a puppet works on, that is waiting for one, *)
(* or that the client has still to submit.                                 *)
(***************************************************************************)
\* The threads have been started.
Running == at \notin {"parse", "init", "fatal"}

\* What the puppets have begun: what is completed, and what they work on.
Working == {p \in Clock!Puppets : left[p] > 0}
Begun == Clock!Completed \cup {<<p, num_completed[p] + 1>> : p \in Working}

MainTypes ==
  /\ args \in Args
  /\ at \in {"parse", "init", "sample", "sleep", "fatal", "timeout", "stuck",
             "success"}
  /\ sample_period \in Int /\ now \in Nat /\ second \in Nat /\ prev \in Int
  /\ wake \in Nat /\ submitted \in 0..NumTxns /\ started \in 0..submitted
  /\ client_left \in Nat

Refusals ==
  /\ at = "fatal" => ~ (/\ Clock!Numbers /\ args.workload /\ NumTxns > 0
                        /\ Clock!Recording => args.period > 0)
  /\ at = "init" => /\ args.timeout > 0 /\ args.work >= 0 /\ args.clients > 0
                    /\ args.puppets > 0 /\ args.workload
  /\ at # "parse" => sample_period = Clock!Period
  /\ Running => Clock!Numbers /\ sample_period >= 0

PuppetTypes ==
  /\ left \in [Clock!Puppets -> 0..args.work] /\ num_completed \in [Clock!Puppets -> Nat]

\* Each transaction a puppet has started is one that it has begun.
AllCounted == IsFiniteSet(Begun) /\ started = Cardinality(Begun)

Begins == /\ now = 0 /\ second = 0 /\ prev = -1 /\ wake = 0 /\ started = 0
          /\ submitted = 0 /\ client_left = 0

ByTheClock ==
  /\ second <= args.timeout /\ wake = second * Second /\ now <= wake
  /\ at = "sample" => now = wake
  /\ at = "sleep" => prev # -1

\* The client waits no longer than it should, and when it has waited for the
\* time that a transaction takes, the last one is done or another one, on which
\* a puppet has been at work, will be before it.
Paced ==
  /\ client_left <= Clock!client_sim
  /\ args.work > 0 /\ client_left > 2 * args.work =>
       \/ started < submitted
       \/ \E p \in Working : left[p] >= client_left - 2 * args.work

\* Something will be completed before the next sample.
Takes == IF args.work = 0 THEN 1 ELSE args.work

Soon ==
  \/ \E p \in Working : left[p] <= wake - now
  \/ started < submitted /\ Takes <= wake - now
  \/ submitted < NumTxns /\ client_left + Takes <= wake - now

Progress == prev # -1 => /\ prev < NumTxns /\ prev <= Clock!sum
                         /\ Clock!sum = prev => Soon

Verdicts ==
  /\ at = "success" => Clock!sum = NumTxns
  /\ at = "stuck" => Clock!Pace > Second

ClockInv ==
  /\ MainTypes /\ Refusals
  /\ ~ Running => Begins
  /\ Running => PuppetTypes /\ AllCounted /\ ByTheClock /\ Paced
  /\ Clock!Up /\ Clock!Pace <= Second => Progress
  /\ Verdicts

-----------------------------------------------------------------------------
\* FiniteSets has been instantiated once more.
LEMMA ClockCounts == \A S : Clock!Cardinality(S) = Cardinality(S)
BY Zenon DEF Clock!Cardinality, Cardinality

\* A set that lies in a finite one.
LEMMA SetGrows ==
  ASSUME NEW S, NEW T, IsFiniteSet(T), S \subseteq T
  PROVE  /\ IsFiniteSet(S) /\ Cardinality(S) \in Nat /\ Cardinality(T) \in Nat
         /\ Cardinality(S) <= Cardinality(T)
         /\ \A x : x \in T /\ x \notin S => Cardinality(S) < Cardinality(T)
<1>1. /\ IsFiniteSet(S) /\ Cardinality(S) <= Cardinality(T)
      /\ Cardinality(S) = Cardinality(T) => S = T
  BY FS_Subset
<1>2. Cardinality(S) \in Nat /\ Cardinality(T) \in Nat
  BY <1>1, FS_CardinalityType
<1> QED BY <1>1, <1>2

LEMMA CompletedIs ==
  ASSUME PuppetTypes
  PROVE  Clock!Completed = {c \in Clock!Puppets \X (Nat \ {0}) : c[2] <= num_completed[c[1]]}
<1>1. DOMAIN num_completed = Clock!Puppets /\ \A p \in Clock!Puppets : num_completed[p] \in Nat
  BY DEF PuppetTypes
<1> QED BY <1>1 DEF Clock!Completed

LEMMA CompletedIsNext ==
  ASSUME PuppetTypes'
  PROVE  Clock!Completed' = {c \in Clock!Puppets' \X (Nat \ {0}) : c[2] <= num_completed'[c[1]]}
<1>1. /\ DOMAIN num_completed' = Clock!Puppets'
      /\ \A p \in Clock!Puppets' : num_completed'[p] \in Nat
  BY DEF PuppetTypes
<1> QED BY <1>1 DEF Clock!Completed

\* How much is completed, and when it is all that was begun.
LEMMA Counting ==
  ASSUME IsFiniteSet(Begun), started = Cardinality(Begun)
  PROVE  /\ IsFiniteSet(Clock!Completed) /\ Clock!sum \in Nat /\ Clock!sum <= started
         /\ Working = {} => Clock!sum = started
<1>1. Clock!Completed \subseteq Begun
  BY DEF Begun
<1>2. Working = {} => Clock!Completed = Begun
  BY DEF Begun
<1> QED BY <1>1, <1>2, SetGrows, ClockCounts DEF Clock!sum

LEMMA ClockInit == Clock!ClockAssumption /\ Clock!Init => ClockInv
BY DEF Clock!ClockAssumption, Clock!Init, ClockInv, MainTypes, Refusals, Begins, Running,
       Clock!Up, Verdicts

LEMMA ParseKeeps == Clock!ClockAssumption /\ ClockInv /\ Clock!parse_args => ClockInv'
<1> SUFFICES ASSUME Clock!ClockAssumption, ClockInv, Clock!parse_args PROVE ClockInv'
  OBVIOUS
<1>1. /\ args' = args /\ args \in Args /\ sample_period' = Clock!Period
      /\ UNCHANGED <<now, submitted, client_left, started, second, prev, wake>>
      /\ at = "parse" /\ at' \in {"fatal", "init"}
  BY DEF Clock!parse_args, ClockInv, MainTypes, Clock!mainVars, Clock!puppetVars,
         Clock!clientVars
<1>2. args.period \in Int \ {0} /\ args.timeout \in Int /\ args.work \in Int
      /\ args.clients \in Int /\ args.puppets \in Int /\ args.workload \in BOOLEAN
  BY <1>1 DEF Clock!ClockAssumption
<1>3. MainTypes'
  BY <1>1, <1>2 DEF ClockInv, MainTypes, Clock!Period
<1>4. Begins' /\ ~ Running'
  BY <1>1 DEF ClockInv, Begins, Running
<1>5. /\ Clock!Period' = Clock!Period /\ (Clock!Dumping => Clock!Period # 0)
      /\ Clock!Numbers' = Clock!Numbers /\ Clock!Recording' = Clock!Recording
  BY <1>1, <1>2 DEF Clock!Period, Clock!Dumping, Clock!Numbers, Clock!Recording
<1>6. Refusals'
  BY <1>1, <1>2, <1>4, <1>5 DEF Refusals, Clock!parse_args, Clock!Numbers,
                                Clock!ClockAssumption
<1>7. Verdicts' /\ ~ Clock!Up'
  BY <1>1 DEF Verdicts, Clock!Up
<1> QED BY <1>3, <1>4, <1>6, <1>7 DEF ClockInv

LEMMA StartUpKeeps == Clock!ClockAssumption /\ ClockInv /\ Clock!StartUp => ClockInv'
<1> SUFFICES ASSUME Clock!ClockAssumption, ClockInv, Clock!StartUp PROVE ClockInv'
  OBVIOUS
<1>1. /\ UNCHANGED <<args, sample_period, now, submitted, client_left, started, second,
                     prev, wake>>
      /\ at = "init" /\ at' \in {"fatal", "sample"} /\ args \in Args
  BY DEF Clock!StartUp, ClockInv, MainTypes, Clock!mainVars, Clock!clientVars
<1>2. args.timeout > 0 /\ args.work >= 0 /\ args.clients > 0 /\ args.puppets > 0
      /\ args.workload /\ sample_period = Clock!Period /\ Begins
  BY <1>1 DEF ClockInv, Refusals, Begins, Running
<1>3. args.timeout \in Int /\ args.work \in Int
      /\ args.clients \in Int /\ args.puppets \in Int /\ args.period \in Int
      /\ sample_period \in Int
  BY <1>1 DEF Clock!ClockAssumption, ClockInv, MainTypes
<1>4. MainTypes'
  BY <1>1 DEF ClockInv, MainTypes
<1> DEFINE refused == \/ sample_period < 0 \/ NumTxns = 0
                      \/ args.clients > MAX_CLIENTS \/ args.puppets > MAX_PUPPETS
<1>5. CASE refused
  <2>1. at' = "fatal"
    BY <1>5 DEF Clock!StartUp
  <2>2. Refusals'
    BY <1>1, <1>2, <1>3, <1>5, <2>1
       DEF Refusals, Clock!Numbers, Running, Clock!Period, Clock!Dumping,
           Clock!Recording, Clock!ClockAssumption
  <2> QED BY <1>1, <1>2, <1>4, <2>1, <2>2 DEF ClockInv, Begins, Running, Clock!Up, Verdicts
<1>6. CASE ~ refused
  <2>1. /\ at' = "sample" /\ left' = [p \in Clock!Puppets |-> 0]
        /\ num_completed' = [p \in Clock!Puppets |-> 0]
    BY <1>6 DEF Clock!StartUp
  <2>2. Refusals'
    BY <1>1, <1>2, <1>3, <1>6, <2>1
       DEF Refusals, Clock!Numbers, Running, Clock!Period, Clock!Dumping,
           Clock!Recording, Clock!ClockAssumption
  <2>3. PuppetTypes' /\ Clock!Puppets' = Clock!Puppets
    BY <1>1, <1>2, <1>3, <2>1 DEF PuppetTypes, Clock!Puppets
  <2>4. Clock!Completed' = {} /\ Working' = {}
    BY <2>1, <2>3 DEF Clock!Completed, Working
  <2>5. AllCounted'
    <3>1. Begun' = {}
      BY <2>4 DEF Begun
    <3> QED BY <1>1, <1>2, <3>1, FS_EmptySet DEF AllCounted, Begins
  <2>6. ByTheClock'
    BY <1>1, <1>2, <1>3, <2>1 DEF ByTheClock, Begins, Clock!ClockAssumption
  <2>7. Progress' /\ Verdicts' /\ Running'
    BY <1>1, <1>2, <2>1 DEF Progress, Begins, Verdicts, Running
  <2>8. Paced'
    BY <1>1, <1>2, <1>3 DEF Paced, Begins, Clock!client_sim, Clock!ClockAssumption
  <2> QED BY <1>4, <2>2, <2>3, <2>5, <2>6, <2>7, <2>8 DEF ClockInv
<1> QED BY <1>5, <1>6

\* In every state in which the threads run.
RunFacts ==
  /\ args.timeout \in Nat /\ args.work \in Nat /\ Clock!Puppets \subseteq Int
  /\ Clock!sum \in Nat /\ Clock!sum <= started
  /\ started \in Nat /\ submitted \in Nat /\ NumTxns \in Nat
  /\ started <= submitted /\ submitted <= NumTxns
  /\ IsFiniteSet(Clock!Completed)
  /\ Working = {} => Clock!sum = started
  /\ PuppetTypes /\ AllCounted /\ ByTheClock /\ Paced
  /\ client_left \in Nat /\ Clock!client_sim \in Nat
  /\ now \in Nat /\ wake \in Nat /\ Second \in Nat \ {0} /\ args.limit \in BOOLEAN

LEMMA RunFactsHold == Clock!ClockAssumption /\ ClockInv /\ Running => RunFacts
<1> SUFFICES ASSUME Clock!ClockAssumption, ClockInv, Running PROVE RunFacts
  OBVIOUS
<1>1. PuppetTypes /\ AllCounted /\ ByTheClock /\ Paced /\ MainTypes /\ Clock!Numbers
  BY DEF ClockInv, Refusals
<1>2. args.timeout \in Nat /\ args.work \in Nat /\ args.puppets \in Int
      /\ args.limit \in BOOLEAN
  BY <1>1 DEF MainTypes, Clock!ClockAssumption, Clock!Numbers
<1>3. /\ started \in Nat /\ submitted \in Nat /\ NumTxns \in Nat
      /\ started <= submitted /\ submitted <= NumTxns
      /\ client_left \in Nat /\ now \in Nat /\ wake \in Nat /\ Second \in Nat \ {0}
  BY <1>1 DEF MainTypes, Clock!ClockAssumption
<1>4. Clock!client_sim \in Nat
  BY <1>2 DEF Clock!client_sim, Clock!ClockAssumption
<1> QED BY <1>1, <1>2, <1>3, <1>4, Counting DEF RunFacts, AllCounted, Clock!Puppets

LEMMA SubmitKeeps == Clock!ClockAssumption /\ ClockInv /\ Clock!Submit => ClockInv'
<1> SUFFICES ASSUME Clock!ClockAssumption, ClockInv, Clock!Submit PROVE ClockInv'
  OBVIOUS
<1>1. /\ Clock!Up /\ submitted < NumTxns /\ client_left = 0
      /\ submitted' = submitted + 1 /\ client_left' = Clock!client_sim
      /\ UNCHANGED <<args, sample_period, at, now, left, started, num_completed,
                     second, prev, wake>>
  BY DEF Clock!Submit, Clock!ClientReady, Clock!puppetVars, Clock!mainVars
<1>2. Running /\ RunFacts
  <2>1. Running
    BY <1>1 DEF Clock!Up, Running
  <2> QED BY <2>1, RunFactsHold
<1>3. Clock!Completed' = Clock!Completed /\ Clock!Puppets' = Clock!Puppets /\ Clock!sum' = Clock!sum
      /\ Clock!client_sim' = Clock!client_sim /\ Clock!Pace' = Clock!Pace
  BY <1>1 DEF Clock!Completed, Clock!Puppets, Clock!sum, Clock!client_sim, Clock!Pace
<1>4. Working' = Working /\ Begun' = Begun
  BY <1>1, <1>3 DEF Working, Begun
<1>5. MainTypes' /\ Refusals' /\ Running' /\ Verdicts' /\ Clock!Up'
  <2>1. MainTypes'
    BY <1>1, <1>2 DEF ClockInv, MainTypes, RunFacts
  <2>2. Refusals'
    BY <1>1 DEF ClockInv, Refusals, Clock!Numbers, Running, Clock!Period, Clock!Dumping,
                Clock!Recording
  <2> QED BY <1>1, <1>2, <2>1, <2>2 DEF Running, Clock!Up, Verdicts
<1>6. PuppetTypes' /\ AllCounted' /\ ByTheClock'
  BY <1>1, <1>2, <1>3, <1>4 DEF RunFacts, PuppetTypes, AllCounted, ByTheClock
<1>7. Paced'
  BY <1>1, <1>2, <1>3 DEF Paced, RunFacts
<1>8. ASSUME Clock!Pace <= Second PROVE Progress'
  <2>1. Progress
    BY <1>1, <1>8 DEF ClockInv
  <2>2. started < submitted' /\ (submitted < NumTxns /\ client_left + Takes <= wake - now
          => Takes <= wake - now) /\ Takes' = Takes
    BY <1>1, <1>2 DEF RunFacts, Takes
  <2>3. Soon => Soon'
    BY <1>1, <1>4, <2>2 DEF Soon
  <2> QED BY <1>1, <1>3, <2>1, <2>3 DEF Progress
<1> QED BY <1>3, <1>5, <1>6, <1>7, <1>8 DEF ClockInv

LEMMA ReceiveKeeps ==
  ASSUME Clock!ClockAssumption, ClockInv, NEW p \in Clock!Puppets, Clock!Receive(p)
  PROVE  ClockInv'
<1>1. /\ Clock!Up /\ left[p] = 0 /\ started < submitted /\ started' = started + 1
      /\ left' = [left EXCEPT ![p] = args.work]
      /\ num_completed' = IF args.work = 0
                          THEN [num_completed EXCEPT ![p] = @ + 1] ELSE num_completed
      /\ UNCHANGED <<args, sample_period, at, now, submitted, client_left, second, prev,
                     wake>>
  BY DEF Clock!Receive, Clock!mainVars, Clock!clientVars
<1>2. Running /\ RunFacts
  <2>1. Running
    BY <1>1 DEF Clock!Up, Running
  <2> QED BY <2>1, RunFactsHold
<1>3. MainTypes' /\ Refusals' /\ Verdicts' /\ Running' /\ Clock!Up' /\ Clock!Puppets' = Clock!Puppets
  <2>1. MainTypes'
    BY <1>1 DEF ClockInv, MainTypes, Clock!ClockAssumption
  <2>2. Refusals'
    BY <1>1 DEF ClockInv, Refusals, Clock!Numbers, Running, Clock!Period, Clock!Dumping,
                Clock!Recording
  <2> QED BY <1>1, <1>2, <2>1, <2>2 DEF Verdicts, Running, Clock!Up, Clock!Puppets
<1>4. PuppetTypes'
  BY <1>1, <1>2, <1>3 DEF RunFacts, PuppetTypes
<1>5. num_completed[p] \in Nat /\ left \in [Clock!Puppets -> 0..args.work]
      /\ num_completed \in [Clock!Puppets -> Nat]
  BY <1>2 DEF RunFacts, PuppetTypes
<1> DEFINE new == <<p, num_completed[p] + 1>>
<1>6. new \notin Begun
  <2>1. new \notin Clock!Completed
    BY <1>2, <1>5, CompletedIs DEF RunFacts
  <2>2. \A q \in Working : q # p
    BY <1>1 DEF Working
  <2> QED BY <2>1, <2>2 DEF Begun
<1>7. /\ Begun' = Begun \cup {new}
      /\ Clock!Completed' = IF args.work = 0 THEN Clock!Completed \cup {new} ELSE Clock!Completed
      /\ Working' = IF args.work = 0 THEN Working ELSE Working \cup {p}
      /\ \A q \in Working : left'[q] = left[q]
  <2>1. /\ Working' = IF args.work = 0 THEN Working ELSE Working \cup {p}
        /\ \A q \in Working : q # p /\ left'[q] = left[q]
    BY <1>1, <1>2, <1>3, <1>5 DEF Working, RunFacts
  <2>2. CASE args.work = 0
    <3>1. num_completed' = [num_completed EXCEPT ![p] = num_completed[p] + 1]
      BY <1>1, <2>2
    <3>2. Clock!Completed' = Clock!Completed \cup {new}
      <4>1. Clock!Completed' = {c \in Clock!Puppets \X (Nat \ {0}) : c[2] <= num_completed'[c[1]]}
        BY <1>4, CompletedIsNext, <1>3
      <4>2. Clock!Completed = {c \in Clock!Puppets \X (Nat \ {0}) : c[2] <= num_completed[c[1]]}
        BY <1>2, CompletedIs DEF RunFacts
      <4>3. ASSUME NEW c \in Clock!Puppets \X (Nat \ {0})
            PROVE  c[2] <= num_completed'[c[1]] <=> c[2] <= num_completed[c[1]] \/ c = new
        <5>1. CASE c[1] = p
          <6>1. num_completed'[c[1]] = num_completed[p] + 1
            BY <1>5, <3>1, <5>1
          <6>2. c = <<p, c[2]>> /\ c[2] \in Nat
            BY <5>1
          <6>3. c = new <=> c[2] = num_completed[p] + 1
            BY <6>2
          <6> QED BY <1>5, <5>1, <6>1, <6>2, <6>3
        <5>2. CASE c[1] # p
          BY <1>5, <3>1, <5>2
        <5> QED BY <5>1, <5>2
      <4>4. new \in Clock!Puppets \X (Nat \ {0})
        BY <1>5
      <4> QED BY <4>1, <4>2, <4>3, <4>4
    <3>3. \A q \in Working : num_completed'[q] = num_completed[q]
      BY <1>5, <2>1, <3>1 DEF Working
    <3>4. Begun' = Begun \cup {new}
      BY <2>1, <2>2, <3>2, <3>3 DEF Begun
    <3> QED BY <2>1, <2>2, <3>2, <3>4
  <2>3. CASE args.work # 0
    <3>1. num_completed' = num_completed
      BY <1>1, <2>3
    <3>2. Clock!Completed' = Clock!Completed
      BY <3>1 DEF Clock!Completed
    <3>3. Begun' = Begun \cup {new}
      BY <2>1, <2>3, <3>1, <3>2 DEF Begun
    <3> QED BY <2>1, <2>3, <3>2, <3>3
  <2> QED BY <2>2, <2>3
<1>8. AllCounted'
  <2>1. IsFiniteSet(Begun') /\ Cardinality(Begun') = Cardinality(Begun) + 1
    BY <1>2, <1>6, <1>7, FS_AddElement DEF RunFacts, AllCounted
  <2> QED BY <1>1, <1>2, <2>1 DEF AllCounted, RunFacts
<1>9. ByTheClock'
  BY <1>1, <1>2 DEF RunFacts, ByTheClock
<1>10. /\ Clock!sum' \in Nat /\ Clock!sum <= Clock!sum'
       /\ args.work = 0 => Clock!sum < Clock!sum'
  <2>1. IsFiniteSet(Clock!Completed') /\ Clock!sum' \in Nat
    <3>1. Clock!Completed' \subseteq Begun' /\ IsFiniteSet(Begun')
      BY <1>8 DEF Begun, AllCounted
    <3> QED BY <3>1, SetGrows, ClockCounts DEF Clock!sum
  <2>2. Clock!Completed \subseteq Clock!Completed'
    BY <1>7
  <2>3. new \notin Clock!Completed /\ (args.work = 0 => new \in Clock!Completed')
    BY <1>6, <1>7 DEF Begun
  <2> QED BY <2>1, <2>2, <2>3, SetGrows, ClockCounts DEF Clock!sum
<1>11. ASSUME Clock!Pace <= Second, prev # -1 PROVE Progress'
  <2>1. Progress
    BY <1>1, <1>11 DEF ClockInv
  <2>2. prev \in Int /\ prev < NumTxns /\ prev <= Clock!sum
    BY <1>11, <2>1 DEF Progress, ClockInv, MainTypes
  <2>3. prev' < NumTxns /\ prev' <= Clock!sum'
    BY <1>1, <1>2, <1>10, <2>2 DEF RunFacts
  <2>4. ASSUME Clock!sum' = prev PROVE Soon'
    <3>1. Soon /\ args.work # 0
      BY <1>2, <1>10, <1>11, <2>1, <2>2, <2>4 DEF RunFacts, Progress
    <3>2. p \in Working' /\ Working \subseteq Working' /\ left'[p] = args.work
      BY <1>1, <1>5, <1>7, <3>1
    <3>3. CASE \E q \in Working : left[q] <= wake - now
      BY <1>1, <1>7, <3>2, <3>3 DEF Soon
    <3>4. CASE Takes <= wake - now
      BY <1>1, <3>1, <3>2, <3>4 DEF Soon, Takes
    <3>5. CASE submitted < NumTxns /\ client_left + Takes <= wake - now
      BY <1>1, <3>5 DEF Soon, Takes
    <3> QED BY <3>1, <3>3, <3>4, <3>5 DEF Soon
  <2> QED BY <1>1, <2>3, <2>4 DEF Progress
<1>12. Clock!Up' /\ Clock!Pace' <= Second => Progress'
  BY <1>1, <1>11 DEF Progress, Clock!Pace, Clock!client_sim
<1>13. Paced'
  <2>1. client_left' <= Clock!client_sim'
    BY <1>1, <1>2 DEF RunFacts, Paced, Clock!client_sim
  <2>2. ASSUME args.work > 0, client_left > 2 * args.work
        PROVE  \E q \in Working' : left'[q] >= client_left - 2 * args.work
    <3>1. p \in Working' /\ Working \subseteq Working' /\ left'[p] = args.work
      BY <1>1, <1>2, <1>5, <1>7, <2>2 DEF RunFacts
    <3>2. CASE started < submitted
      <4>1. client_left <= 3 * args.work
        BY <1>2, <2>2 DEF RunFacts, Paced, Clock!client_sim
      <4> QED BY <1>2, <3>1, <4>1 DEF RunFacts
    <3>3. CASE \E q \in Working : left[q] >= client_left - 2 * args.work
      BY <1>7, <3>1, <3>3
    <3> QED BY <1>2, <2>2, <3>2, <3>3 DEF RunFacts, Paced
  <2> QED BY <1>1, <2>1, <2>2 DEF Paced
<1> QED BY <1>3, <1>4, <1>8, <1>9, <1>12, <1>13 DEF ClockInv

LEMMA TickKeeps == Clock!ClockAssumption /\ ClockInv /\ Clock!Tick => ClockInv'
<1> SUFFICES ASSUME Clock!ClockAssumption, ClockInv, Clock!Tick PROVE ClockInv'
  OBVIOUS
<1>1. /\ at = "sleep" /\ now < wake /\ now' = now + 1
      /\ started < submitted \/ (submitted < NumTxns /\ client_left = 0)
           => \E p \in Clock!Puppets : left[p] > 0
      /\ client_left' = IF client_left = 0 THEN 0 ELSE client_left - 1
      /\ left' = [p \in Clock!Puppets |-> IF left[p] = 0 THEN 0 ELSE left[p] - 1]
      /\ num_completed' = [p \in Clock!Puppets |->
           num_completed[p] + IF left[p] = 1 THEN 1 ELSE 0]
      /\ UNCHANGED <<args, sample_period, at, submitted, started, second, prev, wake>>
  BY DEF Clock!Tick, Clock!ClientReady, Clock!mainVars
<1>2. Running /\ RunFacts
  <2>1. Running
    BY <1>1 DEF Running
  <2> QED BY <2>1, RunFactsHold
<1>3. MainTypes' /\ Refusals' /\ Verdicts' /\ Running' /\ Clock!Up' /\ Clock!Puppets' = Clock!Puppets
  <2>1. MainTypes'
    BY <1>1 DEF ClockInv, MainTypes
  <2>2. Refusals'
    BY <1>1 DEF ClockInv, Refusals, Clock!Numbers, Running, Clock!Period, Clock!Dumping,
                Clock!Recording
  <2> QED BY <1>1, <1>2, <2>1, <2>2 DEF Verdicts, Running, Clock!Up, Clock!Puppets
<1>5. /\ \A p \in Clock!Puppets : num_completed[p] \in Nat /\ left[p] \in 0..args.work
      /\ left \in [Clock!Puppets -> 0..args.work] /\ args.work \in Nat
      /\ num_completed \in [Clock!Puppets -> Nat]
  BY <1>2 DEF RunFacts, PuppetTypes
<1>4. PuppetTypes'
  BY <1>1, <1>3, <1>5 DEF PuppetTypes
<1> DEFINE new(p) == <<p, num_completed[p] + 1>>
           ending == {p \in Clock!Puppets : left[p] = 1}
<1>6. /\ Working' = Working \ ending /\ ending \subseteq Working
      /\ \A p \in Working' : left'[p] = left[p] - 1 /\ num_completed'[p] = num_completed[p]
  BY <1>1, <1>3, <1>5 DEF Working
<1>7. Clock!Completed' = Clock!Completed \cup {new(p) : p \in ending}
  <2>1. Clock!Completed' = {c \in Clock!Puppets \X (Nat \ {0}) : c[2] <= num_completed'[c[1]]}
    BY <1>4, CompletedIsNext, <1>3
  <2>2. Clock!Completed = {c \in Clock!Puppets \X (Nat \ {0}) : c[2] <= num_completed[c[1]]}
    BY <1>2, CompletedIs DEF RunFacts
  <2>3. ASSUME NEW c \in Clock!Puppets \X (Nat \ {0})
        PROVE  c[2] <= num_completed'[c[1]]
                 <=> c[2] <= num_completed[c[1]] \/ c \in {new(p) : p \in ending}
    <3>1. c[1] \in Clock!Puppets /\ c[2] \in Nat /\ c = <<c[1], c[2]>>
          /\ num_completed[c[1]] \in Nat
      BY <1>5
    <3>2. c \in {new(p) : p \in ending}
            <=> c[1] \in ending /\ c[2] = num_completed[c[1]] + 1
      BY <3>1
    <3>3. num_completed'[c[1]]
            = num_completed[c[1]] + IF c[1] \in ending THEN 1 ELSE 0
      BY <1>1, <3>1
    <3> QED BY <3>1, <3>2, <3>3
  <2>4. \A p \in ending : new(p) \in Clock!Puppets \X (Nat \ {0})
    BY <1>5
  <2> QED BY <2>1, <2>2, <2>3, <2>4
<1>8. Begun' = Begun
  <2>1. {<<p, num_completed'[p] + 1>> : p \in Working'} = {new(p) : p \in Working'}
    BY <1>6
  <2>2. {new(p) : p \in Working}
          = {new(p) : p \in ending} \cup {new(p) : p \in Working'}
    BY <1>6
  <2>3. Begun' = Clock!Completed' \cup {<<p, num_completed'[p] + 1>> : p \in Working'}
    BY DEF Begun
  <2> QED BY <1>7, <2>1, <2>2, <2>3 DEF Begun
<1>9. AllCounted'
  BY <1>1, <1>2, <1>8 DEF AllCounted, RunFacts
<1>10. ByTheClock'
  BY <1>1, <1>2, <1>3 DEF RunFacts, ByTheClock, ClockInv, MainTypes
<1>11. Clock!sum' \in Nat /\ Clock!sum <= Clock!sum' /\ (ending # {} => Clock!sum < Clock!sum')
  <2>1. IsFiniteSet(Clock!Completed')
    <3>1. Clock!Completed' \subseteq Begun' /\ IsFiniteSet(Begun')
      BY <1>9 DEF Begun, AllCounted
    <3> QED BY <3>1, SetGrows
  <2>2. Clock!Completed \subseteq Clock!Completed'
    BY <1>7
  <2>3. ASSUME NEW p \in ending
        PROVE  new(p) \in Clock!Completed' /\ new(p) \notin Clock!Completed
    <3>1. new(p) \in Clock!Completed'
      BY <1>7
    <3>2. new(p) \notin Clock!Completed
      BY <1>2, <1>5, CompletedIs DEF RunFacts
    <3> QED BY <3>1, <3>2
  <2> QED BY <2>1, <2>2, <2>3, SetGrows, ClockCounts DEF Clock!sum
<1>12. ASSUME Clock!Pace <= Second PROVE Progress'
  <2>1. Progress /\ prev \in Int /\ prev # -1
    BY <1>1, <1>2, <1>12 DEF ClockInv, Clock!Up, RunFacts, ByTheClock, MainTypes
  <2>2. prev < NumTxns /\ prev <= Clock!sum'
    BY <1>2, <1>11, <2>1 DEF Progress, RunFacts
  <2>3. ASSUME Clock!sum' = prev PROVE Soon'
    <3>1. Soon /\ ending = {}
      BY <1>2, <1>11, <2>1, <2>3 DEF Progress, RunFacts
    <3>2. Working' = Working
      BY <1>6, <3>1
    <3>3. ASSUME NEW p \in Working, left[p] <= wake - now PROVE Soon'
      <4>1. left'[p] = left[p] - 1 /\ left[p] \in Int
        BY <1>5, <1>6, <3>2 DEF Working
      <4>2. left'[p] <= wake' - now'
        BY <1>1, <1>2, <3>3, <4>1 DEF RunFacts
      <4> QED BY <3>2, <4>2 DEF Soon
    <3>4. ASSUME started < submitted \/ (submitted < NumTxns /\ client_left = 0),
                 Takes <= wake - now
          PROVE  Soon'
      <4>1. PICK p \in Clock!Puppets : left[p] > 0
        BY <1>1, <3>4
      <4>2. p \in Working /\ left[p] <= wake - now
        BY <1>2, <1>5, <3>4, <4>1 DEF Working, Takes, RunFacts
      <4> QED BY <3>3, <4>2
    <3>5. ASSUME submitted < NumTxns, client_left + Takes <= wake - now, client_left # 0
          PROVE  Soon'
      <4>1. client_left' + Takes' <= wake' - now' /\ submitted' < NumTxns
        BY <1>1, <1>2, <3>5 DEF RunFacts, Takes
      <4> QED BY <4>1 DEF Soon
    <3>6. Takes \in Nat
      BY <1>5 DEF Takes
    <3> QED BY <1>2, <3>1, <3>3, <3>4, <3>5, <3>6 DEF Soon, RunFacts
  <2> QED BY <1>1, <2>2, <2>3 DEF Progress
<1>13. Clock!Up' /\ Clock!Pace' <= Second => Progress'
  BY <1>1, <1>12 DEF Clock!Pace, Clock!client_sim
<1>14. Paced'
  <2>1. client_left' <= Clock!client_sim'
    BY <1>1, <1>2 DEF RunFacts, Paced, Clock!client_sim
  <2>2. ASSUME args.work > 0, client_left' > 2 * args.work, ~ (started < submitted)
        PROVE  \E p \in Working' : left'[p] >= client_left' - 2 * args.work
    <3>1. client_left' = client_left - 1 /\ client_left - 2 * args.work >= 2
      BY <1>1, <1>2, <2>2 DEF RunFacts
    <3>2. PICK p \in Working : left[p] >= client_left - 2 * args.work
      BY <1>2, <2>2, <3>1 DEF RunFacts, Paced
    <3>3. p \in Clock!Puppets /\ left[p] \in Int /\ left[p] >= 2 /\ p \in Working'
      BY <1>2, <1>5, <1>6, <3>1, <3>2 DEF Working, RunFacts
    <3>4. left'[p] = left[p] - 1
      BY <1>6, <3>3
    <3> QED BY <1>2, <3>1, <3>2, <3>3, <3>4 DEF RunFacts
  <2> QED BY <1>1, <2>1, <2>2 DEF Paced
<1> QED BY <1>1, <1>3, <1>4, <1>9, <1>10, <1>13, <1>14 DEF ClockInv

\* Between two samples something has been completed.
LEMMA SampleKeeps == Clock!ClockAssumption /\ ClockInv /\ Clock!Sample => ClockInv'
<1> SUFFICES ASSUME Clock!ClockAssumption, ClockInv, Clock!Sample PROVE ClockInv'
  OBVIOUS
<1>1. /\ at = "sample" /\ second < args.timeout /\ at' = Clock!Verdict /\ prev' = Clock!sum
      /\ second' = second + 1 /\ wake' = now + Second
      /\ UNCHANGED <<args, sample_period, now, submitted, client_left, left, started,
                     num_completed>>
      /\ at' \in {"stuck", "success", "sleep"}
  <2>1. second \in Nat /\ args.timeout \in Int
    BY DEF ClockInv, MainTypes, Clock!ClockAssumption
  <2> QED BY <2>1 DEF Clock!Sample, Clock!puppetVars, Clock!clientVars, Clock!TimeUp, Clock!Verdict
<1>2. Running /\ RunFacts
  <2>1. Running
    BY <1>1 DEF Running
  <2> QED BY <2>1, RunFactsHold
<1>3. /\ now \in Nat /\ second \in Nat /\ prev \in Int /\ Second \in Nat \ {0}
      /\ now = second * Second /\ now = wake
  BY <1>1, <1>2 DEF ClockInv, MainTypes, RunFacts, ByTheClock, Clock!ClockAssumption
<1>4. MainTypes' /\ Refusals' /\ Running' /\ Clock!Puppets' = Clock!Puppets /\ Clock!sum' = Clock!sum
      /\ PuppetTypes' /\ AllCounted'
  <2>1. MainTypes'
    BY <1>1, <1>2, <1>3 DEF ClockInv, MainTypes, RunFacts
  <2>2. Refusals'
    BY <1>1, <1>2 DEF ClockInv, Refusals, Clock!Numbers, Running, Clock!Period,
                      Clock!Dumping, Clock!Recording
  <2>3. Clock!Completed' = Clock!Completed /\ Clock!Puppets' = Clock!Puppets
    BY <1>1 DEF Clock!Completed, Clock!Puppets
  <2>4. PuppetTypes' /\ AllCounted'
    BY <1>1, <1>2, <2>3 DEF PuppetTypes, AllCounted, Begun, Working, RunFacts
  <2> QED BY <1>1, <2>1, <2>2, <2>3, <2>4 DEF Running, Clock!sum
<1>5. ByTheClock'
  <2>1. wake' = second' * Second
    BY <1>1, <1>3
  <2>2. prev' # -1
    BY <1>1, <1>2 DEF RunFacts
  <2> QED BY <1>1, <1>2, <1>3, <2>1, <2>2 DEF ByTheClock, RunFacts
<1>6. ASSUME Clock!Pace <= Second PROVE at' # "stuck"
  <2>1. CASE prev = -1
    BY <1>1, <1>2, <2>1 DEF Clock!Verdict, RunFacts
  <2>2. CASE prev # -1
    <3>1. Progress
      BY <1>1, <1>6 DEF ClockInv, Clock!Up
    <3>2. \A p \in Working : left[p] \in Int /\ left[p] > 0
      BY <1>2 DEF Working, RunFacts, PuppetTypes
    <3>3. ~ Soon
      BY <1>2, <1>3, <3>2 DEF Soon, Takes, RunFacts
    <3> QED BY <2>2, <3>1, <3>3 DEF Progress, Clock!Sample, Clock!Verdict
  <2> QED BY <2>1, <2>2
<1>7. Verdicts'
  <2>1. at' = "success" => Clock!sum = NumTxns
    BY <1>1 DEF Clock!Verdict
  <2>2. Clock!Pace \in Nat /\ Clock!Pace' = Clock!Pace
    BY <1>1, <1>2 DEF RunFacts, Clock!Pace, Clock!client_sim
  <2> QED BY <1>1, <1>3, <1>4, <1>6, <2>1, <2>2 DEF Verdicts
<1>8. Clock!Up' /\ Clock!Pace' <= Second => Progress'
  <2> SUFFICES ASSUME at' = "sleep", Clock!Pace <= Second PROVE Progress'
    BY <1>1 DEF Clock!Up, Clock!Pace, Clock!client_sim
  <2>1. Clock!sum # NumTxns /\ Clock!sum < NumTxns
    <3>1. Clock!sum # NumTxns
      BY <1>1 DEF Clock!Verdict
    <3> QED BY <1>2, <3>1 DEF RunFacts
  <2>2. wake' - now' = Second /\ args.work <= Second /\ Takes <= Second /\ Takes' = Takes
    BY <1>1, <1>2, <1>3
       DEF RunFacts, Clock!Pace, Clock!client_sim, Takes, Clock!ClockAssumption
  <2>3. Working' = Working
    BY <1>1, <1>4 DEF Working
  <2>4. CASE Working # {}
    <3>1. \A p \in Working : left'[p] <= Second
      BY <1>1, <1>2, <2>2 DEF Working, RunFacts, PuppetTypes
    <3>2. Soon'
      BY <2>2, <2>3, <2>4, <3>1 DEF Soon
    <3> QED BY <1>1, <1>2, <1>4, <2>1, <3>2 DEF Progress, RunFacts
  <2>5. CASE Working = {}
    <3>1. started < NumTxns
      BY <1>2, <2>1, <2>5 DEF RunFacts
    <3>2. CASE started < submitted
      <4>1. Soon'
        BY <1>1, <2>2, <3>2 DEF Soon
      <4> QED BY <1>1, <1>2, <1>4, <2>1, <4>1 DEF Progress, RunFacts
    <3>3. CASE ~ (started < submitted)
      <4>1. submitted < NumTxns
        BY <1>2, <3>1, <3>3 DEF RunFacts
      <4>2. client_left + Takes <= Second
        <5>1. CASE args.work = 0
          BY <1>2, <5>1 DEF RunFacts, Paced, Takes, Clock!client_sim, Clock!ClockAssumption
        <5>2. CASE args.work > 0
          <6>1. client_left <= 2 * args.work
            BY <1>2, <2>5, <3>3, <5>2 DEF RunFacts, Paced
          <6> QED BY <1>2, <5>2, <6>1 DEF RunFacts, Paced, Takes, Clock!client_sim, Clock!Pace
        <5> QED BY <1>2, <5>1, <5>2 DEF RunFacts
      <4>3. Soon'
        BY <1>1, <2>2, <4>1, <4>2 DEF Soon
      <4> QED BY <1>1, <1>2, <1>4, <2>1, <4>3 DEF Progress, RunFacts
    <3> QED BY <3>2, <3>3
  <2> QED BY <2>4, <2>5
<1>9. Paced'
  <2>1. Working' = Working
    BY <1>1, <1>4 DEF Working
  <2> QED BY <1>1, <1>2, <2>1 DEF Paced, RunFacts, Clock!client_sim
<1> QED BY <1>4, <1>5, <1>7, <1>8, <1>9 DEF ClockInv

LEMMA QuietKeeps ==
  Clock!ClockAssumption /\ ClockInv /\ (Clock!GiveUp \/ Clock!Wake \/ UNCHANGED Clock!vars) => ClockInv'
<1> SUFFICES ASSUME Clock!ClockAssumption, ClockInv, Clock!GiveUp \/ Clock!Wake \/ UNCHANGED Clock!vars
             PROVE  ClockInv'
  OBVIOUS
<1>1. /\ UNCHANGED <<args, sample_period, now, submitted, client_left, left, started,
                     num_completed, second, prev, wake>>
      /\ \/ at = "sample" /\ at' = "timeout"
         \/ at = "sleep" /\ at' = "sample" /\ now = wake
         \/ at' = at
  BY DEF Clock!GiveUp, Clock!Wake, Clock!vars, Clock!puppetVars, Clock!mainVars,
         Clock!clientVars
<1>2. Clock!Completed' = Clock!Completed /\ Clock!Puppets' = Clock!Puppets /\ Clock!sum' = Clock!sum
  BY <1>1 DEF Clock!Completed, Clock!Puppets, Clock!sum
<1>3. Working' = Working /\ Begun' = Begun
  BY <1>1, <1>2 DEF Working, Begun
<1>4. MainTypes' /\ Refusals' /\ Begins' = Begins /\ Running' = Running
  BY <1>1 DEF ClockInv, MainTypes, Refusals, Clock!Numbers, Running, Clock!Period,
              Clock!Dumping, Clock!Recording, Begins
<1>5. PuppetTypes' = PuppetTypes /\ AllCounted' = AllCounted
  BY <1>1, <1>2, <1>3 DEF PuppetTypes, AllCounted
<1>6. Running => ByTheClock'
  BY <1>1 DEF ClockInv, ByTheClock
<1>7. Clock!Pace' = Clock!Pace /\ Clock!client_sim' = Clock!client_sim /\ Soon' = Soon
  BY <1>1, <1>3 DEF Clock!Pace, Clock!client_sim, Soon, Takes
<1>8. /\ Verdicts' /\ (Clock!Up' => Clock!Up) /\ Progress' = Progress
      /\ Paced' = Paced
  BY <1>1, <1>2, <1>3, <1>7 DEF ClockInv, Verdicts, Clock!Up, Progress, Paced
<1> QED BY <1>1, <1>4, <1>5, <1>6, <1>7, <1>8 DEF ClockInv

LEMMA ClockNext == Clock!ClockAssumption /\ ClockInv /\ [Clock!Next]_Clock!vars => ClockInv'
BY ParseKeeps, StartUpKeeps, SubmitKeeps, ReceiveKeeps, TickKeeps, SampleKeeps, QuietKeeps
   DEF Clock!Next

LEMMA VerdictsHold == Clock!ClockAssumption /\ ClockInv => Clock!VerdictIsRight
<1> SUFFICES ASSUME Clock!ClockAssumption, ClockInv PROVE Clock!VerdictIsRight
  OBVIOUS
<1>1. args.period \in Int \ {0} /\ args.timeout \in Int /\ Second \in Nat \ {0}
      /\ second \in Nat /\ now \in Nat
      /\ args.log \in BOOLEAN /\ args.dump \in BOOLEAN /\ args.live_dump \in BOOLEAN
  BY DEF Clock!ClockAssumption, ClockInv, MainTypes
<1>2. Clock!StartsAsAsked
  BY <1>1 DEF ClockInv, Refusals, Running, Clock!StartsAsAsked, Clock!Period, Clock!Dumping,
              Clock!Recording, MainTypes
<1>3. Clock!StuckOnlyIfSlow
  BY DEF ClockInv, Verdicts, Clock!StuckOnlyIfSlow
<1>4. at \notin {"parse", "fatal"} => now <= args.timeout * Second
  <2>1. \A a, b \in Nat : a <= b => a * Second <= b * Second
    BY <1>1
  <2>2. CASE Running
    <3>1. second <= args.timeout /\ now <= second * Second /\ args.timeout \in Nat
      BY <1>1, <2>2 DEF ClockInv, ByTheClock, Refusals, Clock!Numbers
    <3>2. second * Second \in Int /\ args.timeout * Second \in Int
      BY <1>1
    <3> QED BY <1>1, <2>1, <3>1, <3>2
  <2>3. CASE at = "init"
    <3>1. now = 0 /\ args.timeout \in Nat
      BY <1>1, <2>3 DEF ClockInv, Begins, Running, Refusals
    <3>2. args.timeout * Second \in Nat
      BY <1>1, <3>1
    <3> QED BY <3>1, <3>2
  <2> QED BY <2>2, <2>3 DEF Running
<1> QED BY <1>2, <1>3, <1>4 DEF Clock!VerdictIsRight, Clock!VerdictInTime, ClockInv,
                                Verdicts

-----------------------------------------------------------------------------
(***************************************************************************)
(* The hasher in front of the summaries, for every odd factor and every    *)
(* width of its indices that HasherAssumption allows: the numbers of the   *)
(* source are among them.                                                  *)
(***************************************************************************)

Two(n) == 2^n

LEMMA SizeOfInterval == \A m \in Nat : IsFiniteSet(1..m) /\ Cardinality(1..m) = m
<1> TAKE m \in Nat
<1>1. IsFiniteSet(1..m) /\ Cardinality(1..m) = IF 1 > m THEN 0 ELSE m - 1 + 1
  BY FS_Interval
<1> QED BY <1>1

\* A power of two is the number of subsets.
LEMMA TwoIsSubsets ==
  ASSUME NEW n \in Nat
  PROVE  /\ IsFiniteSet(SUBSET (1..n))
         /\ Two(n) = Cardinality(SUBSET (1..n))
<1> DEFINE I == 1..n
<1>1. IsFiniteSet(I) /\ Cardinality(I) = n
  BY SizeOfInterval
<1> HIDE DEF I
<1>2. IsFiniteSet(SUBSET I) /\ Cardinality(SUBSET I) = 2^Cardinality(I)
  BY <1>1, FS_SUBSET
<1> QED BY <1>1, <1>2 DEF Two, I

LEMMA TwoDoubles ==
  \A n \in Nat : /\ Two(n) \in Nat \ {0}
                 /\ Two(n + 1) = 2 * Two(n)
<1> TAKE n \in Nat
<1> DEFINE P == SUBSET (1..n)
           Q == {A \cup {n + 1} : A \in P}
           f == [A \in P |-> A \cup {n + 1}]
<1>1. IsFiniteSet(P) /\ Two(n) = Cardinality(P) /\ Two(n + 1) = Cardinality(SUBSET (1..(n + 1)))
  <2>1. n + 1 \in Nat
    OBVIOUS
  <2> QED BY <2>1, TwoIsSubsets
<1>2. SUBSET (1..(n + 1)) = P \cup Q
  <2>1. P \cup Q \subseteq SUBSET (1..(n + 1))
    <3>1. 1..n \subseteq 1..(n + 1) /\ n + 1 \in 1..(n + 1)
      OBVIOUS
    <3> DEFINE I == 1..n
               J == 1..(n + 1)
    <3> HIDE DEF I, J
    <3>2. I \subseteq J /\ n + 1 \in J
      BY <3>1 DEF I, J
    <3>3. \A A \in SUBSET I : A \in SUBSET J /\ A \cup {n + 1} \in SUBSET J
      BY <3>2
    <3>4. P = SUBSET I /\ Q = {A \cup {n + 1} : A \in SUBSET I}
      BY DEF I
    <3>5. P \cup Q \subseteq SUBSET J
      BY <3>3, <3>4
    <3> QED BY <3>5 DEF J
  <2>2. ASSUME NEW B \in SUBSET (1..(n + 1)) PROVE B \in P \cup Q
    <3>1. CASE n + 1 \notin B
      BY <3>1
    <3>2. CASE n + 1 \in B
      <4>1. B \ {n + 1} \in P /\ B = (B \ {n + 1}) \cup {n + 1}
        BY <3>2
      <4> QED BY <4>1
    <3> QED BY <3>1, <3>2
  <2> QED BY <2>1, <2>2
<1>3. P \cap Q = {}
  OBVIOUS
<1>4. f \in Bijection(P, Q)
  <2>1. f \in [P -> Q] /\ \A B \in Q : \E A \in P : f[A] = B
    OBVIOUS
  <2>2. ASSUME NEW A \in P, NEW B \in P, f[A] = f[B] PROVE A = B
    <3>1. A \cup {n + 1} = B \cup {n + 1} /\ n + 1 \notin A /\ n + 1 \notin B
      BY <2>2
    <3> QED BY <3>1
  <2> HIDE DEF f, P, Q
  <2> QED BY <2>1, <2>2 DEF Bijection, Injection, Surjection, IsInjective
<1>5. {} \in P
  OBVIOUS
<1> HIDE DEF f, P, Q
<1>6. IsFiniteSet(Q) /\ Cardinality(Q) = Cardinality(P)
  <2>1. ExistsBijection(P, Q)
    BY <1>4 DEF ExistsBijection
  <2> QED BY <1>1, <2>1, FS_Bijection
<1>7. Cardinality(P \cup Q) = Cardinality(P) + Cardinality(Q) - Cardinality(P \cap Q)
  BY <1>1, <1>6, FS_Union
<1>8. Cardinality(P \cap Q) = 0
  BY <1>3, FS_EmptySet
<1>9. Cardinality(P) \in Nat /\ Cardinality(P) # 0
  BY <1>1, <1>5, FS_CardinalityType, FS_EmptySet
<1>10. Cardinality(P \cup Q) = 2 * Cardinality(P)
  BY <1>6, <1>7, <1>8, <1>9
<1>11. Two(n + 1) = Cardinality(P \cup Q)
  BY <1>1, <1>2
<1> QED BY <1>1, <1>9, <1>10, <1>11

LEMMA TwoOfZero == Two(0) = 1
BY DEF Two

LEMMA TwoAdds ==
  ASSUME NEW m \in Nat
  PROVE  \A n \in Nat : Two(m + n) = Two(m) * Two(n)
<1> DEFINE S == {n \in Nat : Two(m + n) = Two(m) * Two(n)}
<1>1. 0 \in S
  BY TwoOfZero, TwoDoubles
<1>2. ASSUME NEW n \in Nat, n \in S PROVE n + 1 \in S
  <2>1. /\ Two(m + n) = Two(m) * Two(n) /\ Two(m + n + 1) = 2 * Two(m + n)
        /\ Two(n + 1) = 2 * Two(n) /\ Two(m) \in Nat /\ Two(n) \in Nat
        /\ m + (n + 1) = m + n + 1
    BY <1>2, TwoDoubles
  <2>2. 2 * (Two(m) * Two(n)) = Two(m) * (2 * Two(n))
    BY <2>1
  <2> QED BY <2>1, <2>2
<1> HIDE DEF S
<1>3. \A n \in Nat : n \in S
  BY <1>1, <1>2, ByInduction
<1> QED BY <1>3 DEF S

LEMMA DivMod ==
  \A a \in Nat, b \in Nat \ {0} : a = b * (a \div b) + (a % b) /\ a \div b \in Nat
OBVIOUS

LEMMA Divided ==
  ASSUME NEW d \in Nat \ {0}, NEW q \in Int, NEW r \in 0..(d - 1), NEW h \in Int,
         h = d * q + r
  PROVE  h % d = r /\ h \div d = q
<1>1. h = d * (h \div d) + (h % d) /\ h % d \in 0..(d - 1) /\ h \div d \in Int
  OBVIOUS
<1> DEFINE p == h \div d
           s == h % d
<1>2. p \in Int /\ s \in 0..(d - 1) /\ d * (p - q) = r - s
  BY <1>1
<1> HIDE DEF p, s
<1>3. ~ p - q >= 1
  <2> SUFFICES ASSUME p - q >= 1 PROVE FALSE
    OBVIOUS
  <2>1. d * (p - q) >= d
    BY <1>2
  <2> QED BY <1>2, <2>1
<1>4. ~ p - q <= -1
  <2> SUFFICES ASSUME p - q <= -1 PROVE FALSE
    OBVIOUS
  <2>1. d * (p - q) <= -d
    BY <1>2
  <2> QED BY <1>2, <2>1
<1>5. p = q
  BY <1>2, <1>3, <1>4
<1>6. s = r
  BY <1>2, <1>5
<1> QED BY <1>5, <1>6 DEF p, s

\* The low bits of a number, with one more of them.
LEMMA LowBit ==
  ASSUME NEW h \in Nat, NEW P \in Nat \ {0}
  PROVE  h % (2 * P) = (h % P) + P * ((h \div P) % 2)
<1> DEFINE q == h \div P
           r == h % P
<1>1. q \in Nat /\ r \in 0..(P - 1) /\ h = P * q + r
  OBVIOUS
<1> HIDE DEF q, r
<1> DEFINE u == q \div 2
           b == q % 2
<1>2. u \in Nat /\ b \in 0..1 /\ q = 2 * u + b
  BY <1>1
<1> HIDE DEF u, b
<1>3. h = (2 * P) * u + (P * b + r)
  <2>1. P * (2 * u + b) = (2 * P) * u + P * b
    BY <1>2
  <2> QED BY <1>1, <1>2, <2>1
<1>4. P * b + r \in 0..(2 * P - 1)
  <2>1. CASE b = 0
    BY <1>1, <2>1
  <2>2. CASE b = 1
    BY <1>1, <2>2
  <2> QED BY <1>2, <2>1, <2>2
<1>5. 2 * P \in Nat \ {0}
  OBVIOUS
<1> DEFINE D == 2 * P
           R == P * b + r
<1>6. D \in Nat \ {0} /\ R \in 0..(D - 1) /\ h = D * u + R /\ u \in Int /\ h \in Int
  BY <1>2, <1>3, <1>4, <1>5
<1> HIDE DEF D, R
<1>7. h % D = R
  BY <1>6, Divided
<1> QED BY <1>1, <1>7 DEF D, R, q, r, b

LEMMA BitDef == \A h, k : Hasher!BitOf(h, k) = (h \div Two(k)) % 2
BY DEF Hasher!BitOf, Two

LEMMA LowBitsDetermine ==
  ASSUME NEW h \in Nat, NEW g \in Nat
  PROVE  \A m \in Nat : (\A k \in Nat : k < m => Hasher!BitOf(h, k) = Hasher!BitOf(g, k))
                           => h % Two(m) = g % Two(m)
<1> DEFINE Same(m) == \A k \in Nat : k < m => Hasher!BitOf(h, k) = Hasher!BitOf(g, k)
           S == {m \in Nat : Same(m) => h % Two(m) = g % Two(m)}
<1>1. 0 \in S
  BY TwoOfZero
<1>2. ASSUME NEW m \in Nat, m \in S PROVE m + 1 \in S
  <2> SUFFICES ASSUME Same(m + 1) PROVE h % Two(m + 1) = g % Two(m + 1)
    OBVIOUS
  <2>1. Same(m)
    OBVIOUS
  <2>2. h % Two(m) = g % Two(m)
    BY <1>2, <2>1
  <2>3. (h \div Two(m)) % 2 = (g \div Two(m)) % 2
    BY BitDef
  <2>4. Two(m) \in Nat \ {0} /\ Two(m + 1) = 2 * Two(m)
    BY TwoDoubles
  <2>5. /\ h % (2 * Two(m)) = (h % Two(m)) + Two(m) * ((h \div Two(m)) % 2)
        /\ g % (2 * Two(m)) = (g % Two(m)) + Two(m) * ((g \div Two(m)) % 2)
    BY <2>4, LowBit
  <2> QED BY <2>2, <2>3, <2>4, <2>5
<1> HIDE DEF S
<1>3. \A m \in Nat : m \in S
  BY <1>1, <1>2, ByInduction
<1> QED BY <1>3 DEF S

\* An odd factor does not help to divide by a power of two.
LEMMA OddCancels ==
  ASSUME NEW c \in Nat, NEW d \in Int
  PROVE  \A m \in Nat : (\E f \in Int : (2 * c + 1) * d = Two(m) * f)
                           => \E e \in Int : d = Two(m) * e
<1> DEFINE a == 2 * c + 1
           S == {m \in Nat : (\E f \in Int : a * d = Two(m) * f)
                                => \E e \in Int : d = Two(m) * e}
<1>1. 0 \in S
  <2>1. d = Two(0) * d
    BY TwoOfZero
  <2> QED BY <2>1
<1>2. ASSUME NEW m \in Nat, m \in S PROVE m + 1 \in S
  <2> SUFFICES ASSUME NEW f \in Int, a * d = Two(m + 1) * f
               PROVE  \E e \in Int : d = Two(m + 1) * e
    OBVIOUS
  <2> DEFINE P == Two(m)
  <2>1. P \in Nat \ {0} /\ Two(m + 1) = 2 * P
    BY TwoDoubles
  <2> HIDE DEF P
  <2>2. a * d = P * (2 * f)
    BY <2>1
  <2>3. PICK e \in Int : d = P * e
    <3>1. 2 * f \in Int
      OBVIOUS
    <3> QED BY <1>2, <2>2, <3>1 DEF P
  <2>4. P * (a * e) = P * (2 * f)
    BY <2>1, <2>2, <2>3
  <2>5. a * e = 2 * f
    <3> DEFINE x == a * e
               y == 2 * f
    <3>1. x \in Int /\ y \in Int /\ P * x = P * y
      BY <2>4
    <3> HIDE DEF x, y
    <3>2. x = y
      BY <2>1, <3>1
    <3> QED BY <3>2 DEF x, y
  <2>6. e = 2 * (f - c * e)
    BY <2>5
  <2>7. f - c * e \in Int /\ d = (2 * P) * (f - c * e)
    BY <2>1, <2>3, <2>6
  <2> QED BY <2>1, <2>7
<1> HIDE DEF S
<1>3. \A m \in Nat : m \in S
  BY <1>1, <1>2, ByInduction
<1> QED BY <1>3 DEF S

\* How many bits the bit indices take.
IndexBits == NumBloomParts * LogBloomChunkSize

LEMMA FibOdd ==
  ASSUME Hasher!HasherAssumption
  PROVE  \E c \in Nat : Hasher!fibConstant = 2 * c + 1
<1>1. Golden \in Nat
  BY DEF Hasher!HasherAssumption
<1>2. CASE Golden % 2 = 0
  <2>1. Hasher!fibConstant = 2 * (Golden \div 2) + 1 /\ Golden \div 2 \in Nat
    BY <1>1, <1>2 DEF Hasher!fibConstant
  <2> QED BY <2>1
<1>3. CASE Golden % 2 # 0
  <2>1. Hasher!fibConstant = 2 * (Golden \div 2) + 1 /\ Golden \div 2 \in Nat
    BY <1>1, <1>3 DEF Hasher!fibConstant
  <2> QED BY <2>1
<1> QED BY <1>2, <1>3

\* The hash is below 2^NBits, and differs from the product by a multiple of it.
LEMMA HashOf ==
  ASSUME Hasher!HasherAssumption, NEW x \in Hasher!ObjectId
  PROVE  /\ Hasher!fullHash(x) \in Nat /\ x \in Nat /\ x < Two(ObjectBits)
         /\ \E q \in Nat : x * Hasher!fibConstant = Two(IndexBits) * q + Hasher!fullHash(x)
<1>1. /\ ObjectBits \in Nat /\ NumBloomParts \in Nat /\ LogBloomChunks \in Nat
      /\ LogBloomChunkSize \in Nat
  BY DEF Hasher!HasherAssumption
<1>2. x \in Nat /\ x < Two(ObjectBits)
  <2>1. Two(ObjectBits) \in Nat /\ x \in 0..(Two(ObjectBits) - 1)
    BY <1>1, TwoDoubles DEF Hasher!ObjectId, Two
  <2> QED BY <2>1
<1>3. PICK c \in Nat : Hasher!fibConstant = 2 * c + 1
  BY FibOdd
<1> DEFINE m == IndexBits
           n == NumBloomParts * LogBloomChunks
           z == x * Hasher!fibConstant
<1>4. m \in Nat /\ n \in Nat /\ Hasher!NBits = m + n /\ z \in Nat
  BY <1>1, <1>2, <1>3 DEF IndexBits, Hasher!NBits
<1>5. Hasher!fullHash(x) = z % Two(m + n)
  BY <1>4 DEF Hasher!fullHash, Two
<1> HIDE DEF m, n, z
<1>6. Two(m + n) = Two(m) * Two(n) /\ Two(m) \in Nat /\ Two(n) \in Nat /\ Two(m + n) \in Nat \ {0}
  BY <1>4, TwoAdds, TwoDoubles
<1> DEFINE N == Two(m + n)
<1>7. N \in Nat \ {0} /\ Hasher!fullHash(x) = z % N /\ N = Two(m) * Two(n)
  BY <1>5, <1>6
<1> HIDE DEF N
<1>8. z = N * (z \div N) + (z % N) /\ z \div N \in Nat /\ z % N \in Nat
  BY <1>4, <1>7
<1> DEFINE q == z \div N
<1>9. q \in Nat /\ z = N * q + Hasher!fullHash(x) /\ Hasher!fullHash(x) \in Nat
  BY <1>7, <1>8
<1> HIDE DEF q
<1>10. N * q = Two(m) * (Two(n) * q) /\ Two(n) * q \in Nat
  BY <1>6, <1>7, <1>9
<1> QED BY <1>2, <1>9, <1>10 DEF m, z

\* Equal low bits of the hash mean equal objects.
LEMMA HashTellsApart ==
  ASSUME Hasher!HasherAssumption, NEW x \in Hasher!ObjectId, NEW y \in Hasher!ObjectId,
         \A k \in Nat : k < IndexBits => Hasher!BitOf(Hasher!fullHash(x), k) = Hasher!BitOf(Hasher!fullHash(y), k)
  PROVE  x = y
<1> DEFINE m == IndexBits
           P == Two(m)
           h == Hasher!fullHash(x)
           g == Hasher!fullHash(y)
<1>1. /\ ObjectBits \in Nat /\ m \in Nat /\ ObjectBits <= m
  BY DEF Hasher!HasherAssumption, IndexBits
<1>2. h \in Nat /\ g \in Nat /\ x \in Nat /\ y \in Nat
      /\ x < Two(ObjectBits) /\ y < Two(ObjectBits)
  BY HashOf
<1>3. h % P = g % P
  BY <1>1, <1>2, LowBitsDetermine
<1>4. PICK c \in Nat : Hasher!fibConstant = 2 * c + 1
  BY FibOdd
<1>5. PICK q \in Nat : x * Hasher!fibConstant = P * q + h
  BY HashOf
<1>6. PICK r \in Nat : y * Hasher!fibConstant = P * r + g
  BY HashOf
<1>7. P \in Nat \ {0}
  BY <1>1, TwoDoubles
<1> HIDE DEF P, h, g, m
<1> DEFINE hd == h \div P
           gd == g \div P
           rest == h % P
<1>8. /\ h = P * hd + rest /\ g = P * gd + rest
      /\ hd \in Nat /\ gd \in Nat /\ rest \in Nat
  BY <1>2, <1>3, <1>7
<1> HIDE DEF hd, gd, rest
<1> DEFINE f == (q + hd) - (r + gd)
           d == x - y
<1>9. (2 * c + 1) * d = P * f
  <2>1. x * (2 * c + 1) = P * (q + hd) + rest
    BY <1>4, <1>5, <1>7, <1>8
  <2>2. y * (2 * c + 1) = P * (r + gd) + rest
    BY <1>4, <1>6, <1>7, <1>8
  <2>3. (2 * c + 1) * (x - y) = x * (2 * c + 1) - y * (2 * c + 1)
    BY <1>2
  <2>4. P * ((q + hd) - (r + gd)) = P * (q + hd) - P * (r + gd)
    BY <1>7, <1>8
  <2> DEFINE A == P * (q + hd)
             B == P * (r + gd)
  <2>5. A \in Int /\ B \in Int /\ rest \in Int
    BY <1>7, <1>8
  <2>6. (A + rest) - (B + rest) = A - B
    BY <2>5
  <2> QED BY <2>1, <2>2, <2>3, <2>4, <2>6
<1>10. f \in Int /\ d \in Int
  BY <1>2, <1>8
<1> HIDE DEF f, d
<1>11. PICK e \in Int : d = P * e
  <2>1. \A k \in Nat : (\E v \in Int : (2 * c + 1) * d = Two(k) * v)
                           => \E v \in Int : d = Two(k) * v
    BY <1>10, OddCancels
  <2>2. \E v \in Int : (2 * c + 1) * d = Two(m) * v
    BY <1>9, <1>10 DEF P
  <2>3. \E v \in Int : d = Two(m) * v
    BY <1>1, <2>1, <2>2
  <2> QED BY <2>3 DEF P
<1>12. PICK n \in Nat : m = ObjectBits + n
  <2>1. m - ObjectBits \in Nat /\ m = ObjectBits + (m - ObjectBits)
    BY <1>1
  <2> QED BY <2>1
<1>13. Two(ObjectBits) <= P
  <2>1. P = Two(ObjectBits) * Two(n) /\ Two(ObjectBits) \in Nat /\ Two(n) \in Nat \ {0}
    BY <1>1, <1>12, TwoAdds, TwoDoubles DEF P
  <2> DEFINE O == Two(ObjectBits)
             T == Two(n)
  <2> HIDE DEF O, T
  <2>2. O \in Nat /\ T \in Nat \ {0} /\ P = O * T
    BY <2>1 DEF O, T
  <2>3. O * T >= O
    BY <2>2
  <2> QED BY <2>2, <2>3 DEF O
<1>14. d < P /\ d > -P
  <2>1. Two(ObjectBits) \in Nat
    BY <1>1, TwoDoubles
  <2> QED BY <1>2, <1>7, <1>13, <2>1 DEF d
<1>15. e = 0
  <2>1. ~ e >= 1
    <3> SUFFICES ASSUME e >= 1 PROVE FALSE
      OBVIOUS
    <3>1. P * e >= P
      BY <1>7
    <3> QED BY <1>7, <1>11, <1>14, <3>1
  <2>2. ~ e <= -1
    <3> SUFFICES ASSUME e <= -1 PROVE FALSE
      OBVIOUS
    <3>1. P * e <= -P
      BY <1>7
    <3> QED BY <1>7, <1>11, <1>14, <3>1
  <2> QED BY <2>1, <2>2
<1>16. d = 0
  BY <1>7, <1>11, <1>15
<1> QED BY <1>2, <1>16 DEF d

LEMMA Locations ==
  ASSUME NEW x \in Hasher!ObjectId, NEW i \in Hasher!Parts
  PROVE  /\ Hasher!Hashes[x][i][2] = Hasher!bitIdx(Hasher!fullHash(x), i)
         /\ Hasher!Hashes[x][i] = <<Hasher!chunkIdx(Hasher!fullHash(x), i), Hasher!bitIdx(Hasher!fullHash(x), i)>>
BY DEF Hasher!Hashes, Hasher!hashObject

\* The bits of an index, counted from 0.
LEMMA SameIndexSameBits ==
  ASSUME Hasher!HasherAssumption, NEW h, NEW g, NEW i \in Hasher!Parts, Hasher!bitIdx(h, i) = Hasher!bitIdx(g, i),
         NEW j \in Nat, j < LogBloomChunkSize
  PROVE  Hasher!BitOf(h, j * NumBloomParts + i) = Hasher!BitOf(g, j * NumBloomParts + i)
<1>1. j + 1 \in 1..LogBloomChunkSize /\ (j + 1) - 1 = j
  BY DEF Hasher!HasherAssumption
<1>2. Hasher!bitIdx(h, i)[j + 1] = Hasher!bitIdx(g, i)[j + 1]
  OBVIOUS
<1> QED BY <1>1, <1>2 DEF Hasher!bitIdx, Hasher!Every

LEMMA LocationsDiffer ==
  ASSUME Hasher!HasherAssumption, NEW x \in Hasher!ObjectId, NEW y \in Hasher!ObjectId, Hasher!Hashes[x] = Hasher!Hashes[y]
  PROVE  x = y
<1>1. /\ NumBloomParts \in Nat \ {0} /\ LogBloomChunkSize \in Nat
  BY DEF Hasher!HasherAssumption
<1>2. ASSUME NEW k \in Nat, k < IndexBits
      PROVE  Hasher!BitOf(Hasher!fullHash(x), k) = Hasher!BitOf(Hasher!fullHash(y), k)
  <2> DEFINE j == k \div NumBloomParts
             i == k % NumBloomParts
  <2>1. j \in Nat /\ i \in 0..(NumBloomParts - 1) /\ k = NumBloomParts * j + i
    BY <1>1
  <2> HIDE DEF j, i
  <2>2. j < LogBloomChunkSize
    <3> SUFFICES ASSUME j >= LogBloomChunkSize PROVE FALSE
      BY <1>1, <2>1
    <3>1. NumBloomParts * j >= NumBloomParts * LogBloomChunkSize
      BY <1>1, <2>1
    <3> DEFINE A == NumBloomParts * j
               B == NumBloomParts * LogBloomChunkSize
    <3>2. A \in Nat /\ B \in Nat /\ A >= B /\ k < B /\ k = A + i
      BY <1>1, <1>2, <2>1, <3>1 DEF IndexBits
    <3> HIDE DEF A, B
    <3> QED BY <2>1, <3>2
  <2>3. i \in Hasher!Parts
    BY <2>1 DEF Hasher!Parts
  <2>4. Hasher!bitIdx(Hasher!fullHash(x), i) = Hasher!bitIdx(Hasher!fullHash(y), i)
    BY <2>3, Locations
  <2>5. Hasher!BitOf(Hasher!fullHash(x), j * NumBloomParts + i) = Hasher!BitOf(Hasher!fullHash(y), j * NumBloomParts + i)
    BY <2>1, <2>2, <2>3, <2>4, SameIndexSameBits
  <2>6. k = j * NumBloomParts + i
    BY <1>1, <2>1
  <2> QED BY <2>5, <2>6
<1> QED BY <1>2, HashTellsApart

\* What is on its way, and whose location waits at the end.
HashInv ==
  /\ in = <<>> \/ \E obj \in Hasher!ObjectId : in = <<obj>>
  /\ out # <<>> => \E obj \in Hasher!ObjectId : object = <<obj>> /\ out = <<Hasher!Hashes[obj]>>

LEMMA HashInit == Hasher!Init => HashInv
BY DEF Hasher!Init, HashInv

LEMMA HashNext == HashInv /\ [Hasher!Next]_Hasher!vars => HashInv'
BY DEF HashInv, Hasher!Next, Hasher!vars, Hasher!request_put, Hasher!doHash,
       Hasher!response_get

LEMMA HashesHold == Hasher!HasherAssumption /\ HashInv => Hasher!DistinctObjectsDiffer
<1> SUFFICES ASSUME Hasher!HasherAssumption, HashInv, out # <<>>
             PROVE  Hasher!DistinctObjectsDiffer
  BY DEF Hasher!DistinctObjectsDiffer
<1>1. PICK x \in Hasher!ObjectId : object = <<x>> /\ out = <<Hasher!Hashes[x]>>
  BY DEF HashInv
<1>2. object[1] = x /\ out[1] = Hasher!Hashes[x]
  BY <1>1
<1> QED BY <1>2, LocationsDiffer DEF Hasher!DistinctObjectsDiffer

-----------------------------------------------------------------------------
(***************************************************************************)
(* The software filter, for every number of bits, hash functions and       *)
(* constants.                                                              *)
(***************************************************************************)
LEMMA PositionInWords ==
  ASSUME Filter!BloomAssumption, NEW x \in Objids, NEW p \in Filter!Positions(x)
  PROVE  p \div WordBits \in Filter!Words
<1>1. /\ BLOOM_TOTAL_BITS \in Nat /\ BLOOM_NUM_HASHES \in Nat \ {0}
      /\ BLOOM_NUM_HASHES <= BLOOM_TOTAL_BITS
      /\ WordBits \in Nat \ {0} /\ BLOOM_TOTAL_BITS % WordBits = 0
      /\ HashModulus \in Nat \ {0} /\ HashShift \in Nat \ {0} /\ x \in Nat
  BY DEF Filter!BloomAssumption
<1>2. PICK i \in Filter!Idx : p = Filter!bloom_hash(x, i)
  BY DEF Filter!Positions
<1>3. hash_constants[i] \in Nat
  BY <1>2 DEF Filter!BloomAssumption, Filter!Idx
<1>4. /\ Filter!PartBits \in Nat
      /\ BLOOM_TOTAL_BITS = BLOOM_NUM_HASHES * Filter!PartBits + (BLOOM_TOTAL_BITS % BLOOM_NUM_HASHES)
      /\ BLOOM_TOTAL_BITS % BLOOM_NUM_HASHES \in 0..(BLOOM_NUM_HASHES - 1)
  <2>1. Filter!PartBits = BLOOM_TOTAL_BITS \div BLOOM_NUM_HASHES
    BY DEF Filter!PartBits
  <2> QED BY <1>1, <2>1, DivMod
<1>5. Filter!PartBits # 0 /\ Filter!PartBits <= BLOOM_TOTAL_BITS
  <2>1. Filter!PartBits # 0
    BY <1>1, <1>4
  <2>2. BLOOM_NUM_HASHES * Filter!PartBits >= Filter!PartBits
    BY <1>1, <1>4
  <2> QED BY <1>1, <1>4, <2>1, <2>2
<1> DEFINE z == (x * hash_constants[i]) % HashModulus
           y == z \div HashShift
<1>6. y \in Nat
  <2>1. x * hash_constants[i] \in Nat
    BY <1>1, <1>3
  <2>2. z \in Nat
    BY <1>1, <2>1
  <2> HIDE DEF z
  <2> QED BY <1>1, <2>2
<1>7. p = y % Filter!PartBits
  BY <1>2 DEF Filter!bloom_hash
<1> HIDE DEF y
<1>8. p \in 0..(Filter!PartBits - 1)
  BY <1>4, <1>5, <1>6, <1>7
<1> DEFINE n == BLOOM_TOTAL_BITS \div WordBits
           k == p \div WordBits
<1>9. n \in Nat /\ BLOOM_TOTAL_BITS = WordBits * n
  BY <1>1, DivMod
<1>10. k \in Nat /\ WordBits * k <= p
  <2>1. p \in Nat
    BY <1>8
  <2>2. p = WordBits * k + (p % WordBits) /\ k \in Nat /\ p % WordBits \in Nat
    BY <1>1, <2>1, DivMod
  <2> QED BY <1>1, <2>2
<1> HIDE DEF n, k
<1>11. k < n
  <2> SUFFICES ASSUME k >= n PROVE FALSE
    BY <1>9, <1>10
  <2>1. WordBits * k >= WordBits * n
    BY <1>1, <1>9, <1>10
  <2> QED BY <1>1, <1>4, <1>5, <1>8, <1>9, <1>10, <2>1
<1> QED BY <1>9, <1>10, <1>11 DEF n, k, Filter!Words

\* What was inserted is found: inserting only sets more bits.
BloomInv == /\ inserted \subseteq Objids
            /\ \A x \in inserted : Filter!bloom_query(x)

LEMMA InsertKeeps ==
  ASSUME Filter!BloomAssumption, BloomInv, NEW y \in Objids, Filter!bloom_insert(y)
  PROVE  BloomInv'
<1>1. /\ inserted' = inserted \cup {y}
      /\ bits' = [wd \in Filter!Words |->
                    bits[wd] \cup {Filter!Bit(p) : p \in {q \in Filter!Positions(y) : q \div WordBits = wd}}]
  BY DEF Filter!bloom_insert
<1>2. \A wd \in Filter!Words : bits[wd] \subseteq bits'[wd]
  BY <1>1
<1>3. ASSUME NEW x \in inserted', NEW p \in Filter!Positions(x)
      PROVE  p % WordBits \in bits'[p \div WordBits]
  <2>1. x \in Objids
    BY <1>1, <1>3 DEF BloomInv
  <2>2. p \div WordBits \in Filter!Words
    BY <2>1, PositionInWords
  <2>3. CASE x \in inserted
    <3>1. p % WordBits \in bits[p \div WordBits]
      BY <2>3 DEF BloomInv, Filter!bloom_query
    <3> QED BY <1>2, <2>2, <3>1
  <2>4. CASE x = y
    BY <1>1, <2>2, <2>4 DEF Filter!Bit
  <2> QED BY <1>1, <2>3, <2>4
<1>4. inserted' \subseteq Objids
  BY <1>1 DEF BloomInv
<1>5. \A x : Filter!Positions(x)' = Filter!Positions(x)
  BY DEF Filter!Positions, Filter!bloom_hash, Filter!Idx, Filter!PartBits
<1> QED BY <1>3, <1>4, <1>5 DEF BloomInv, Filter!bloom_query

LEMMA FilterInit == Filter!Init => BloomInv
BY DEF Filter!Init, BloomInv

LEMMA FilterNext ==
  Filter!BloomAssumption /\ BloomInv /\ [Filter!Next]_Filter!vars => BloomInv'
<1> SUFFICES ASSUME Filter!BloomAssumption, BloomInv, [Filter!Next]_Filter!vars
             PROVE  BloomInv'
  OBVIOUS
<1>1. CASE Filter!Next
  BY <1>1, InsertKeeps DEF Filter!Next
<1>2. CASE UNCHANGED Filter!vars
  BY <1>2 DEF Filter!vars, BloomInv, Filter!bloom_query
<1> QED BY <1>1, <1>2

LEMMA FilterHolds == BloomInv => Filter!NoFalseNegative
BY DEF BloomInv, Filter!NoFalseNegative

-----------------------------------------------------------------------------
(***************************************************************************)
(* The generator of workloads, for any number of threads, transactions and *)
(* objects: the slices of its threads, what its search draws, and both     *)
(* formats, written and read back whole or cut off.                        *)
(***************************************************************************)
LEMMA GenerateCounts == \A S : Generate!Cardinality(S) = Cardinality(S)
BY Zenon DEF Generate!Cardinality, Cardinality

\* Where the j-th number of the i-th row is.
Place(i, j, width) == (i - 1) * width + j

Placed(p, i, j, width, n) ==
  /\ p \in 1..(n * width)
  /\ ((p - 1) \div width) + 1 = i
  /\ ((p - 1) % width) + 1 = j

LEMMA PlaceIs ==
  ASSUME NEW width \in Nat \ {0}, NEW n \in Nat, NEW i \in 1..n, NEW j \in 1..width
  PROVE  Placed(Place(i, j, width), i, j, width, n)
<1> DEFINE q == i - 1
           r == j - 1
           h == width * q + r
<1>1. q \in Nat /\ q \in Int /\ r \in 0..(width - 1) /\ h \in Int
  OBVIOUS
<1>2. h % width = r /\ h \div width = q
  BY <1>1, Divided
<1>3. Place(i, j, width) = h + 1
  BY DEF Place
<1>4. h >= 0 /\ h + 1 <= n * width
  <2>1. n - 1 - q \in Nat
    BY <1>1
  <2>2. width * (n - 1 - q) >= 0
    BY <2>1
  <2>3. width * (n - 1 - q) = n * width - width - width * q
    BY <2>1
  <2>4. width * q >= 0
    BY <1>1
  <2> QED BY <1>1, <2>2, <2>3, <2>4
<1> HIDE DEF h, q, r
<1>5. i = q + 1 /\ j = r + 1
  BY DEF q, r
<1>6. (h + 1) - 1 = h
  BY <1>1
<1>7. n * width \in Int
  OBVIOUS
<1>8. Place(i, j, width) \in 1..(n * width)
  BY <1>1, <1>3, <1>4, <1>7
<1> QED BY <1>2, <1>3, <1>5, <1>6, <1>8 DEF Placed

AreRows(rows, n, width) ==
  /\ Len(rows) = n
  /\ \A i \in 1..n : rows[i] \in Seq(Int) /\ Len(rows[i]) = width

LaidOut(q, rows, n, width) ==
  /\ q \in Seq(Int) /\ Len(q) = n * width
  /\ \A i \in 1..n, j \in 1..width :
       /\ Place(i, j, width) \in 1..(n * width)
       /\ q[Place(i, j, width)] = rows[i][j]

LEMMA RowsAt ==
  ASSUME NEW width \in Nat \ {0}, NEW n \in Nat, NEW rows, AreRows(rows, n, width)
  PROVE  LaidOut(Generate!InRows(rows, width), rows, n, width)
<1> DEFINE N == n * width
           f == [k \in 1..N |-> rows[((k - 1) \div width) + 1][((k - 1) % width) + 1]]
<1>1. N \in Nat /\ Len(rows) = n
  BY DEF AreRows
<1>2. Generate!InRows(rows, width) = f
  BY <1>1 DEF Generate!InRows
<1>3. ASSUME NEW k \in 1..N
      PROVE  rows[((k - 1) \div width) + 1][((k - 1) % width) + 1] \in Int
  <2> DEFINE q == (k - 1) \div width
             r == (k - 1) % width
  <2>1. k - 1 \in Nat
    BY <1>1
  <2>2. k - 1 = width * q + r /\ q \in Nat /\ r \in 0..(width - 1)
    <3> DEFINE z == k - 1
    <3>1. z \in Nat
      BY <2>1
    <3> HIDE DEF z
    <3>2. z = width * (z \div width) + (z % width) /\ z \div width \in Nat
      BY <3>1, DivMod
    <3>3. z % width \in 0..(width - 1)
      BY <3>1
    <3> QED BY <3>2, <3>3 DEF z
  <2> HIDE DEF q, r
  <2>3. q < n
    <3> SUFFICES ASSUME q >= n PROVE FALSE
      BY <2>2
    <3>1. width * (q - n) >= 0 /\ width * (q - n) = width * q - N
      BY <2>2
    <3> QED BY <1>1, <2>2, <3>1
  <2>4. q + 1 \in 1..n /\ r + 1 \in 1..width
    BY <2>2, <2>3
  <2>5. rows[q + 1] \in Seq(Int) /\ Len(rows[q + 1]) = width
    BY <2>4 DEF AreRows
  <2>6. rows[q + 1][r + 1] \in Int
    BY <2>4, <2>5
  <2> QED BY <2>6 DEF q, r
<1>4. f \in [1..N -> Int]
  BY <1>3
<1>5. ASSUME NEW i \in 1..n, NEW j \in 1..width
      PROVE  Place(i, j, width) \in 1..N /\ f[Place(i, j, width)] = rows[i][j]
  <2> DEFINE p == Place(i, j, width)
  <2>1. Placed(p, i, j, width, n)
    BY PlaceIs
  <2> HIDE DEF p
  <2>2. p \in 1..N /\ f[p] = rows[i][j]
    BY <2>1 DEF Placed
  <2> QED BY <2>2 DEF p
<1> HIDE DEF f, N
<1>6. f \in Seq(Int) /\ Len(f) = N
  BY <1>1, <1>4
<1> QED BY <1>2, <1>5, <1>6 DEF N, LaidOut

LEMMA IntervalOf ==
  ASSUME NEW a \in Nat, NEW b \in Nat
  PROVE  Generate!Cardinality((a + 1)..(a + b)) = b
<1>1. Cardinality((a + 1)..(a + b)) = IF a + 1 > a + b THEN 0 ELSE a + b - (a + 1) + 1
  BY FS_Interval
<1>2. Cardinality((a + 1)..(a + b)) = b
  BY <1>1
<1> QED BY <1>2, GenerateCounts

LEMMA AscendingRange ==
  ASSUME NEW a \in Nat, NEW b \in Nat
  PROVE  Generate!Ascending((a + 1)..(a + b)) = [k \in 1..b |-> a + k]
<1> DEFINE S == (a + 1)..(a + b)
<1>1. Generate!Cardinality(S) = b
  BY IntervalOf
<1>2. ASSUME NEW j \in S PROVE Generate!Cardinality({m \in S : m <= j}) = j - a
  <2>1. j - a \in Nat /\ {m \in S : m <= j} = (a + 1)..(a + (j - a))
    OBVIOUS
  <2> QED BY <2>1, IntervalOf
<1>3. ASSUME NEW k \in 1..b
      PROVE  (CHOOSE j \in S : Generate!Cardinality({m \in S : m <= j}) = k) = a + k
  <2>1. a + k \in S
    OBVIOUS
  <2>2. \A j \in S : Generate!Cardinality({m \in S : m <= j}) = k <=> j = a + k
    BY <1>2
  <2> HIDE DEF S
  <2> QED BY <2>1, <2>2
<1> HIDE DEF S
<1>4. Generate!Ascending(S) = [k \in 1..b |-> a + k]
  BY <1>1, <1>3 DEF Generate!Ascending
<1> QED BY <1>4 DEF S

-----------------------------------------------------------------------------
\* The search. What is left of a range when the weights reach r in it.
Reaching(r, lo, hi) == {m \in lo..(hi - 1) : r <= cdf[m + 1]} \cup {hi}
LeastIn(r, lo, hi) ==
  IF lo >= hi THEN lo ELSE Generate!Min(Reaching(r, lo, hi))

Bounds2 == 0..Len(cdf)

Searches(f, r) ==
  f = [p \in Bounds2 \X Bounds2 |->
         LET lo == p[1]  hi == p[2]  mid == (lo + hi) \div 2
         IN  IF lo >= hi THEN lo
             ELSE f[IF r <= cdf[mid + 1] THEN <<lo, mid>> ELSE <<mid + 1, hi>>]]

Cumulated == /\ cdf \in Seq(Nat) \ {<<>>}
             /\ \A j, k \in DOMAIN cdf : j <= k => cdf[j] <= cdf[k]

LEMMA SearchDef ==
  \A r : Generate!sample_zipf(r) = (CHOOSE f : Searches(f, r))[<<0, Len(cdf) - 1>>]
BY DEF Generate!sample_zipf, Searches, Bounds2

LEMMA LeastOne ==
  ASSUME NEW T, T \subseteq Nat, T # {}
  PROVE  Generate!Min(T) \in T /\ \A n \in T : Generate!Min(T) <= n
BY LeastOf DEF Generate!Min

LEMMA LeastOnly ==
  ASSUME NEW T, T \subseteq Nat, NEW m \in T, \A n \in T : m <= n
  PROVE  Generate!Min(T) = m
<1>1. Generate!Min(T) \in T /\ \A n \in T : Generate!Min(T) <= n
  BY LeastOne
<1>2. \A a, b \in Nat : a <= b /\ b <= a => a = b
  OBVIOUS
<1> QED BY <1>1, <1>2

LEMMA MiddleIs ==
  ASSUME NEW lo \in Nat, NEW hi \in Nat, lo < hi
  PROVE  (lo + hi) \div 2 \in lo..(hi - 1)
OBVIOUS

\* Halving leaves the least in the half that is kept.
LEMMA HalfKeepsLeast ==
  ASSUME Cumulated, NEW r \in Nat, NEW lo \in Bounds2, NEW hi \in Bounds2, lo < hi,
         NEW mid \in lo..(hi - 1)
  PROVE  /\ mid \in Bounds2 /\ mid + 1 \in Bounds2
         /\ r <= cdf[mid + 1] => LeastIn(r, lo, hi) = LeastIn(r, lo, mid)
         /\ ~ (r <= cdf[mid + 1]) => LeastIn(r, lo, hi) = LeastIn(r, mid + 1, hi)
<1>1. /\ Len(cdf) \in Nat /\ lo \in Nat /\ hi \in Nat /\ hi <= Len(cdf)
      /\ mid \in Bounds2 /\ mid + 1 \in Bounds2
  BY DEF Cumulated, Bounds2
<1>2. \A j \in lo..(hi - 1) : j + 1 \in DOMAIN cdf /\ cdf[j + 1] \in Nat
  BY <1>1 DEF Cumulated
<1>3. \A a, b : Reaching(r, a, b) = {m \in a..(b - 1) : r <= cdf[m + 1]} \cup {b}
  BY DEF Reaching
<1>4. \A a, b \in Nat : Reaching(r, a, b) \subseteq Nat /\ b \in Reaching(r, a, b)
  BY <1>3
<1>5. ASSUME r <= cdf[mid + 1] PROVE LeastIn(r, lo, hi) = LeastIn(r, lo, mid)
  <2> DEFINE n == LeastIn(r, lo, mid)
  <2>1. n \in lo..mid /\ (n = mid \/ (n < mid /\ r <= cdf[n + 1]))
        /\ \A m \in lo..(mid - 1) : r <= cdf[m + 1] => n <= m
    <3>1. CASE lo >= mid
      BY <1>1, <3>1 DEF LeastIn
    <3>2. CASE lo < mid
      <4>1. n = Generate!Min(Reaching(r, lo, mid))
        BY <1>1, <3>2 DEF LeastIn
      <4>2. n \in Reaching(r, lo, mid) /\ \A m \in Reaching(r, lo, mid) : n <= m
        BY <1>1, <1>4, <4>1, LeastOne
      <4> HIDE DEF n
      <4> QED BY <1>1, <1>3, <3>2, <4>2
    <3> QED BY <1>1, <3>1, <3>2
  <2> HIDE DEF n
  <2>2. n \in Reaching(r, lo, hi)
    BY <1>1, <1>3, <1>5, <2>1
  <2>3. \A m \in Reaching(r, lo, hi) : n <= m
    BY <1>1, <1>3, <2>1
  <2>4. Generate!Min(Reaching(r, lo, hi)) = n
    BY <1>1, <1>4, <2>2, <2>3, LeastOnly
  <2> QED BY <1>1, <2>4 DEF LeastIn, n
<1>6. ASSUME ~ (r <= cdf[mid + 1]) PROVE LeastIn(r, lo, hi) = LeastIn(r, mid + 1, hi)
  <2> DEFINE n == LeastIn(r, mid + 1, hi)
  <2>0. \A m \in lo..mid : ~ (r <= cdf[m + 1])
    <3> TAKE m \in lo..mid
    <3>1. m + 1 \in DOMAIN cdf /\ mid + 1 \in DOMAIN cdf /\ m + 1 <= mid + 1
      BY <1>1, <1>2
    <3>2. cdf[m + 1] <= cdf[mid + 1] /\ cdf[m + 1] \in Nat /\ cdf[mid + 1] \in Nat
      BY <1>1, <1>2, <3>1 DEF Cumulated
    <3> QED BY <1>6, <3>2
  <2>1. n \in (mid + 1)..hi /\ (n = hi \/ (n < hi /\ r <= cdf[n + 1]))
        /\ \A m \in (mid + 1)..(hi - 1) : r <= cdf[m + 1] => n <= m
    <3>1. CASE mid + 1 >= hi
      BY <1>1, <3>1 DEF LeastIn
    <3>2. CASE mid + 1 < hi
      <4>1. n = Generate!Min(Reaching(r, mid + 1, hi))
        BY <1>1, <3>2 DEF LeastIn
      <4>2. n \in Reaching(r, mid + 1, hi) /\ \A m \in Reaching(r, mid + 1, hi) : n <= m
        BY <1>1, <1>4, <4>1, LeastOne
      <4> HIDE DEF n
      <4> QED BY <1>1, <1>3, <3>2, <4>2
    <3> QED BY <1>1, <3>1, <3>2
  <2> HIDE DEF n
  <2>2. n \in Reaching(r, lo, hi)
    BY <1>1, <1>3, <2>1
  <2>3. \A m \in Reaching(r, lo, hi) : n <= m
    BY <1>1, <1>3, <2>0, <2>1
  <2>4. Generate!Min(Reaching(r, lo, hi)) = n
    BY <1>1, <1>4, <2>2, <2>3, LeastOnly
  <2> QED BY <1>1, <2>4 DEF LeastIn, n
<1> QED BY <1>1, <1>5, <1>6

\* So the least is a solution of the equation of the search,
LEMMA SearchExists ==
  ASSUME Cumulated, NEW r \in Nat
  PROVE  Searches([p \in Bounds2 \X Bounds2 |-> LeastIn(r, p[1], p[2])], r)
<1> DEFINE f == [p \in Bounds2 \X Bounds2 |-> LeastIn(r, p[1], p[2])]
           step(p) == LET lo == p[1]  hi == p[2]  mid == (lo + hi) \div 2
                      IN  IF lo >= hi THEN lo
                          ELSE f[IF r <= cdf[mid + 1] THEN <<lo, mid>> ELSE <<mid + 1, hi>>]
<1>1. ASSUME NEW p \in Bounds2 \X Bounds2 PROVE LeastIn(r, p[1], p[2]) = step(p)
  <2> DEFINE lo == p[1]
             hi == p[2]
             mid == (lo + hi) \div 2
  <2>1. lo \in Bounds2 /\ hi \in Bounds2 /\ lo \in Nat /\ hi \in Nat
    BY DEF Bounds2
  <2>2. CASE lo >= hi
    BY <2>2 DEF LeastIn
  <2>3. CASE lo < hi
    <3>1. mid \in lo..(hi - 1)
      BY <2>1, <2>3, MiddleIs
    <3>2. step(p) = f[IF r <= cdf[mid + 1] THEN <<lo, mid>> ELSE <<mid + 1, hi>>]
      BY <2>1, <2>3
    <3>3. \A a, b \in Bounds2 : f[<<a, b>>] = LeastIn(r, a, b)
      OBVIOUS
    <3> HIDE DEF f, step, mid, lo, hi
    <3>4. /\ mid \in Bounds2 /\ mid + 1 \in Bounds2
          /\ r <= cdf[mid + 1] => LeastIn(r, lo, hi) = LeastIn(r, lo, mid)
          /\ ~ (r <= cdf[mid + 1]) => LeastIn(r, lo, hi) = LeastIn(r, mid + 1, hi)
      BY <2>1, <2>3, <3>1, HalfKeepsLeast
    <3>5. step(p) = LeastIn(r, lo, hi)
      BY <2>1, <3>2, <3>3, <3>4
    <3> QED BY <3>5 DEF lo, hi
  <2> QED BY <2>1, <2>2, <2>3
<1> HIDE DEF step
<1>2. f = [p \in Bounds2 \X Bounds2 |-> step(p)]
  BY <1>1
<1> QED BY <1>2 DEF Searches, step

\* and as each step leaves a smaller range it is the only one.
LEMMA SearchUnique ==
  ASSUME Cumulated, NEW r \in Nat, NEW f, Searches(f, r)
  PROVE  \A lo, hi \in Bounds2 : f[<<lo, hi>>] = LeastIn(r, lo, hi)
<1> DEFINE S == {n \in Nat : \A lo, hi \in Bounds2 : hi - lo <= n => f[<<lo, hi>>] = LeastIn(r, lo, hi)}
<1>0. \A lo, hi \in Bounds2 :
        /\ lo \in Nat /\ hi \in Nat
        /\ lo >= hi => f[<<lo, hi>>] = lo
        /\ lo < hi => f[<<lo, hi>>] = f[IF r <= cdf[((lo + hi) \div 2) + 1] THEN <<lo, (lo + hi) \div 2>>
                                        ELSE <<((lo + hi) \div 2) + 1, hi>>]
  <2> TAKE lo, hi \in Bounds2
  <2>1. lo \in Nat /\ hi \in Nat
    BY DEF Bounds2, Cumulated
  <2>2. <<lo, hi>> \in Bounds2 \X Bounds2 /\ <<lo, hi>>[1] = lo /\ <<lo, hi>>[2] = hi
    OBVIOUS
  <2>3. f[<<lo, hi>>] = IF lo >= hi THEN lo
                        ELSE f[IF r <= cdf[((lo + hi) \div 2) + 1] THEN <<lo, (lo + hi) \div 2>>
                               ELSE <<((lo + hi) \div 2) + 1, hi>>]
    BY <2>2 DEF Searches
  <2> QED BY <2>1, <2>3
<1>a. ASSUME NEW lo \in Bounds2, NEW hi \in Bounds2
      PROVE  /\ lo \in Nat /\ hi \in Nat /\ (lo >= hi \/ lo < hi)
             /\ lo >= hi => f[<<lo, hi>>] = LeastIn(r, lo, hi)
  <2>1. lo \in Nat /\ hi \in Nat /\ (lo >= hi => f[<<lo, hi>>] = lo)
    BY <1>0
  <2> QED BY <2>1 DEF LeastIn
<1>1. 0 \in S
  <2> SUFFICES ASSUME NEW lo \in Bounds2, NEW hi \in Bounds2, hi - lo <= 0
               PROVE  f[<<lo, hi>>] = LeastIn(r, lo, hi)
    OBVIOUS
  <2>1. lo \in Nat /\ hi \in Nat
    BY <1>a
  <2>2. lo >= hi
    BY <2>1
  <2> QED BY <1>a, <2>2
<1>2. ASSUME NEW n \in Nat, n \in S PROVE n + 1 \in S
  <2> SUFFICES ASSUME NEW lo \in Bounds2, NEW hi \in Bounds2, hi - lo <= n + 1
               PROVE  f[<<lo, hi>>] = LeastIn(r, lo, hi)
    OBVIOUS
  <2>1. CASE lo >= hi
    BY <1>a, <2>1
  <2>2. CASE lo < hi
    <3> DEFINE mid == (lo + hi) \div 2
    <3>1. mid \in lo..(hi - 1) /\ lo \in Nat /\ hi \in Nat
      BY <1>0, <2>2, MiddleIs
    <3>2. f[<<lo, hi>>] = f[IF r <= cdf[mid + 1] THEN <<lo, mid>> ELSE <<mid + 1, hi>>]
      BY <1>0, <2>2
    <3> HIDE DEF mid
    <3>3. /\ mid \in Bounds2 /\ mid + 1 \in Bounds2
          /\ r <= cdf[mid + 1] => LeastIn(r, lo, hi) = LeastIn(r, lo, mid)
          /\ ~ (r <= cdf[mid + 1]) => LeastIn(r, lo, hi) = LeastIn(r, mid + 1, hi)
      BY <2>2, <3>1, HalfKeepsLeast
    <3>4. mid - lo <= n /\ hi - (mid + 1) <= n
      BY <3>1
    <3>5. f[<<lo, mid>>] = LeastIn(r, lo, mid) /\ f[<<mid + 1, hi>>] = LeastIn(r, mid + 1, hi)
      BY <1>2, <3>3, <3>4
    <3> QED BY <3>2, <3>3, <3>5
  <2> QED BY <1>a, <2>1, <2>2
<1> HIDE DEF S
<1>3. \A n \in Nat : n \in S
  BY <1>1, <1>2, ByInduction
<1>4. ASSUME NEW lo \in Bounds2, NEW hi \in Bounds2 PROVE \E n \in Nat : hi - lo <= n
  <2>1. lo \in Nat /\ hi \in Nat
    BY <1>a
  <2>2. hi \in Nat /\ hi - lo <= hi
    BY <2>1
  <2> QED BY <2>2
<1> QED BY <1>3, <1>4 DEF S

LEMMA SearchFinds ==
  ASSUME Cumulated, NEW r \in Nat
  PROVE  /\ Generate!sample_zipf(r) \in 0..(Len(cdf) - 1)
         /\ Generate!sample_zipf(r) = Generate!Min({i - 1 : i \in {k \in DOMAIN cdf : r <= cdf[k]}}
                           \cup {Len(cdf) - 1})
<1> DEFINE n == Len(cdf) - 1
           T == {i - 1 : i \in {k \in DOMAIN cdf : r <= cdf[k]}} \cup {n}
           v == LeastIn(r, 0, n)
<1>1. n \in Nat /\ n + 1 = Len(cdf) /\ DOMAIN cdf = 1..(n + 1) /\ 0 \in Bounds2 /\ n \in Bounds2
  BY DEF Cumulated, Bounds2
<1>2. Generate!sample_zipf(r) = v
  <2> DEFINE f == CHOOSE g : Searches(g, r)
  <2>1. Searches(f, r)
    BY SearchExists
  <2>2. Generate!sample_zipf(r) = f[<<0, n>>]
    BY SearchDef
  <2> HIDE DEF f, n
  <2> QED BY <1>1, <2>1, <2>2, SearchUnique
<1>3. v \in 0..n /\ (v = n \/ (v < n /\ r <= cdf[v + 1]))
      /\ \A m \in 0..(n - 1) : r <= cdf[m + 1] => v <= m
  <2> HIDE DEF n
  <2>1. CASE 0 >= n
    BY <1>1, <2>1 DEF LeastIn
  <2>2. CASE 0 < n
    <3>1. v = Generate!Min(Reaching(r, 0, n)) /\ Reaching(r, 0, n) \subseteq Nat /\ Reaching(r, 0, n) # {}
      BY <1>1, <2>2 DEF LeastIn, Reaching
    <3>2. v \in Reaching(r, 0, n) /\ \A m \in Reaching(r, 0, n) : v <= m
      BY <3>1, LeastOne
    <3> HIDE DEF v
    <3> QED BY <1>1, <2>2, <3>2 DEF Reaching
  <2> QED BY <1>1, <2>1, <2>2
<1> HIDE DEF v, n
<1>4. T \subseteq Nat
  BY <1>1
<1>5. v \in T
  <2>1. CASE v = n
    BY <2>1
  <2>2. CASE v < n /\ r <= cdf[v + 1]
    <3>1. v + 1 \in DOMAIN cdf /\ v = (v + 1) - 1
      BY <1>1, <1>3, <2>2
    <3> QED BY <2>2, <3>1
  <2> QED BY <1>3, <2>1, <2>2
<1>6. ASSUME NEW m \in T PROVE v <= m
  <2>1. CASE m = n
    BY <1>1, <1>3, <2>1
  <2>2. CASE m # n
    <3>1. PICK i \in DOMAIN cdf : m = i - 1 /\ r <= cdf[i]
      BY <2>2
    <3>2. m \in 0..(n - 1) /\ i = m + 1
      BY <1>1, <2>2, <3>1
    <3> QED BY <1>3, <3>1, <3>2
  <2> QED BY <2>1, <2>2
<1> HIDE DEF T
<1>7. Generate!Min(T) = v
  BY <1>4, <1>5, <1>6, LeastOnly
<1> QED BY <1>2, <1>3, <1>7 DEF T, n

-----------------------------------------------------------------------------
\* Transactions as they are generated.
TxnRec == [id : Int, reads : Seq(Int), writes : Seq(Int)]

Good(txn, i) ==
  /\ txn \in TxnRec /\ txn.id = i - 1
  /\ Len(txn.reads) <= MAX_TXN_OBJS /\ Len(txn.writes) <= MAX_TXN_OBJS

\* A line of CSV.
LineOf(l, txn) ==
  LET nr == Len(txn.reads)
      nw == Len(txn.writes)
  IN  /\ l \in Seq(Int) /\ Len(l) = 2 + 2 * (nr + nw) /\ l[1] = txn.id
      /\ \A j \in 1..nr : l[2 * j + 1] = txn.reads[j] /\ l[2 * j + 2] = 0
      /\ \A j \in 1..nw : /\ l[2 * (nr + j) + 1] = txn.writes[j]
                          /\ l[2 * (nr + j) + 2] = 1

Twos == {q \in Seq(Int) : Len(q) = 2}

LEMMA LineIs ==
  ASSUME NEW txn \in TxnRec
  PROVE  LineOf(Generate!CsvLine(txn), txn)
<1> DEFINE nr == Len(txn.reads)
           nw == Len(txn.writes)
           rs == [j \in DOMAIN txn.reads  |-> <<txn.reads[j], 0>>]
           ws == [j \in DOMAIN txn.writes |-> <<txn.writes[j], 1>>]
           pairs == Cat(rs, ws)
           row == Generate!InRows(pairs, 2)
           front == <<txn.id, 0>>
           l == Cat(front, row)
<1>1. /\ txn.reads \in Seq(Int) /\ txn.writes \in Seq(Int) /\ txn.id \in Int
      /\ nr \in Nat /\ nw \in Nat
      /\ DOMAIN txn.reads = 1..nr /\ DOMAIN txn.writes = 1..nw
  BY DEF TxnRec
<1>2. /\ rs \in Seq(Twos) /\ Len(rs) = nr
      /\ ws \in Seq(Twos) /\ Len(ws) = nw
  <2>1. \A a \in Int : <<a, 0>> \in Twos /\ <<a, 1>> \in Twos
    BY DEF Twos
  <2>2. /\ rs = [j \in 1..nr |-> <<txn.reads[j], 0>>]
        /\ ws = [j \in 1..nw |-> <<txn.writes[j], 1>>]
    BY <1>1
  <2>3. \A s \in Seq(Int) : \A j \in 1..Len(s) : s[j] \in Int
    OBVIOUS
  <2>4. /\ \A j \in 1..nr : txn.reads[j] \in Int
        /\ \A j \in 1..nw : txn.writes[j] \in Int
    BY <1>1, <2>3
  <2> HIDE DEF rs, ws, nr, nw
  <2>5. /\ \A j \in 1..nr : <<txn.reads[j], 0>> \in Twos
        /\ \A j \in 1..nw : <<txn.writes[j], 1>> \in Twos
    BY <2>1, <2>4
  <2>6. rs \in [1..nr -> Twos] /\ ws \in [1..nw -> Twos]
    BY <2>2, <2>5
  <2> QED BY <1>1, <2>2, <2>6
<1>3. /\ \A j \in 1..nr : rs[j] = <<txn.reads[j], 0>>
      /\ \A j \in 1..nw : ws[j] = <<txn.writes[j], 1>>
  BY <1>1
<1>4. Generate!CsvLine(txn) = l
  BY DEF Generate!CsvLine, Cat
<1> HIDE DEF rs, ws, nr, nw
<1>5. pairs \in Seq(Twos) /\ Joins(rs, ws, pairs)
  BY <1>2, Joined
<1> HIDE DEF pairs
<1>6. Len(pairs) = nr + nw
  BY <1>2, <1>5 DEF Joins
<1>7. \A i \in 1..(nr + nw) : pairs[i] \in Seq(Int) /\ Len(pairs[i]) = 2
  <2>1. \A i \in 1..(nr + nw) : pairs[i] \in Twos
    BY <1>1, <1>5, <1>6
  <2> QED BY <2>1 DEF Twos
<1>8. \A j \in 1..nr : pairs[j] = <<txn.reads[j], 0>>
  BY <1>2, <1>3, <1>5 DEF Joins
<1>9. \A j \in 1..nw : pairs[nr + j] = <<txn.writes[j], 1>>
  BY <1>2, <1>3, <1>5 DEF Joins
<1>10. /\ row \in Seq(Int) /\ Len(row) = (nr + nw) * 2
       /\ \A i \in 1..(nr + nw), j \in 1..2 :
            Place(i, j, 2) \in 1..((nr + nw) * 2) /\ row[Place(i, j, 2)] = pairs[i][j]
  <2>1. nr + nw \in Nat /\ 2 \in Nat \ {0}
    BY <1>1
  <2> DEFINE n == nr + nw
  <2>2. n \in Nat /\ AreRows(pairs, n, 2)
    BY <1>6, <1>7, <2>1 DEF AreRows
  <2> HIDE DEF n
  <2>3. LaidOut(row, pairs, n, 2)
    BY <2>1, <2>2, RowsAt
  <2> HIDE DEF row
  <2> QED BY <2>3 DEF n, LaidOut
<1> HIDE DEF row
<1>11. front \in Seq(Int) /\ Len(front) = 2 /\ front[1] = txn.id
  BY <1>1
<1> HIDE DEF front
<1>12. l \in Seq(Int) /\ Joins(front, row, l)
  BY <1>10, <1>11, Joined
<1> HIDE DEF l
<1>13. Len(l) = 2 + 2 * (nr + nw) /\ l[1] = txn.id
  BY <1>1, <1>10, <1>11, <1>12 DEF Joins
<1>14. ASSUME NEW i \in 1..(nr + nw)
       PROVE  l[2 * i + 1] = pairs[i][1] /\ l[2 * i + 2] = pairs[i][2]
  <2>1. /\ Place(i, 1, 2) \in 1..Len(row) /\ row[Place(i, 1, 2)] = pairs[i][1]
        /\ Place(i, 2, 2) \in 1..Len(row) /\ row[Place(i, 2, 2)] = pairs[i][2]
    BY <1>10
  <2>2. Place(i, 1, 2) = 2 * i - 1 /\ Place(i, 2, 2) = 2 * i
    BY <1>1 DEF Place
  <2>3. \A k \in 1..Len(row) : l[2 + k] = row[k]
    BY <1>11, <1>12 DEF Joins
  <2>4. 2 + (2 * i - 1) = 2 * i + 1 /\ 2 + 2 * i = 2 * i + 2
    BY <1>1
  <2> QED BY <2>1, <2>2, <2>3, <2>4
<1>15. ASSUME NEW j \in 1..nr
       PROVE  l[2 * j + 1] = txn.reads[j] /\ l[2 * j + 2] = 0
  <2>1. j \in 1..(nr + nw)
    BY <1>1
  <2> QED BY <1>8, <1>14, <2>1
<1>16. ASSUME NEW j \in 1..nw
       PROVE  l[2 * (nr + j) + 1] = txn.writes[j] /\ l[2 * (nr + j) + 2] = 1
  <2>1. nr + j \in 1..(nr + nw)
    BY <1>1
  <2> QED BY <1>9, <1>14, <2>1
<1> QED BY <1>4, <1>12, <1>13, <1>15, <1>16 DEF LineOf, nr, nw

LEMMA LineParses ==
  ASSUME NEW i, NEW txn, Good(txn, i), NEW l, LineOf(l, txn), MAX_TXN_OBJS \in Nat
  PROVE  l # <<>> /\ Generate!TxnParses(l) /\ Generate!parse_txn(l) = txn
<1> DEFINE nr == Len(txn.reads)
           nw == Len(txn.writes)
           zero == {j \in 1..((Len(l) - 2) \div 2) : l[2 * j + 2] = 0}
           one  == {j \in 1..((Len(l) - 2) \div 2) : l[2 * j + 2] = 1}
<1>1. /\ txn.reads \in Seq(Int) /\ txn.writes \in Seq(Int)
      /\ txn = [id |-> txn.id, reads |-> txn.reads, writes |-> txn.writes]
      /\ nr \in Nat /\ nw \in Nat /\ nr <= MAX_TXN_OBJS /\ nw <= MAX_TXN_OBJS
  BY DEF Good, TxnRec
<1>2. /\ l \in Seq(Int) /\ Len(l) = 2 + 2 * (nr + nw) /\ l[1] = txn.id
      /\ \A j \in 1..nr : l[2 * j + 1] = txn.reads[j] /\ l[2 * j + 2] = 0
      /\ \A j \in 1..nw : l[2 * (nr + j) + 1] = txn.writes[j] /\ l[2 * (nr + j) + 2] = 1
  BY DEF LineOf
<1> HIDE DEF nr, nw
<1>3. (Len(l) - 2) \div 2 = nr + nw /\ Len(l) >= 2 /\ Len(l) % 2 = 0 /\ l # <<>>
  <2> DEFINE n == nr + nw
  <2>1. n \in Nat /\ Len(l) = 2 + 2 * n
    BY <1>1, <1>2
  <2> HIDE DEF n
  <2>2. (Len(l) - 2) \div 2 = n /\ Len(l) >= 2 /\ Len(l) % 2 = 0
    BY <2>1
  <2> QED BY <2>2 DEF n
<1>4. ASSUME NEW j \in 1..(nr + nw)
      PROVE  l[2 * j + 2] = IF j <= nr THEN 0 ELSE 1
  <2>1. CASE j <= nr
    BY <1>1, <1>2, <2>1
  <2>2. CASE ~ (j <= nr)
    <3>1. j - nr \in 1..nw /\ nr + (j - nr) = j
      BY <1>1, <2>2
    <3> QED BY <1>2, <2>2, <3>1
  <2> QED BY <2>1, <2>2
<1>5. zero = (0 + 1)..(0 + nr)
  BY <1>1, <1>3, <1>4
<1>6. one = (nr + 1)..(nr + nw)
  BY <1>1, <1>3, <1>4
<1>7. Generate!Ascending(zero) = [k \in 1..nr |-> 0 + k]
  BY <1>1, <1>5, AscendingRange
<1>8. Generate!Ascending(one) = [k \in 1..nw |-> nr + k]
  BY <1>1, <1>6, AscendingRange
<1>9. /\ Generate!WithFlag(l, 0) =
           [j \in DOMAIN Generate!Ascending(zero) |-> l[2 * Generate!Ascending(zero)[j] + 1]]
      /\ Generate!WithFlag(l, 1) =
           [j \in DOMAIN Generate!Ascending(one) |-> l[2 * Generate!Ascending(one)[j] + 1]]
  BY DEF Generate!WithFlag
<1> HIDE DEF zero, one
<1>10. Generate!WithFlag(l, 0) = txn.reads
  <2>1. Generate!WithFlag(l, 0) = [j \in 1..nr |-> l[2 * (0 + j) + 1]]
    BY <1>7, <1>9
  <2>2. \A j \in 1..nr : l[2 * (0 + j) + 1] = txn.reads[j]
    BY <1>2
  <2>3. txn.reads = [j \in 1..nr |-> txn.reads[j]]
    BY <1>1 DEF nr
  <2> QED BY <2>1, <2>2, <2>3
<1>11. Generate!WithFlag(l, 1) = txn.writes
  <2>1. Generate!WithFlag(l, 1) = [j \in 1..nw |-> l[2 * (nr + j) + 1]]
    BY <1>8, <1>9
  <2>2. \A j \in 1..nw : l[2 * (nr + j) + 1] = txn.writes[j]
    BY <1>2
  <2>3. txn.writes = [j \in 1..nw |-> txn.writes[j]]
    BY <1>1 DEF nw
  <2> QED BY <2>1, <2>2, <2>3
<1>12. Generate!TxnParses(l)
  BY <1>1, <1>3, <1>10, <1>11 DEF Generate!TxnParses, nr, nw
<1>13. Generate!parse_txn(l) = txn
  BY <1>1, <1>2, <1>10, <1>11 DEF Generate!parse_txn
<1> QED BY <1>3, <1>12, <1>13

\* A record of the binary file.
RecordOf(b, txn) ==
  LET nr == Len(txn.reads)
      nw == Len(txn.writes)
  IN  /\ b \in Seq(Int) /\ Len(b) = Generate!RecordLen
      /\ b[1] = txn.id /\ b[3] = nr /\ b[4] = nw
      /\ \A j \in 1..nr : b[4 + j] = txn.reads[j]
      /\ \A j \in 1..nw : b[4 + MAX_TXN_OBJS + j] = txn.writes[j]

LEMMA PaddedIs ==
  ASSUME NEW s \in Seq(Int), MAX_TXN_OBJS \in Nat, Len(s) <= MAX_TXN_OBJS
  PROVE  /\ Generate!Padded(s) \in Seq(Int) /\ Len(Generate!Padded(s)) = MAX_TXN_OBJS
         /\ \A j \in 1..Len(s) : Generate!Padded(s)[j] = s[j]
<1> DEFINE m == MAX_TXN_OBJS - Len(s)
           z == [j \in 1..m |-> 0]
<1>1. m \in Nat /\ z \in Seq(Int) /\ Len(z) = m
  OBVIOUS
<1>2. Generate!Padded(s) = Cat(s, z)
  BY DEF Generate!Padded, Cat
<1> HIDE DEF z
<1>3. Cat(s, z) \in Seq(Int) /\ Joins(s, z, Cat(s, z))
  BY <1>1, Joined
<1>4. Len(Cat(s, z)) = MAX_TXN_OBJS
  BY <1>1, <1>3 DEF Joins
<1>5. \A j \in 1..Len(s) : Cat(s, z)[j] = s[j]
  BY <1>3 DEF Joins
<1> QED BY <1>2, <1>3, <1>4, <1>5

LEMMA RecordIs ==
  ASSUME NEW i, NEW txn, Good(txn, i), MAX_TXN_OBJS \in Nat
  PROVE  RecordOf(Generate!BinRecord(txn), txn)
<1> DEFINE nr == Len(txn.reads)
           nw == Len(txn.writes)
           h == <<txn.id, 0, nr, nw>>
           r == Generate!Padded(txn.reads)
           w2 == Generate!Padded(txn.writes)
           hr == Cat(h, r)
           b == Cat(hr, w2)
<1>1. /\ txn.reads \in Seq(Int) /\ txn.writes \in Seq(Int) /\ txn.id \in Int
      /\ nr \in Nat /\ nw \in Nat /\ nr <= MAX_TXN_OBJS /\ nw <= MAX_TXN_OBJS
  BY DEF Good, TxnRec
<1>2. Generate!BinRecord(txn) = b
  BY DEF Generate!BinRecord, Cat
<1>3. h \in Seq(Int) /\ Len(h) = 4 /\ h[1] = txn.id /\ h[3] = nr /\ h[4] = nw
  BY <1>1
<1>4. /\ r \in Seq(Int) /\ Len(r) = MAX_TXN_OBJS /\ \A j \in 1..nr : r[j] = txn.reads[j]
      /\ w2 \in Seq(Int) /\ Len(w2) = MAX_TXN_OBJS /\ \A j \in 1..nw : w2[j] = txn.writes[j]
  BY <1>1, PaddedIs
<1> HIDE DEF h, r, w2, nr, nw
<1>5. hr \in Seq(Int) /\ Joins(h, r, hr)
  BY <1>3, <1>4, Joined
<1> HIDE DEF hr
<1>6. b \in Seq(Int) /\ Joins(hr, w2, b)
  BY <1>4, <1>5, Joined
<1> HIDE DEF b
<1>7. Len(hr) = 4 + MAX_TXN_OBJS
  BY <1>3, <1>4, <1>5 DEF Joins
<1>8. Len(b) = Generate!RecordLen
  BY <1>4, <1>6, <1>7 DEF Joins, Generate!RecordLen
<1>9. \A j \in 1..(4 + MAX_TXN_OBJS) : b[j] = hr[j]
  BY <1>6, <1>7 DEF Joins
<1>10. \A j \in 1..4 : hr[j] = h[j]
  BY <1>3, <1>5 DEF Joins
<1>11. \A j \in 1..MAX_TXN_OBJS : hr[4 + j] = r[j]
  BY <1>3, <1>4, <1>5 DEF Joins
<1>12. \A j \in 1..MAX_TXN_OBJS : b[4 + MAX_TXN_OBJS + j] = w2[j]
  BY <1>4, <1>6, <1>7 DEF Joins
<1>13. b[1] = txn.id /\ b[3] = nr /\ b[4] = nw
  BY <1>3, <1>9, <1>10
<1>14. ASSUME NEW j \in 1..nr PROVE b[4 + j] = txn.reads[j]
  <2>1. j \in 1..MAX_TXN_OBJS /\ 4 + j \in 1..(4 + MAX_TXN_OBJS)
    BY <1>1
  <2> QED BY <1>4, <1>9, <1>11, <2>1
<1>15. ASSUME NEW j \in 1..nw PROVE b[4 + MAX_TXN_OBJS + j] = txn.writes[j]
  <2>1. j \in 1..MAX_TXN_OBJS
    BY <1>1
  <2> QED BY <1>4, <1>12, <2>1
<1> QED BY <1>2, <1>6, <1>8, <1>13, <1>14, <1>15 DEF RecordOf, nr, nw

-----------------------------------------------------------------------------
\* What is written, and what may be left of it.
Written ==
  IF args.mode = "csv"
  THEN [i \in DOMAIN txns |-> Generate!CsvLine(txns[i])]
  ELSE Generate!BinHeader
         \o Generate!InRows([i \in DOMAIN txns |-> Generate!BinRecord(txns[i])],
                            Generate!RecordLen)

CutFrom(q, n, f) ==
  \/ f = SubSeq(q, 1, n)
  \/ /\ args.mode = "csv"
     /\ \E k \in 0..(Len(q[n + 1]) - 1) :
          f = Append(SubSeq(q, 1, n), SubSeq(q[n + 1], 1, k))

AllGood ==
  /\ args.num_txns \in Nat /\ MAX_TXN_OBJS \in Nat
  /\ DOMAIN txns = 1..args.num_txns /\ txns = [i \in DOMAIN txns |-> txns[i]]
  /\ \A i \in 1..args.num_txns : Good(txns[i], i)

LEMMA TxnsSeq == AllGood => txns \in Seq(TxnRec) /\ Len(txns) = args.num_txns
<1> SUFFICES ASSUME AllGood PROVE txns \in Seq(TxnRec) /\ Len(txns) = args.num_txns
  OBVIOUS
<1> DEFINE n == args.num_txns
<1>1. n \in Nat /\ txns = [i \in 1..n |-> txns[i]]
  BY DEF AllGood
<1>2. \A i \in 1..n : txns[i] \in TxnRec
  BY DEF AllGood, Good
<1> HIDE DEF n
<1>3. txns \in [1..n -> TxnRec]
  BY <1>1, <1>2
<1>4. txns \in Seq(TxnRec) /\ Len(txns) = n
  BY <1>1, <1>3
<1> QED BY <1>4 DEF n

LEMMA LinesWritten ==
  ASSUME AllGood, args.mode = "csv"
  PROVE  /\ Written \in Seq(Seq(Int)) /\ Len(Written) = args.num_txns
         /\ \A i \in 1..args.num_txns :
              /\ Written[i] # <<>> /\ Generate!TxnParses(Written[i])
              /\ Generate!parse_txn(Written[i]) = txns[i]
<1> DEFINE n == args.num_txns
           l(i) == Generate!CsvLine(txns[i])
<1>1. n \in Nat /\ MAX_TXN_OBJS \in Nat /\ Written = [i \in 1..n |-> l(i)]
  BY DEF AllGood, Written
<1>2. ASSUME NEW i \in 1..n
      PROVE  /\ l(i) \in Seq(Int) /\ l(i) # <<>> /\ Generate!TxnParses(l(i))
             /\ Generate!parse_txn(l(i)) = txns[i]
  <2> DEFINE t == txns[i]
             q == l(i)
  <2>1. Good(t, i) /\ t \in TxnRec
    BY DEF AllGood, Good
  <2>2. LineOf(q, t)
    BY <2>1, LineIs
  <2> HIDE DEF t, q, n
  <2>3. q # <<>> /\ Generate!TxnParses(q) /\ Generate!parse_txn(q) = t
    BY <1>1, <2>1, <2>2, LineParses
  <2>4. q \in Seq(Int)
    BY <2>2 DEF LineOf
  <2> QED BY <2>3, <2>4 DEF t, q
<1> HIDE DEF l, n
<1>3. Written \in Seq(Seq(Int)) /\ Len(Written) = n
  BY <1>1, <1>2
<1> QED BY <1>1, <1>2, <1>3 DEF n

\* Of a file of which the first b lines are not empty, those are read.
LEMMA FullAre ==
  ASSUME NEW b \in Nat, {i \in DOMAIN file : file[i] # <<>>} = 1..b
  PROVE  Generate!FullLines = [k \in 1..b |-> file[k]]
<1> DEFINE nums == Generate!Ascending({i \in DOMAIN file : file[i] # <<>>})
<1>1. Generate!Ascending((0 + 1)..(0 + b)) = [k \in 1..b |-> 0 + k]
  BY 0 \in Nat, AscendingRange
<1>2. nums = [k \in 1..b |-> k]
  <2>1. 1..b = (0 + 1)..(0 + b) /\ [k \in 1..b |-> 0 + k] = [k \in 1..b |-> k]
    OBVIOUS
  <2> QED BY <1>1, <2>1
<1>3. Generate!FullLines = [j \in DOMAIN nums |-> file[nums[j]]]
  BY DEF Generate!FullLines
<1> HIDE DEF nums
<1> QED BY <1>2, <1>3

\* Each line that parses has been counted.
LEMMA AllLinesCounted ==
  ASSUME NEW b \in Nat, {i \in DOMAIN file : file[i] # <<>>} = 1..b,
         Generate!CsvParses
  PROVE  Generate!count_lines = b
<1>1. Generate!FullLines = [k \in 1..b |-> file[k]]
  BY FullAre
<1>2. ASSUME NEW k \in 1..b PROVE ~ Generate!OneCharacter(file[k])
  <2>1. Generate!TxnParses(file[k])
    BY <1>1 DEF Generate!CsvParses
  <2>2. Len(file[k]) >= 2
    BY <2>1, Zenon DEF Generate!TxnParses
  <2>3. \A l : l >= 2 => ~ (l = 1)
    OBVIOUS
  <2>4. ~ (Len(file[k]) = 1)
    BY <2>2, <2>3
  <2> QED BY <2>4, Zenon DEF Generate!OneCharacter
<1>3. {i \in DOMAIN file : file[i] # <<>> /\ ~ Generate!OneCharacter(file[i])} = 1..b
  BY <1>2
<1> QED BY <1>3, SizeOfInterval, GenerateCounts DEF Generate!count_lines

LEMMA LinesReadBack ==
  ASSUME AllGood, args.mode = "csv", file = Written
  PROVE  Generate!CsvParses /\ Generate!parse_workload_csv = txns
<1> DEFINE n == args.num_txns
<1>1. /\ n \in Nat /\ DOMAIN file = 1..n /\ file = [i \in 1..n |-> file[i]]
      /\ txns = [i \in 1..n |-> txns[i]]
      /\ \A i \in 1..n : /\ file[i] # <<>> /\ Generate!TxnParses(file[i])
                         /\ Generate!parse_txn(file[i]) = txns[i]
  BY LinesWritten DEF AllGood
<1> HIDE DEF n
<1>2. {i \in DOMAIN file : file[i] # <<>>} = 1..n
  BY <1>1
<1>3. Generate!FullLines = [k \in 1..n |-> file[k]]
  BY <1>1, <1>2, FullAre
<1>4. Generate!CsvParses
  BY <1>1, <1>3 DEF Generate!CsvParses
<1>5. Generate!parse_workload_csv = [i \in 1..n |-> Generate!parse_txn(file[i])]
  <2>1. Generate!count_lines = n
    BY <1>1, <1>2, <1>4, AllLinesCounted
  <2> QED BY <1>1, <1>3, <2>1 DEF Generate!parse_workload_csv
<1> QED BY <1>1, <1>4, <1>5

LEMMA LinesCut ==
  ASSUME AllGood, args.mode = "csv", NEW n \in 0..(Len(Written) - 1), CutFrom(Written, n, file),
         Generate!CsvParses
  PROVE  /\ Len(Generate!parse_workload_csv) <= Len(txns)
         /\ Len(Generate!FullLines) <= Generate!count_lines
         /\ \A i \in 1..(Len(Generate!parse_workload_csv) - 1) : Generate!parse_workload_csv[i] = txns[i]
<1> DEFINE q == Written
           c == SubSeq(q, 1, n)
<1>1. /\ q \in Seq(Seq(Int)) /\ Len(q) = args.num_txns /\ Len(txns) = Len(q)
      /\ \A i \in 1..Len(q) : q[i] # <<>> /\ Generate!parse_txn(q[i]) = txns[i]
  BY LinesWritten, TxnsSeq
<1>2. n \in Nat /\ n + 1 <= Len(q)
  BY <1>1
<1> HIDE DEF q
<1>3. c = [i \in 1..n |-> q[i]]
  <2>1. SubSeq(q, 0 + 1, 0 + n) = [i \in 1..n |-> q[0 + i]]
    BY <1>1, <1>2, Cutting
  <2> QED BY <1>2, <2>1
<1>4. \E b \in {n, n + 1} :
        {i \in DOMAIN file : file[i] # <<>>} = 1..b /\ \A i \in 1..n : file[i] = q[i]
  <2>1. CASE file = c
    <3>1. \A i \in 1..n : file[i] = q[i] /\ q[i] # <<>>
      BY <1>1, <1>2, <1>3, <2>1
    <3>2. DOMAIN file = 1..n
      BY <1>3, <2>1
    <3> QED BY <3>1, <3>2
  <2>2. CASE file # c
    <3>1. PICK p : file = Append(c, p)
      BY <2>2 DEF CutFrom, q
    <3>2. /\ DOMAIN file = 1..(n + 1) /\ file[n + 1] = p
          /\ \A i \in 1..n : file[i] = q[i]
      <4>1. c = [i \in 1..n |-> q[i]] /\ Len(c) = n
        BY <1>2, <1>3
      <4> HIDE DEF c
      <4> QED BY <1>2, <3>1, <4>1
    <3>3. \A i \in 1..n : q[i] # <<>>
      BY <1>1, <1>2
    <3>4. CASE p = <<>>
      <4>1. {i \in DOMAIN file : file[i] # <<>>} = 1..n
        BY <1>2, <3>2, <3>3, <3>4
      <4> QED BY <3>2, <4>1
    <3>5. CASE p # <<>>
      <4>1. {i \in DOMAIN file : file[i] # <<>>} = 1..(n + 1)
        BY <1>2, <3>2, <3>3, <3>5
      <4> QED BY <3>2, <4>1
    <3> QED BY <3>4, <3>5
  <2> QED BY <2>1, <2>2
<1>5. PICK b \in {n, n + 1} :
        {i \in DOMAIN file : file[i] # <<>>} = 1..b /\ \A i \in 1..n : file[i] = q[i]
  BY <1>4
<1>6. Generate!FullLines = [k \in 1..b |-> file[k]] /\ b \in Nat
  BY <1>2, <1>5, FullAre
<1> DEFINE w2 == Generate!parse_workload_csv
<1>c. Generate!count_lines = b
  BY <1>5, <1>6, AllLinesCounted
<1>7. w2 = [i \in 1..b |-> Generate!parse_txn(file[i])]
  BY <1>6, <1>c DEF Generate!parse_workload_csv
<1> HIDE DEF w2
<1>8. Len(w2) = b
  BY <1>6, <1>7
<1>9. ASSUME NEW i \in 1..(b - 1) PROVE w2[i] = txns[i]
  <2>1. i \in 1..b /\ i \in 1..n /\ i \in 1..Len(q)
    BY <1>1, <1>2, <1>5, <1>6
  <2> QED BY <1>1, <1>5, <1>7, <2>1
<1>10. Len(Generate!FullLines) = b
  BY <1>6
<1> QED BY <1>1, <1>2, <1>5, <1>6, <1>8, <1>9, <1>10, <1>c DEF w2

-----------------------------------------------------------------------------
BinFile(f, rows, n) ==
  /\ f \in Seq(Int) /\ Len(f) = 5 + n * Generate!RecordLen
  /\ f[1] = Generate!Magic /\ f[2] = Generate!Version /\ f[3] = n /\ f[4] = MAX_TXN_OBJS
  /\ \A i \in 1..n, j \in 1..Generate!RecordLen :
       /\ Place(i, j, Generate!RecordLen) \in 1..(n * Generate!RecordLen)
       /\ f[5 + Place(i, j, Generate!RecordLen)] = rows[i][j]

LEMMA RecordsWritten ==
  ASSUME AllGood, args.mode # "csv"
  PROVE  /\ BinFile(Written, [i \in DOMAIN txns |-> Generate!BinRecord(txns[i])], args.num_txns)
         /\ Generate!RecordLen \in Nat \ {0}
<1> DEFINE n == args.num_txns
           L == Generate!RecordLen
           rows == [i \in DOMAIN txns |-> Generate!BinRecord(txns[i])]
           h == Generate!BinHeader
           body == Generate!InRows(rows, L)
           f == Cat(h, body)
<1>1. n \in Nat /\ MAX_TXN_OBJS \in Nat /\ DOMAIN rows = 1..n
  BY DEF AllGood
<1>2. L \in Nat \ {0}
  BY <1>1 DEF Generate!RecordLen
<1>3. Written = f
  BY DEF Written, Cat
<1>4. /\ h \in Seq(Int) /\ Len(h) = 5 /\ h[1] = Generate!Magic /\ h[2] = Generate!Version
      /\ h[3] = n /\ h[4] = MAX_TXN_OBJS
  <2>1. Generate!Magic \in Int /\ Generate!Version \in Int /\ n \in Int /\ MAX_TXN_OBJS \in Int
    BY <1>1 DEF Generate!Magic, Generate!Version
  <2>2. h = <<Generate!Magic, Generate!Version, n, MAX_TXN_OBJS, 0>>
    BY DEF Generate!BinHeader
  <2> HIDE DEF h, n
  <2> QED BY <2>1, <2>2
<1>5. ASSUME NEW i \in 1..n PROVE rows[i] \in Seq(Int) /\ Len(rows[i]) = L
  <2> DEFINE t == txns[i]
             b == Generate!BinRecord(t)
  <2>1. Good(t, i)
    BY DEF AllGood
  <2> HIDE DEF t
  <2>2. RecordOf(b, t)
    BY <1>1, <2>1, RecordIs
  <2>3. b \in Seq(Int) /\ Len(b) = L
    BY <2>2 DEF RecordOf
  <2>4. rows[i] = b
    BY <1>1 DEF t
  <2> QED BY <2>3, <2>4
<1>6. AreRows(rows, n, L)
  <2>1. Len(rows) = n
    BY <1>1
  <2> QED BY <1>5, <2>1 DEF AreRows
<1> HIDE DEF rows, h, n, L
<1>7. LaidOut(body, rows, n, L)
  BY <1>1, <1>2, <1>6, RowsAt
<1> HIDE DEF body
<1>8. body \in Seq(Int) /\ Len(body) = n * L
  BY <1>7 DEF LaidOut
<1>9. f \in Seq(Int) /\ Joins(h, body, f)
  BY <1>4, <1>8, Joined
<1> HIDE DEF f
<1>10. Len(f) = 5 + n * L
  BY <1>4, <1>8, <1>9 DEF Joins
<1>11. f[1] = h[1] /\ f[2] = h[2] /\ f[3] = h[3] /\ f[4] = h[4]
  BY <1>4, <1>9 DEF Joins
<1>12. \A k \in 1..(n * L) : f[5 + k] = body[k]
  BY <1>4, <1>8, <1>9 DEF Joins
<1>13. ASSUME NEW i \in 1..n, NEW j \in 1..L
       PROVE  Place(i, j, L) \in 1..(n * L) /\ f[5 + Place(i, j, L)] = rows[i][j]
  <2>1. Place(i, j, L) \in 1..(n * L) /\ body[Place(i, j, L)] = rows[i][j]
    BY <1>7 DEF LaidOut
  <2> QED BY <1>12, <2>1
<1> QED BY <1>2, <1>3, <1>4, <1>9, <1>10, <1>11, <1>13 DEF BinFile, n, L, rows

LEMMA RecordsReadBack ==
  ASSUME AllGood, args.mode # "csv", file = Written
  PROVE  Generate!BinParses /\ Generate!parse_workload_bin = txns
<1> DEFINE n == args.num_txns
           L == Generate!RecordLen
           rows == [i \in DOMAIN txns |-> Generate!BinRecord(txns[i])]
<1>1. /\ n \in Nat /\ MAX_TXN_OBJS \in Nat /\ DOMAIN txns = 1..n
      /\ txns = [i \in DOMAIN txns |-> txns[i]]
  BY DEF AllGood
<1>2. BinFile(file, rows, n) /\ L \in Nat \ {0} /\ L = 4 + 2 * MAX_TXN_OBJS
  BY RecordsWritten DEF Generate!RecordLen
<1>3. \A i \in 1..n : rows[i] = Generate!BinRecord(txns[i])
  BY <1>1
<1> HIDE DEF rows, n, L
<1>4. /\ file \in Seq(Int) /\ Len(file) = 5 + n * L
      /\ file[1] = Generate!Magic /\ file[2] = Generate!Version /\ file[3] = n
      /\ file[4] = MAX_TXN_OBJS
  BY <1>2 DEF BinFile, L
<1>5. ASSUME NEW i \in 1..n, NEW j \in 1..L PROVE Generate!Field(i, j) = rows[i][j]
  <2> DEFINE k == Place(i, j, L)
  <2>1. k \in 1..(n * L) /\ file[5 + k] = rows[i][j]
    BY <1>2 DEF BinFile, L
  <2>2. (i - 1) * L \in Int
    BY <1>2
  <2>3. 5 + (i - 1) * Generate!RecordLen + j = 5 + k
    BY <1>2, <2>2 DEF Place, L
  <2> HIDE DEF k
  <2>4. n * L \in Nat
    BY <1>1, <1>2 DEF n
  <2>5. 5 + k <= Len(file)
    BY <1>4, <2>1, <2>4
  <2> QED BY <2>1, <2>3, <2>5 DEF Generate!Field
<1>6. ASSUME NEW i \in 1..n
      PROVE  /\ Generate!Field(i, 3) \in 0..MAX_TXN_OBJS /\ Generate!Field(i, 4) \in 0..MAX_TXN_OBJS
             /\ [id     |-> Generate!Field(i, 1),
                 reads  |-> [j \in 1..Generate!Field(i, 3) |-> Generate!Field(i, 4 + j)],
                 writes |-> [j \in 1..Generate!Field(i, 4) |-> Generate!Field(i, 4 + MAX_TXN_OBJS + j)]]
                  = txns[i]
  <2> DEFINE t == txns[i]
             b == rows[i]
             nr == Len(t.reads)
             nw == Len(t.writes)
  <2>1. Good(t, i)
    BY DEF AllGood, n
  <2>2. RecordOf(b, t)
    BY <1>1, <1>3, <2>1, RecordIs
  <2>3. /\ t = [id |-> t.id, reads |-> t.reads, writes |-> t.writes]
        /\ t.reads = [j \in 1..nr |-> t.reads[j]] /\ t.writes = [j \in 1..nw |-> t.writes[j]]
        /\ nr \in 0..MAX_TXN_OBJS /\ nw \in 0..MAX_TXN_OBJS
    <3>1. t \in TxnRec /\ nr <= MAX_TXN_OBJS /\ nw <= MAX_TXN_OBJS
      BY <2>1 DEF Good
    <3>2. t.reads \in Seq(Int) /\ t.writes \in Seq(Int) /\ t = [id |-> t.id, reads |-> t.reads, writes |-> t.writes]
      BY <3>1 DEF TxnRec
    <3> HIDE DEF t
    <3> QED BY <1>1, <3>1, <3>2
  <2> HIDE DEF t, b, nr, nw
  <2>4. /\ b[1] = t.id /\ b[3] = nr /\ b[4] = nw
        /\ \A j \in 1..nr : b[4 + j] = t.reads[j]
        /\ \A j \in 1..nw : b[4 + MAX_TXN_OBJS + j] = t.writes[j]
    BY <2>2 DEF RecordOf, nr, nw
  <2>5. \A j \in 1..L : Generate!Field(i, j) = b[j]
    BY <1>5 DEF b
  <2>6. 1 \in 1..L /\ 3 \in 1..L /\ 4 \in 1..L
    BY <1>1, <1>2
  <2>7. Generate!Field(i, 1) = t.id /\ Generate!Field(i, 3) = nr /\ Generate!Field(i, 4) = nw
    BY <2>4, <2>5, <2>6
  <2>8. \A j \in 1..nr : Generate!Field(i, 4 + j) = t.reads[j]
    <3> TAKE j \in 1..nr
    <3>1. 4 + j \in 1..L
      BY <1>1, <1>2, <2>3
    <3> QED BY <2>4, <2>5, <3>1
  <2>9. \A j \in 1..nw : Generate!Field(i, 4 + MAX_TXN_OBJS + j) = t.writes[j]
    <3> TAKE j \in 1..nw
    <3>1. 4 + MAX_TXN_OBJS + j \in 1..L
      BY <1>1, <1>2, <2>3
    <3> QED BY <2>4, <2>5, <3>1
  <2>10. [j \in 1..Generate!Field(i, 3) |-> Generate!Field(i, 4 + j)] = t.reads
    BY <2>3, <2>7, <2>8
  <2>11. [j \in 1..Generate!Field(i, 4) |-> Generate!Field(i, 4 + MAX_TXN_OBJS + j)] = t.writes
    BY <2>3, <2>7, <2>9
  <2> QED BY <2>3, <2>7, <2>10, <2>11 DEF t
<1>7. Generate!BinParses
  <2>1. n * L \in Nat
    BY <1>1, <1>2 DEF n
  <2>2. Len(file) >= 5 /\ Len(file) >= 5 + file[3] * L
    BY <1>4, <2>1
  <2>3. ASSUME NEW i \in 1..n, NEW j \in 3..4 PROVE Generate!Field(i, j) <= MAX_TXN_OBJS
    <3>1. j = 3 \/ j = 4
      OBVIOUS
    <3> QED BY <1>1, <1>6, <3>1
  <2> QED BY <1>1, <1>4, <2>2, <2>3 DEF Generate!BinParses, L
<1>8. Generate!parse_workload_bin = [i \in 1..n |-> txns[i]]
  BY <1>4, <1>6 DEF Generate!parse_workload_bin
<1>9. txns = [i \in 1..n |-> txns[i]]
  BY <1>1 DEF n
<1> QED BY <1>7, <1>8, <1>9

LEMMA CutRecordsRefused ==
  ASSUME AllGood, args.mode # "csv", NEW n \in 0..(Len(Written) - 1), file = SubSeq(Written, 1, n)
  PROVE  ~ Generate!BinParses
<1> DEFINE q == Written
           m == args.num_txns
           L == Generate!RecordLen
<1>1. BinFile(q, [i \in DOMAIN txns |-> Generate!BinRecord(txns[i])], m)
  BY RecordsWritten
<1>2. q \in Seq(Int) /\ Len(q) = 5 + m * L /\ q[3] = m
  BY <1>1 DEF BinFile
<1> HIDE DEF q, m, L
<1>3. n \in Nat /\ n < Len(q)
  BY <1>2 DEF q
<1>4. file = [i \in 1..n |-> q[i]]
  <2>1. SubSeq(q, 0 + 1, 0 + n) = [i \in 1..n |-> q[0 + i]]
    BY <1>2, <1>3, Cutting
  <2> QED BY <1>3, <2>1 DEF q
<1>5. Len(file) = n
  BY <1>3, <1>4
<1> SUFFICES ASSUME Generate!BinParses PROVE FALSE
  OBVIOUS
<1>6. Len(file) >= 5 /\ Len(file) >= 5 + file[3] * L
  BY DEF Generate!BinParses, L
<1>7. file[3] = m
  BY <1>2, <1>3, <1>4, <1>5, <1>6
<1> QED BY <1>2, <1>3, <1>5, <1>6, <1>7

-----------------------------------------------------------------------------
\* Every transaction is in the slice of a thread, however the numbers divide.
LEMMA SliceOf ==
  ASSUME NEW n \in Nat, NEW d \in Nat \ {0}, NEW i \in 1..n
  PROVE  \E t \in 0..(d - 1) : (n * t) \div d < i /\ i <= (n * (t + 1)) \div d
<1> DEFINE S == {u \in Nat : i <= (n * u) \div d}
<1>1. \A u \in Nat : n * u \in Nat /\ (n * u) \div d \in Nat
  BY DivMod
<1>2. (n * d) \div d = n
  <2>1. n * d = d * n
    OBVIOUS
  <2> QED BY <2>1, DivExact
<1>3. d \in S
  BY <1>2
<1>4. S \subseteq Nat /\ S # {}
  BY <1>3
<1>5. PICK m \in S : \A u \in S : m <= u
  BY <1>4, LeastOf
<1>6. m \in Nat /\ m <= d /\ i <= (n * m) \div d
  BY <1>3, <1>5
<1>7. m # 0
  <2>1. (n * 0) \div d = 0
    <3>1. n * 0 = d * 0
      OBVIOUS
    <3>2. (d * 0) \div d = 0
      BY 0 \in Nat, DivExact
    <3> QED BY <3>1, <3>2
  <2> QED BY <1>6, <2>1
<1> DEFINE t == m - 1
<1>8. t \in 0..(d - 1) /\ t \in Nat /\ t + 1 = m /\ ~ (m <= t)
  BY <1>6, <1>7
<1>9. t \notin S
  BY <1>5, <1>8
<1> HIDE DEF t
<1>10. ~ (i <= (n * t) \div d) /\ (n * t) \div d \in Nat
  BY <1>1, <1>8, <1>9
<1>11. (n * t) \div d < i
  BY <1>10
<1> QED BY <1>6, <1>8, <1>11

InputRight == \E i \in Inputs : args = i.args /\ cdf = i.cdf

LEMMA InputIs ==
  ASSUME InputRight
  PROVE  /\ MAX_TXN_OBJS \in Nat /\ num_threads \in Nat \ {0} /\ RandMax \in Nat
         /\ args.num_txns \in Nat /\ args.num_objs \in Nat
         /\ args.num_reads \in Nat /\ args.num_writes \in Nat
         /\ Cumulated
<1>1. Generate!WorkloadsAssumption
  BY PartsAssumption
<1> QED BY <1>1 DEF InputRight, Generate!WorkloadsAssumption, Cumulated

\* What the search draws makes a transaction for which there is room.
LEMMA DrawnIs == InputRight => Generate!Drawn \subseteq Int
<1> SUFFICES ASSUME InputRight, NEW r \in 0..RandMax
             PROVE  Generate!sample_zipf(r) \in Int
  BY DEF Generate!Drawn
<1>1. Cumulated /\ r \in Nat
  BY InputIs
<1>2. Generate!sample_zipf(r) \in 0..(Len(cdf) - 1)
  BY <1>1, SearchFinds
<1> QED BY <1>2

LEMMA DrawnFit ==
  ASSUME InputRight, NEW n \in Nat, n <= MAX_TXN_OBJS, NEW s \in [1..n -> Generate!Drawn]
  PROVE  s \in Seq(Int) /\ Len(s) <= MAX_TXN_OBJS
<1>1. s \in [1..n -> Int]
  BY DrawnIs
<1>2. s \in Seq(Int) /\ Len(s) = n
  BY <1>1
<1> QED BY <1>2

LEMMA ContentsFit ==
  ASSUME InputRight, ~ Generate!Refused, NEW c \in Generate!Contents, NEW i \in Int
  PROVE  Good([id |-> i, reads |-> c.reads, writes |-> c.writes], i + 1)
<1> DEFINE m == args.num_objs
<1>1. /\ m \in Nat /\ MAX_TXN_OBJS \in Nat /\ m <= MAX_TXN_OBJS
      /\ args.num_reads \in Nat /\ args.num_writes \in Nat
      /\ args.num_reads + args.num_writes \in {0, m}
  BY InputIs DEF Generate!Refused
<1>2. \E a, b \in Nat : /\ a <= MAX_TXN_OBJS /\ b <= MAX_TXN_OBJS
                        /\ c.reads \in [1..a -> Generate!Drawn]
                        /\ c.writes \in [1..b -> Generate!Drawn]
  <2>1. CASE args.num_reads = 0 /\ args.num_writes = 0
    <3>1. c \in UNION {[reads  : [1..n -> Generate!Drawn],
                        writes : [1..(m - n) -> Generate!Drawn]] : n \in 0..m}
      BY <2>1 DEF Generate!Contents
    <3>2. PICK n \in 0..m : c \in [reads  : [1..n -> Generate!Drawn],
                                   writes : [1..(m - n) -> Generate!Drawn]]
      BY <3>1
    <3>3. n \in Nat /\ m - n \in Nat /\ n <= MAX_TXN_OBJS /\ m - n <= MAX_TXN_OBJS
      BY <1>1
    <3> QED BY <3>2, <3>3
  <2>2. CASE ~ (args.num_reads = 0 /\ args.num_writes = 0)
    <3>1. c \in [reads  : [1..args.num_reads -> Generate!Drawn],
                 writes : [1..args.num_reads -> Generate!Drawn]]
      BY <2>2 DEF Generate!Contents
    <3>2. args.num_reads <= MAX_TXN_OBJS
      BY <1>1, <2>2
    <3> QED BY <1>1, <3>1, <3>2
  <2> QED BY <2>1, <2>2
<1>3. /\ c.reads \in Seq(Int) /\ Len(c.reads) <= MAX_TXN_OBJS
      /\ c.writes \in Seq(Int) /\ Len(c.writes) <= MAX_TXN_OBJS
  BY <1>2, DrawnFit
<1>4. (i + 1) - 1 = i
  OBVIOUS
<1> QED BY <1>3, <1>4 DEF Good, TxnRec

-----------------------------------------------------------------------------
\* No thread leaves its slice, and the transactions that it has passed are good;
\* the file is what was written, or begins it.
TxnsRight ==
  /\ next \in [Generate!Threads -> Nat]
  /\ \A t \in Generate!Threads : next[t] <= Generate!Start(t + 1)
  /\ DOMAIN txns = 1..args.num_txns /\ txns = [i \in DOMAIN txns |-> txns[i]]
  /\ \A t \in Generate!Threads : \A i \in DOMAIN txns :
       Generate!Start(t) < i /\ i <= next[t] => Good(txns[i], i)

FileRight ==
  /\ at \in {"generate", "write", "file", "parsed", "fatal"}
  /\ at \in {"generate", "write"} => whole
  /\ at \in {"write", "file", "parsed"} => AllGood
  /\ at = "file" /\ whole => file = Written
  /\ at = "file" /\ ~ whole =>
       \E n \in 0..(Len(Written) - 1) : CutFrom(Written, n, file)

WorkInv ==
  /\ InputRight /\ TxnsRight /\ FileRight
  /\ Generate!ReadsBack /\ Generate!CutIsNoticed

LEMMA StartGrows ==
  ASSUME InputRight, NEW t \in Nat, NEW u \in Nat, t <= u
  PROVE  /\ Generate!Start(t) \in Nat /\ Generate!Start(u) \in Nat
         /\ Generate!Start(t) <= Generate!Start(u)
<1> DEFINE n == args.num_txns
<1>1. n \in Nat /\ num_threads \in Nat \ {0}
  BY InputIs
<1> HIDE DEF n
<1>2. n * t \in Nat /\ n * u \in Nat /\ n * t <= n * u
  <2>1. u - t \in Nat
    OBVIOUS
  <2>2. n * (u - t) >= 0 /\ n * (u - t) = n * u - n * t
    BY <1>1, <2>1
  <2> QED BY <1>1, <2>2
<1>3. /\ (n * t) \div num_threads <= (n * u) \div num_threads
      /\ (n * t) \div num_threads \in Nat /\ (n * u) \div num_threads \in Nat
  BY <1>1, <1>2, DivGrows
<1> QED BY <1>3 DEF Generate!Start, n

LEMMA StartIs ==
  ASSUME InputRight, NEW t \in Generate!Threads
  PROVE  /\ t \in Nat /\ t + 1 \in Nat
         /\ Generate!Start(t) \in Nat /\ Generate!Start(t + 1) \in Nat
         /\ Generate!Start(t) <= Generate!Start(t + 1)
<1>1. t \in Nat /\ t + 1 \in Nat /\ t <= t + 1
  BY DEF Generate!Threads
<1> QED BY <1>1, StartGrows

LEMMA WorkInit == Generate!Init => WorkInv
<1> SUFFICES ASSUME Generate!Init PROVE WorkInv
  OBVIOUS
<1>1. InputRight /\ at = "generate" /\ whole = TRUE
  BY DEF Generate!Init, InputRight
<1>2. next = [t \in Generate!Threads |-> Generate!Start(t)]
      /\ txns = [i \in 1..args.num_txns |-> Generate!Unset]
  BY DEF Generate!Init
<1>3. \A t \in Generate!Threads :
        Generate!Start(t) \in Nat /\ Generate!Start(t) <= Generate!Start(t + 1)
  BY <1>1, StartIs
<1>4. TxnsRight
  <2>1. /\ next \in [Generate!Threads -> Nat]
        /\ \A t \in Generate!Threads : next[t] <= Generate!Start(t + 1)
    BY <1>2, <1>3
  <2>2. DOMAIN txns = 1..args.num_txns /\ txns = [i \in DOMAIN txns |-> txns[i]]
    BY <1>2
  <2>3. ASSUME NEW t \in Generate!Threads, NEW i \in DOMAIN txns,
               Generate!Start(t) < i, i <= next[t]
        PROVE  FALSE
    <3>1. next[t] = Generate!Start(t) /\ Generate!Start(t) \in Nat /\ i \in Int
      BY <1>2, <1>3, <2>2
    <3> QED BY <2>3, <3>1
  <2> QED BY <2>1, <2>2, <2>3 DEF TxnsRight
<1> QED BY <1>1, <1>4 DEF WorkInv, FileRight, Generate!ReadsBack, Generate!CutIsNoticed

LEMMA WorkerKeeps ==
  ASSUME WorkInv, NEW t \in Generate!Threads, Generate!worker_fn(t)
  PROVE  WorkInv'
<1>1. PICK c \in Generate!Contents :
        txns' = [txns EXCEPT ![next[t] + 1] =
                   [id |-> next[t], reads |-> c.reads, writes |-> c.writes]]
  BY DEF Generate!worker_fn
<1>2. /\ at = "generate" /\ at' = at /\ whole' = whole /\ args' = args /\ cdf' = cdf
      /\ next' = [next EXCEPT ![t] = @ + 1] /\ ~ Generate!Refused
      /\ next[t] < Generate!Start(t + 1)
  BY DEF Generate!worker_fn
<1>3. InputRight /\ InputRight' /\ TxnsRight /\ whole
  BY <1>2 DEF WorkInv, InputRight, FileRight
<1> DEFINE k == next[t] + 1
           new == [id |-> next[t], reads |-> c.reads, writes |-> c.writes]
<1>4. next[t] \in Nat /\ next \in [Generate!Threads -> Nat] /\ DOMAIN txns \subseteq Int
  BY <1>3 DEF TxnsRight
<1>5. k \in Int /\ Good(new, k)
  BY <1>2, <1>3, <1>4, ContentsFit
<1>6. \A i \in DOMAIN txns : txns'[i] = IF i = k THEN new ELSE txns[i]
  BY <1>1
<1>7. DOMAIN txns' = DOMAIN txns /\ txns' = [i \in DOMAIN txns |-> txns'[i]]
  BY <1>1
<1>8. \A u \in Generate!Threads : next'[u] = IF u = t THEN k ELSE next[u]
  BY <1>2, <1>4
<1>9. /\ next' \in [Generate!Threads -> Nat]
      /\ \A u \in Generate!Threads : next'[u] <= Generate!Start(u + 1)
  <2>1. k <= Generate!Start(t + 1)
    BY <1>2, <1>3, <1>4, StartIs
  <2>2. \A u \in Generate!Threads : next[u] <= Generate!Start(u + 1)
    BY <1>3 DEF TxnsRight
  <2> QED BY <1>2, <1>4, <1>8, <2>1, <2>2
<1>10. \A i \in DOMAIN txns : i \in Int
  BY <1>4
<1> HIDE DEF k, new
<1>11. ASSUME NEW u \in Generate!Threads, NEW i \in DOMAIN txns,
              Generate!Start(u) < i, i <= next'[u]
       PROVE  Good(txns'[i], i)
  <2>1. CASE i = k
    BY <1>5, <1>6, <2>1
  <2>2. CASE i # k
    <3>1. i <= next[u]
      <4>1. CASE u = t
        BY <1>4, <1>8, <1>11, <1>10, <2>2, <4>1 DEF k
      <4>2. CASE u # t
        BY <1>8, <1>11, <4>2
      <4> QED BY <4>1, <4>2
    <3>2. txns'[i] = txns[i]
      BY <1>6, <2>2
    <3> QED BY <1>3, <1>11, <3>1, <3>2 DEF TxnsRight
  <2> QED BY <2>1, <2>2
<1>12. TxnsRight'
  <2>1. DOMAIN txns = 1..args.num_txns
    BY <1>3 DEF TxnsRight
  <2> QED BY <1>2, <1>7, <1>9, <1>11, <2>1 DEF TxnsRight, Good, TxnRec, Generate!Threads,
                                               Generate!Start
<1> QED BY <1>2, <1>3, <1>12 DEF WorkInv, FileRight, Generate!ReadsBack,
                                 Generate!CutIsNoticed

\* What main leaves alone once the threads are done.
LEMMA WrittenKept ==
  ASSUME UNCHANGED <<args, txns>>
  PROVE  Written' = Written /\ (AllGood => AllGood')
<1>1. Written' = Written
  BY DEF Written, Generate!CsvLine, Generate!BinHeader, Generate!BinRecord,
         Generate!InRows, Generate!RecordLen, Generate!Padded, Generate!Magic,
         Generate!Version
<1>2. AllGood => AllGood'
  BY DEF AllGood, Good, TxnRec
<1> QED BY <1>1, <1>2

LEMMA MainKept ==
  ASSUME WorkInv, UNCHANGED <<args, cdf, next, txns>>
  PROVE  /\ InputRight' /\ TxnsRight' /\ (Generate!Refused' <=> Generate!Refused)
         /\ Written' = Written /\ (AllGood => AllGood')
<1>1. InputRight /\ TxnsRight
  BY DEF WorkInv
<1>2. InputRight'
  BY <1>1 DEF InputRight
<1>3. TxnsRight'
  BY <1>1 DEF TxnsRight, Good, TxnRec, Generate!Threads, Generate!Start
<1>4. Generate!Refused' <=> Generate!Refused
  BY DEF Generate!Refused
<1> QED BY <1>2, <1>3, <1>4, WrittenKept

LEMMA RefusesKeeps ==
  ASSUME WorkInv, Generate!MainRefuses
  PROVE  WorkInv'
<1>1. /\ UNCHANGED <<args, cdf, next, txns>> /\ at' = "fatal"
      /\ whole' = whole /\ Generate!Refused /\ at = "generate"
  BY DEF Generate!MainRefuses
<1>2. whole
  BY <1>1 DEF WorkInv, FileRight
<1>3. InputRight' /\ TxnsRight' /\ Generate!Refused'
  BY <1>1, MainKept
<1>4. FileRight' /\ Generate!ReadsBack' /\ Generate!CutIsNoticed'
  BY <1>1, <1>2, <1>3 DEF FileRight, Generate!ReadsBack, Generate!CutIsNoticed
<1> QED BY <1>3, <1>4 DEF WorkInv

LEMMA JoinKeeps ==
  ASSUME WorkInv, Generate!JoinWorkers
  PROVE  WorkInv'
<1>1. /\ UNCHANGED <<args, cdf, next, txns>> /\ at' = "write"
      /\ whole' = whole /\ at = "generate"
      /\ \A t \in Generate!Threads : next[t] >= Generate!Start(t + 1)
  BY DEF Generate!JoinWorkers
<1>2. whole /\ InputRight /\ TxnsRight
  BY <1>1 DEF WorkInv, FileRight
<1>3. AllGood
  <2> DEFINE n == args.num_txns
  <2>1. n \in Nat /\ num_threads \in Nat \ {0} /\ MAX_TXN_OBJS \in Nat
    BY <1>2, InputIs
  <2>2. /\ DOMAIN txns = 1..n /\ txns = [i \in DOMAIN txns |-> txns[i]]
        /\ next \in [Generate!Threads -> Nat]
    BY <1>2 DEF TxnsRight
  <2> HIDE DEF n
  <2>3. ASSUME NEW i \in 1..n PROVE Good(txns[i], i)
    <3>1. PICK t \in 0..(num_threads - 1) :
            (n * t) \div num_threads < i /\ i <= (n * (t + 1)) \div num_threads
      BY <2>1, SliceOf
    <3>2. t \in Generate!Threads /\ t \in Nat /\ t + 1 \in Nat
      BY <2>1, <3>1 DEF Generate!Threads
    <3>3. Generate!Start(t) < i /\ i <= Generate!Start(t + 1)
      BY <3>1 DEF Generate!Start, n
    <3>4. next[t] >= Generate!Start(t + 1) /\ next[t] \in Nat
      BY <1>1, <2>2, <3>2
    <3>5. Generate!Start(t + 1) \in Nat /\ Generate!Start(t) \in Nat
      BY <1>2, <3>2, StartIs
    <3>6. i <= next[t]
      BY <3>3, <3>4, <3>5
    <3> QED BY <1>2, <2>2, <3>2, <3>3, <3>6 DEF TxnsRight
  <2> QED BY <2>1, <2>2, <2>3 DEF AllGood, n
<1>4. InputRight' /\ TxnsRight' /\ AllGood'
  BY <1>1, <1>3, MainKept
<1>5. FileRight' /\ Generate!ReadsBack' /\ Generate!CutIsNoticed'
  BY <1>1, <1>2, <1>4 DEF FileRight, Generate!ReadsBack, Generate!CutIsNoticed
<1> QED BY <1>4, <1>5 DEF WorkInv

LEMMA WriteKeeps ==
  ASSUME WorkInv, Generate!WriteFile
  PROVE  WorkInv'
<1>1. /\ UNCHANGED <<args, cdf, next, txns>> /\ at' = "file"
      /\ whole' = whole /\ at = "write" /\ file' = Written
  BY DEF Generate!WriteFile, Written
<1>2. whole /\ AllGood
  BY <1>1 DEF WorkInv, FileRight
<1>3. InputRight' /\ TxnsRight' /\ AllGood' /\ Written' = Written
  BY <1>1, <1>2, MainKept
<1>4. FileRight' /\ Generate!ReadsBack' /\ Generate!CutIsNoticed'
  BY <1>1, <1>2, <1>3 DEF FileRight, Generate!ReadsBack, Generate!CutIsNoticed
<1> QED BY <1>3, <1>4 DEF WorkInv

LEMMA CutKeeps ==
  ASSUME WorkInv, Generate!CutOff
  PROVE  WorkInv'
<1>1. /\ UNCHANGED <<args, cdf, next, txns>> /\ at' = at /\ at = "file"
      /\ whole /\ whole' = FALSE
  BY DEF Generate!CutOff
<1>2. AllGood /\ file = Written
  BY <1>1 DEF WorkInv, FileRight
<1>3. \E n \in 0..(Len(Written) - 1) : CutFrom(Written, n, file')
  BY <1>2 DEF Generate!CutOff, CutFrom
<1>4. InputRight' /\ TxnsRight' /\ AllGood' /\ Written' = Written
  BY <1>1, <1>2, MainKept
<1>5. \E n \in 0..(Len(Written') - 1) : CutFrom(Written, n, file)'
  BY <1>1, <1>3, <1>4 DEF CutFrom
<1>6. FileRight' /\ Generate!ReadsBack' /\ Generate!CutIsNoticed'
  BY <1>1, <1>4, <1>5 DEF FileRight, Generate!ReadsBack, Generate!CutIsNoticed
<1> QED BY <1>4, <1>6 DEF WorkInv

\* What is counted and parsed depends on the file.
LEMMA FileRead ==
  ASSUME UNCHANGED file
  PROVE  Generate!FullLines' = Generate!FullLines /\ Generate!count_lines' = Generate!count_lines
BY DEF Generate!FullLines, Generate!count_lines

LEMMA ReadKeeps ==
  ASSUME WorkInv, Generate!parse_workload
  PROVE  WorkInv'
<1>1. /\ UNCHANGED <<args, cdf, next, txns, file, whole>> /\ at = "file"
      /\ at' \in {"parsed", "fatal"}
  BY DEF Generate!parse_workload
<1>2. /\ AllGood /\ (whole => file = Written)
      /\ ~ whole => \E n \in 0..(Len(Written) - 1) : CutFrom(Written, n, file)
  BY <1>1 DEF WorkInv, FileRight
<1>3. InputRight' /\ TxnsRight' /\ AllGood' /\ (Generate!Refused' <=> Generate!Refused)
  BY <1>1, <1>2, MainKept
<1>4. FileRight'
  BY <1>1, <1>3 DEF FileRight
<1>5. CASE args.mode = "csv"
  <2>1. IF Generate!CsvParses
        THEN workload' = Generate!parse_workload_csv /\ at' = "parsed"
        ELSE at' = "fatal"
    BY <1>5 DEF Generate!parse_workload
  <2>2. CASE whole
    <3>1. Generate!CsvParses /\ Generate!parse_workload_csv = txns
      BY <1>2, <1>5, <2>2, LinesReadBack
    <3> QED BY <1>1, <1>3, <1>4, <2>1, <2>2, <3>1
            DEF WorkInv, Generate!ReadsBack, Generate!CutIsNoticed
  <2>3. CASE ~ whole
    <3>1. PICK n \in 0..(Len(Written) - 1) : CutFrom(Written, n, file)
      BY <1>2, <2>3
    <3>2. Generate!CsvParses =>
            /\ Len(Generate!parse_workload_csv) <= Len(txns)
            /\ Len(Generate!FullLines) <= Generate!count_lines
            /\ \A i \in 1..(Len(Generate!parse_workload_csv) - 1) :
                 Generate!parse_workload_csv[i] = txns[i]
      BY <1>2, <1>5, <3>1, LinesCut
    <3>3. Generate!FullLines' = Generate!FullLines /\ Generate!count_lines' = Generate!count_lines
      BY <1>1, FileRead
    <3> QED BY <1>1, <1>3, <1>4, <1>5, <2>1, <2>3, <3>2, <3>3
            DEF WorkInv, Generate!ReadsBack, Generate!CutIsNoticed
  <2> QED BY <2>2, <2>3
<1>6. CASE args.mode # "csv"
  <2>1. IF Generate!BinParses
        THEN workload' = Generate!parse_workload_bin /\ at' = "parsed"
        ELSE at' = "fatal"
    BY <1>6 DEF Generate!parse_workload
  <2>2. CASE whole
    <3>1. Generate!BinParses /\ Generate!parse_workload_bin = txns
      BY <1>2, <1>6, <2>2, RecordsReadBack
    <3> QED BY <1>1, <1>3, <1>4, <2>1, <2>2, <3>1
            DEF WorkInv, Generate!ReadsBack, Generate!CutIsNoticed
  <2>3. CASE ~ whole
    <3>1. PICK n \in 0..(Len(Written) - 1) : file = SubSeq(Written, 1, n)
      BY <1>2, <1>6, <2>3 DEF CutFrom
    <3>2. ~ Generate!BinParses
      BY <1>2, <1>6, <3>1, CutRecordsRefused
    <3> QED BY <1>1, <1>3, <1>4, <2>1, <2>3, <3>2
            DEF WorkInv, Generate!ReadsBack, Generate!CutIsNoticed
  <2> QED BY <2>2, <2>3
<1> QED BY <1>5, <1>6

LEMMA WorkStays ==
  ASSUME WorkInv, UNCHANGED Generate!vars
  PROVE  WorkInv'
<1>1. UNCHANGED <<args, cdf, at, next, txns, file, whole, workload>>
  BY DEF Generate!vars
<1>2. InputRight' /\ TxnsRight' /\ Written' = Written /\ (AllGood => AllGood')
      /\ (Generate!Refused' <=> Generate!Refused)
  BY <1>1, MainKept
<1>3. FileRight'
  <2>1. FileRight
    BY DEF WorkInv
  <2>2. \A n : CutFrom(Written, n, file) => CutFrom(Written, n, file)'
    BY <1>1, <1>2 DEF CutFrom
  <2> QED BY <1>1, <1>2, <2>1, <2>2 DEF FileRight
<1>4. Generate!ReadsBack' /\ Generate!CutIsNoticed'
  BY <1>1, <1>2, FileRead DEF WorkInv, Generate!ReadsBack, Generate!CutIsNoticed
<1> QED BY <1>2, <1>3, <1>4 DEF WorkInv

LEMMA WorkNext == WorkInv /\ [Generate!Next]_Generate!vars => WorkInv'
<1> SUFFICES ASSUME WorkInv, [Generate!Next]_Generate!vars PROVE WorkInv'
  OBVIOUS
<1>1. CASE Generate!MainRefuses
  BY <1>1, RefusesKeeps
<1>2. CASE \E t \in Generate!Threads : Generate!worker_fn(t)
  BY <1>2, WorkerKeeps
<1>3. CASE Generate!JoinWorkers
  BY <1>3, JoinKeeps
<1>4. CASE Generate!WriteFile
  BY <1>4, WriteKeeps
<1>5. CASE Generate!CutOff
  BY <1>5, CutKeeps
<1>6. CASE Generate!parse_workload
  BY <1>6, ReadKeeps
<1>7. CASE UNCHANGED Generate!vars
  BY <1>7, WorkStays
<1> QED BY <1>1, <1>2, <1>3, <1>4, <1>5, <1>6, <1>7 DEF Generate!Next

LEMMA WorkHolds == WorkInv => Generate!WorkloadsSurvive
<1> SUFFICES ASSUME WorkInv PROVE Generate!WorkloadsSurvive
  OBVIOUS
<1>1. Generate!SlicesCover
  <2>1. ASSUME at \in {"write", "file", "parsed"}
        PROVE  \A i \in DOMAIN txns : txns[i].id = i - 1
    <3>1. AllGood
      BY <2>1 DEF WorkInv, FileRight
    <3> QED BY <3>1 DEF AllGood, Good
  <2>2. ASSUME NEW t \in Generate!Threads, NEW u \in Generate!Threads, t < u
        PROVE  Generate!Touched(t) \cap Generate!Touched(u) = {}
    <3>1. InputRight /\ TxnsRight
      BY DEF WorkInv
    <3>2. t \in Nat /\ u \in Nat /\ t + 1 \in Nat /\ t + 1 <= u
      BY <2>2, <3>1, StartIs
    <3>3. /\ Generate!Start(t + 1) <= Generate!Start(u)
          /\ Generate!Start(t + 1) \in Nat /\ Generate!Start(u) \in Nat
      BY <3>1, <3>2, StartGrows
    <3>4. Generate!Start(t) \in Nat
      BY <3>1, StartIs
    <3>5. next[t] <= Generate!Start(t + 1) /\ next[t] \in Nat /\ next[u] \in Nat
      BY <3>1 DEF TxnsRight
    <3> QED BY <3>3, <3>4, <3>5 DEF Generate!Touched
  <2>3. ASSUME NEW t \in Generate!Threads, NEW u \in Generate!Threads, t # u
        PROVE  Generate!Touched(t) \cap Generate!Touched(u) = {}
    <3>1. t < u \/ u < t
      BY <2>3, StartIs DEF WorkInv
    <3> QED BY <2>2, <3>1
  <2> QED BY <2>1, <2>3 DEF Generate!SlicesCover
<1>2. Generate!SampleIsQuantile
  <2>1. Cumulated
    BY InputIs DEF WorkInv
  <2>2. RandMax \in Nat
    BY InputIs DEF WorkInv
  <2> QED BY <2>1, <2>2, SearchFinds DEF Generate!SampleIsQuantile
<1> QED BY <1>1, <1>2 DEF WorkInv, Generate!WorkloadsSurvive

(***************************************************************************)
(* All parts.  A step of Parts is a step of the part that is running, or   *)
(* leaves its variables alone; so each part keeps its invariant, and the   *)
(* assumptions about its constants are those of Parts.                     *)
(***************************************************************************)
PartsInv ==
  /\ part = "generate"     => WorkInv
  /\ part = "run"          => ClockInv
  /\ part = "analyze"      => ScanInv /\ FigureInv
  /\ part = "hwlog2bin"    => ConvertInv
  /\ part = "st_queue"     => Inv
  /\ part = "visibleFifo"  => ShownInv
  /\ part = "bloom"        => BloomInv
  /\ part = "hasher"       => HashInv
  /\ part = "realExecutor" => WayInv

LEMMA PartsInit == Init => PartsInv
<1> SUFFICES ASSUME Init PROVE PartsInv
  OBVIOUS
<1>0. part = "generate" => WorkInv
  BY WorkInit DEF Init
<1>1. part = "run" => ClockInv
  BY PartsAssumption, ClockInit DEF Init
<1>2. part = "analyze" => ScanInv /\ FigureInv
  BY PartsAssumption, ScanInit, FigureInit DEF Init
<1>3. part = "hwlog2bin" => ConvertInv
  BY PartsAssumption, ConvertInit DEF Init
<1>4. part = "st_queue" => Inv
  BY InitInv DEF Init
<1>5. part = "visibleFifo" => ShownInv
  BY ShownInit DEF Init
<1>6. part = "bloom" => BloomInv
  BY FilterInit DEF Init
<1>7. part = "hasher" => HashInv
  BY HashInit DEF Init
<1>8. part = "realExecutor" => WayInv
  BY WayInit DEF Init
<1> QED BY <1>0, <1>1, <1>2, <1>3, <1>4, <1>5, <1>6, <1>7, <1>8 DEF PartsInv

LEMMA StepOfPart ==
  ASSUME [Next]_vars
  PROVE  /\ part' = part
         /\ part = "generate"     => [Generate!Next]_Generate!vars
         /\ part = "run"          => [Clock!Next]_Clock!vars
         /\ part = "analyze"      => [Analyze!Next]_Analyze!vars
         /\ part = "hwlog2bin"    => [Convert!Next]_Convert!vars
         /\ part = "st_queue"     => [StNext]_stVars
         /\ part = "visibleFifo"  => [Visible!VisibleNext]_(Visible!visibleVars)
         /\ part = "bloom"        => [Filter!Next]_Filter!vars
         /\ part = "hasher"       => [Hasher!Next]_Hasher!vars
         /\ part = "realExecutor" => [Exec!Next]_Exec!vars
<1>1. CASE Next
  BY <1>1 DEF Next, Others
<1>2. CASE UNCHANGED vars
  <2>1. /\ UNCHANGED <<part, at, file, args, next, active, inside>>
        /\ UNCHANGED <<workloadVars, clockVars, analysisVars, hwLogVars>>
        /\ UNCHANGED <<ringVars, queueVars, bloomVars, hasherVars, executorVars>>
    BY <1>2 DEF vars, programVars
  <2>2. UNCHANGED Clock!vars /\ UNCHANGED Analyze!vars /\ UNCHANGED Convert!vars
    BY <2>1 DEF Clock!vars, Clock!clientVars, Clock!puppetVars, Clock!mainVars,
                Analyze!vars, Analyze!scanVars, Convert!vars, clockVars, analysisVars, hwLogVars
  <2>3. UNCHANGED stVars /\ UNCHANGED Visible!visibleVars
    BY <2>1 DEF stVars, Visible!visibleVars, ringVars, queueVars
  <2>4. UNCHANGED Filter!vars /\ UNCHANGED Hasher!vars /\ UNCHANGED Exec!vars
    BY <2>1 DEF Filter!vars, Hasher!vars, Exec!vars, bloomVars, hasherVars,
                executorVars
  <2>5. UNCHANGED Generate!vars
    BY <2>1 DEF Generate!vars, workloadVars
  <2> QED BY <2>1, <2>2, <2>3, <2>4, <2>5
<1> QED BY <1>1, <1>2

LEMMA PartsNext == PartsInv /\ [Next]_vars => PartsInv'
<1> SUFFICES ASSUME PartsInv, [Next]_vars PROVE PartsInv'
  OBVIOUS
<1>1. part' = part
  BY StepOfPart
<1>2. part = "run" => ClockInv'
  BY PartsAssumption, StepOfPart, ClockNext DEF PartsInv
<1>3. part = "analyze" => ScanInv' /\ FigureInv'
  BY PartsAssumption, StepOfPart, ScanNext, FigureNext DEF PartsInv
<1>4. part = "hwlog2bin" => ConvertInv'
  BY PartsAssumption, StepOfPart, ConvertNext DEF PartsInv
<1>5. part = "st_queue" => Inv'
  BY StepOfPart, NextInv DEF PartsInv
<1>6. part = "visibleFifo" => ShownInv'
  BY StepOfPart, ShownNext DEF PartsInv
<1>7. part = "bloom" => BloomInv'
  BY PartsAssumption, StepOfPart, FilterNext DEF PartsInv
<1>8. part = "hasher" => HashInv'
  BY StepOfPart, HashNext DEF PartsInv
<1>9. part = "realExecutor" => WayInv'
  BY StepOfPart, WayNext DEF PartsInv
<1>10. part = "generate" => WorkInv'
  BY StepOfPart, WorkNext DEF PartsInv
<1> QED BY <1>1, <1>2, <1>3, <1>4, <1>5, <1>6, <1>7, <1>8, <1>9,
           <1>10 DEF PartsInv

\* Whichever part runs, it keeps its inductive invariant.
THEOREM PartsInvariant == Spec => []PartsInv
BY PartsInit, PartsNext, PTL DEF Spec

\* Of the generator: no transaction is left out or shared, the search finds the
\* quantile, and both formats are read back as written or noticed as cut off.
THEOREM WorkloadsAreKept == Spec => []WorkloadsSurvive
<1>1. PartsInv => WorkloadsSurvive
  BY WorkHolds DEF PartsInv, WorkloadsSurvive
<1> QED BY <1>1, PartsInvariant, PTL

\* Of the runner: no run is refused, given up or called a success without a
\* reason, and none outlasts its timeout.
THEOREM VerdictsAreRight == Spec => []VerdictIsRight
<1>1. PartsInv => VerdictIsRight
  BY PartsAssumption, VerdictsHold DEF PartsInv, VerdictIsRight
<1> QED BY <1>1, PartsInvariant, PTL

\* Of the analyzer: its list holds what is running and fits, conflicts are
\* reported only if conflicting transactions met, and what is passed over has a
\* transaction that found no place in the list.
THEOREM ScanIsRight == Spec => []ScanFindsWhatFits
<1>1. PartsInv => ScanFindsWhatFits
  BY PartsAssumption, ScanHolds DEF PartsInv, ScanFindsWhatFits
<1> QED BY <1>1, PartsInvariant, PTL

\* And of its figures: they agree, count what comes before the end of their last
\* window once, and are read where they were written, for every log and any
\* numbers of windows and buckets; the rates if the times fit an int.
THEOREM FiguresFitTogether == Spec => []FiguresAgree
<1>1. PartsInv => FiguresAgree
  BY PartsAssumption, FiguresHold DEF PartsInv, FiguresAgree
<1> QED BY <1>1, PartsInvariant, PTL

\* Of the converter: the buffer is large enough, and the converted log shows
\* each printed event once, in order, moved away from time 0.
THEOREM ConversionIsRight == Spec => []ConversionKeeps
<1>1. PartsInv => ConversionKeeps
  BY PartsAssumption, ConversionFits DEF PartsInv, ConversionKeeps
<1> QED BY <1>1, PartsInvariant, PTL

\* Of both walks over the active transactions of a puppet, the software's by
\* the raw indices of a ring and the hardware's by peek: they see exactly what
\* is queued.
THEOREM WalksAreRight == Spec => []WalksSeeAll
<1>1. PartsInv => WalksSeeAll
  BY WalkFollows, ShownIsRight DEF PartsInv, WalksSeeAll
<1> QED BY <1>1, PartsInvariant, PTL

\* Of both hashes in front of a filter: the software's finds what was inserted,
\* and the hardware's tells any two objects apart, although its chunk index only
\* repeats bits of the bit index.
THEOREM HashesAreRight == Spec => []HashesAreSound
<1>1. PartsInv => HashesAreSound
  BY PartsAssumption, FilterHolds, HashesHold DEF PartsInv, HashesAreSound
<1> QED BY <1>1, PartsInvariant, PTL

\* Of the real executor: whatever the order in which the host answers, no id is
\* lost or doubled on its way, for any number of puppets and of workers.
THEOREM ReportsAreComplete == Spec => []EachReportedOnce
<1>1. PartsInv => EachReportedOnce
  BY ReportsHold DEF PartsInv, EachReportedOnce
<1> QED BY <1>1, PartsInvariant, PTL
=============================================================================
