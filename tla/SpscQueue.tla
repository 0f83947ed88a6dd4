----------------------------- MODULE SpscQueue ------------------------------
(***************************************************************************)
(* wrapper/include/spsc_queue.h: a queue for one producer and one consumer *)
(* thread.  Each access to memory that the other thread touches is a step  *)
(* of its own; the acquire and release of head and tail make these steps   *)
(* appear in program order.  A thread's loads of its own index are its     *)
(* private business.                                                       *)
(***************************************************************************)
EXTENDS Ring

VARIABLES head, tail, buffer,
          prodPc,     \* "idle"; inside _enq: "write", "store"
          prodItem,   \* the argument of _enq
          consPc,     \* "idle"; inside _deq or _peek: "read"; "store"
          consOp,     \* "deq", "peek"
          consItem    \* *item of _deq and _peek

prodVars  == <<tail, buffer, prodPc, prodItem>>
consVars  == <<head, consPc, consOp, consItem>>
queueVars == <<prodVars, consVars>>

\* malloc leaves the slots, and the callers *item, with any contents.
QueueInit ==
  /\ head = 0 /\ tail = 0
  /\ buffer \in [Slots -> Items]
  /\ prodPc = "idle" /\ prodItem \in Items
  /\ consPc = "idle" /\ consOp = "deq" /\ consItem \in Items

-----------------------------------------------------------------------------
\* Faulty variant: next_tail is not masked.
Full_NoMask(h, t) == t + 1 = h

\* What _full answers, and what _enq tests.
Full(h, t) == Succ(t) = h

EnqFull ==
  /\ prodPc = "idle"
  /\ Full(head, tail)
  /\ UNCHANGED queueVars

EnqLoad(item) ==
  /\ prodPc = "idle"
  /\ ~ Full(head, tail)
  /\ prodItem' = item
  /\ prodPc' = "write"
  /\ UNCHANGED <<tail, buffer, consVars>>

\* Faulty variant: the slot after tail is written.
EnqWrite_NextSlot ==
  /\ prodPc = "write"
  /\ buffer' = [buffer EXCEPT ![Succ(tail)] = prodItem]
  /\ prodPc' = "store"
  /\ UNCHANGED <<tail, prodItem, consVars>>

EnqWrite ==
  /\ prodPc = "write"
  /\ buffer' = [buffer EXCEPT ![tail] = prodItem]
  /\ prodPc' = "store"
  /\ UNCHANGED <<tail, prodItem, consVars>>

EnqStore ==
  /\ prodPc = "store"
  /\ tail' = Succ(tail)
  /\ prodPc' = "idle"
  /\ UNCHANGED <<buffer, prodItem, consVars>>

-----------------------------------------------------------------------------
DeqEmpty(op) ==
  /\ consPc = "idle"
  /\ head = tail
  /\ consOp' = op
  /\ UNCHANGED <<head, consPc, consItem, prodVars>>

\* Faulty variant: the test for emptiness is left out.
DeqLoad_Untested(op) ==
  /\ consPc = "idle"
  /\ consOp' = op
  /\ consPc' = "read"
  /\ UNCHANGED <<head, consItem, prodVars>>

DeqLoad(op) ==
  /\ consPc = "idle"
  /\ head # tail
  /\ consOp' = op
  /\ consPc' = "read"
  /\ UNCHANGED <<head, consItem, prodVars>>

DeqRead ==
  /\ consPc = "read"
  /\ consItem' = buffer[head]
  /\ consPc' = IF consOp = "deq" THEN "store" ELSE "idle"
  /\ UNCHANGED <<head, consOp, prodVars>>

DeqStore ==
  /\ consPc = "store"
  /\ head' = Succ(head)
  /\ consPc' = "idle"
  /\ UNCHANGED <<consOp, consItem, prodVars>>

QueueNext ==
  \/ EnqFull \/ EnqWrite \/ EnqStore
  \/ \E item \in Items : EnqLoad(item)
  \/ \E op \in {"deq", "peek"} : DeqEmpty(op) \/ DeqLoad(op)
  \/ DeqRead \/ DeqStore

QueueSpec == QueueInit /\ [][QueueNext]_queueVars

-----------------------------------------------------------------------------
TypeOK ==
  /\ head \in Slots /\ tail \in Slots
  /\ buffer \in [Slots -> Items]
  /\ prodPc \in {"idle", "write", "store"} /\ prodItem \in Items
  /\ consPc \in {"idle", "read", "store"} /\ consItem \in Items
  /\ consOp \in {"deq", "peek"}

(***************************************************************************)
(* The producer never writes the slot that the consumer is reading         *)
(* (spsc_queue.h:52 and 83): a plain, not an atomic, access on both sides, *)
(* so this would be a data race.                                           *)
(***************************************************************************)
NoDataRace == prodPc = "write" /\ consPc = "read" => head # tail

(***************************************************************************)
(* The answer an operation has already got stays good until it ends,       *)
(* whatever the other thread does meanwhile: there is still room for the   *)
(* item that is being written, the item being read is still the oldest,    *)
(* and the slot last written is what will be published.                    *)
(***************************************************************************)
AnswersStayGood ==
  /\ prodPc # "idle" => ~ Full(head, tail)
  /\ consPc # "idle" => head # tail
  /\ prodPc = "store" => buffer[tail] = prodItem
  /\ consPc = "store" => consOp = "deq" /\ consItem = buffer[head]

(***************************************************************************)
(* The ring is a queue: seen through what lies between head and tail,      *)
(* publishing tail is a Put, reading the slot a Peek, publishing head a    *)
(* Get, and every other step changes nothing.                              *)
(***************************************************************************)
Fifo == INSTANCE BoundedFifo
          WITH Places  <- capacity - 1,
               content <- Content(head, tail, buffer),
               offered <- prodItem,
               out     <- consItem

FifoSpec == Fifo!FifoSpec
=============================================================================
