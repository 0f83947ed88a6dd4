------------------------------ MODULE StQueue -------------------------------
(***************************************************************************)
(* wrapper/include/st_queue.h: the same ring, used by one thread only, so  *)
(* an operation is one step.  arg is what _enq was last called with, item  *)
(* what was last read, result the answer.                                  *)
(***************************************************************************)
EXTENDS Ring

VARIABLES head, tail, buffer, arg, item, result

stVars == <<head, tail, buffer, arg, item, result>>

StInit ==
  /\ head = 0 /\ tail = 0
  /\ buffer \in [Slots -> Items]
  /\ arg \in Items /\ item \in Items /\ result = FALSE

enq(i) ==
  /\ result' = (Succ(tail) # head)
  /\ IF result'
     THEN buffer' = [buffer EXCEPT ![tail] = i] /\ tail' = Succ(tail)
     ELSE UNCHANGED <<buffer, tail>>
  /\ arg' = i
  /\ UNCHANGED <<head, item>>

peek ==
  /\ result' = (head # tail)
  /\ item' = IF result' THEN buffer[head] ELSE item
  /\ UNCHANGED <<head, tail, buffer, arg>>

deq ==
  /\ result' = (head # tail)
  /\ item' = IF result' THEN buffer[head] ELSE item
  /\ head' = IF result' THEN Succ(head) ELSE head
  /\ UNCHANGED <<tail, buffer, arg>>

full(h, t)  == Succ(t) = h
empty(h, t) == h = t

StNext == peek \/ deq \/ \E i \in Items : enq(i)

StSpec == StInit /\ [][StNext]_stVars

-----------------------------------------------------------------------------
\* The walk of conflicts_with_active (pmhw_sim.c:39-45): from head, one slot
\* at a time, until tail.
Walk(h, t) ==
  LET after[n \in 0..capacity] == IF n = 0 THEN h ELSE Succ(after[n - 1])
      stop == CHOOSE n \in 0..capacity :
                after[n] = t /\ \A k \in 0..(n - 1) : after[k] # t
  IN  [k \in 1..stop |-> buffer[after[k - 1]]]

(***************************************************************************)
(* The walk by which the scheduler compares a new transaction with a       *)
(* puppet's active ones sees exactly the items in the queue, oldest first, *)
(* wherever in the ring they lie; and _length, _full and _empty tell the   *)
(* truth about them.                                                       *)
(***************************************************************************)
WalkSeesAll ==
  /\ Walk(head, tail) = Content(head, tail, buffer)
  /\ Length(head, tail) = Len(Walk(head, tail))
  /\ full(head, tail) <=> Length(head, tail) = capacity - 1
  /\ empty(head, tail) <=> Length(head, tail) = 0

(***************************************************************************)
(* The ring is a queue; a refused operation is a stuttering step.          *)
(***************************************************************************)
Fifo == INSTANCE BoundedFifo
          WITH Places  <- capacity - 1,
               content <- Content(head, tail, buffer),
               offered <- arg,
               out     <- item

FifoSpec == Fifo!FifoSpec
=============================================================================
