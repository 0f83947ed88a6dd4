---------------------------- MODULE VisibleFifo -----------------------------
(***************************************************************************)
(* mkVisibleFIFOF of new-pmhw/src/VisibleFIFOF.bsv, which holds the active *)
(* transactions of a puppet.  A step is a clock cycle.  The indices are as *)
(* wide as a power of two needs, which fifo_depth + 1 has to be, so they   *)
(* wrap at capacity by themselves.                                         *)
(***************************************************************************)
EXTENDS Ring

VARIABLES head, tail, buffer,
          inside            \* history: the items inside, oldest first

visibleVars == <<head, tail, buffer, inside>>

VisibleInit ==
  /\ head = 0 /\ tail = 0
  /\ buffer \in [Slots -> Items]
  /\ inside = <<>>

\* Faulty variant: the difference is not negated again.
computeCount_Positive ==
  IF tail >= head THEN tail - head ELSE head - tail

\* In the width of the indices.
computeCount ==
  IF tail >= head THEN tail - head ELSE (capacity - (head - tail)) % capacity

notFull  == Succ(tail) # head
notEmpty == head # tail
peek(idx) == buffer[(head + idx) % capacity]

\* Faulty variant: the slot is given up after head has moved on.
canonicalize_ClearsNext(enq, deq) ==
  /\ head' = IF deq THEN Succ(head) ELSE head
  /\ tail' = IF enq # <<>> THEN Succ(tail) ELSE tail
  /\ \E unknown \in Items :
       LET cleared == IF deq THEN [buffer EXCEPT ![head'] = unknown] ELSE buffer
       IN  buffer' = IF enq = <<>> THEN cleared
                                   ELSE [cleared EXCEPT ![tail] = Head(enq)]

\* The rule canonicalize, at the end of a cycle: enq is the wire do_enq, a
\* sequence of at most one item, and deq is do_deq.
canonicalize(enq, deq) ==
  /\ head' = IF deq THEN Succ(head) ELSE head
  /\ tail' = IF enq # <<>> THEN Succ(tail) ELSE tail
  /\ \E unknown \in Items :
       LET cleared == IF deq THEN [buffer EXCEPT ![head] = unknown] ELSE buffer
       IN  buffer' = IF enq = <<>> THEN cleared
                                   ELSE [cleared EXCEPT ![tail] = Head(enq)]

\* A cycle in which the methods enq and deq are called or not.
Cycle(enq, deq) ==
  /\ enq # <<>> => notFull
  /\ deq => notEmpty
  /\ canonicalize(enq, deq)
  /\ inside' = (IF deq THEN Tail(inside) ELSE inside) \o enq

VisibleNext ==
  \E enq \in {<<>>} \cup {<<i>> : i \in Items}, deq \in BOOLEAN : Cycle(enq, deq)

VisibleSpec == VisibleInit /\ [][VisibleNext]_visibleVars

-----------------------------------------------------------------------------
(***************************************************************************)
(* The methods that look inside tell the truth, wherever in the ring the   *)
(* items lie and whatever enq and deq did to it in the same cycle: count   *)
(* is the number of items, peek shows each of them, oldest first (first is *)
(* peek(0)), and notFull and notEmpty are right.                           *)
(***************************************************************************)
ShowsInside ==
  /\ computeCount = Len(inside)
  /\ \A k \in 1..Len(inside) : peek(k - 1) = inside[k]
  /\ notFull <=> Len(inside) < capacity - 1
  /\ notEmpty <=> inside # <<>>
=============================================================================
