-------------------------------- MODULE Ring --------------------------------
(***************************************************************************)
(* Index arithmetic of the ring buffers of spsc_queue.h and st_queue.h.    *)
(* The code masks with capacity - 1, and _init asserts that capacity is a  *)
(* power of two, so masking is the remainder.                              *)
(***************************************************************************)
EXTENDS Integers, Sequences

CONSTANTS Items, capacity

ASSUME RingAssumption == capacity \in Nat /\ capacity >= 2

Slots == 0..(capacity - 1)

\* Faulty variant: not masked.
Succ_NoMask(i) == i + 1

Succ(i) == (i + 1) % capacity

\* Faulty variant: capacity is not added, so a wrapped ring is negative.
Length_NoWrap(head, tail) == tail - head

Length(head, tail) == (tail - head + capacity) % capacity

Slot(head, k) == (head + k - 1) % capacity

\* What is between the two indices, oldest first.
Content(head, tail, buffer) ==
  [k \in 1..Length(head, tail) |-> buffer[Slot(head, k)]]
=============================================================================
