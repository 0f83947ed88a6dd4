----------------------------- MODULE TxnHasher -----------------------------
(***************************************************************************)
(* mkTxnHasher of new-pmhw/src/TxnHasher.bsv: the objects of a transaction *)
(* are replaced by their locations in the parts of the Bloom filter, which *)
(* are cut from a Fibonacci hash.                                          *)
(***************************************************************************)
EXTENDS Integers, Sequences

CONSTANTS
  ObjectBits,             \* ObjectId is Bit#(ObjectBits)
  NumBloomParts, LogBloomChunks, LogBloomChunkSize,
  Golden                  \* trunc(2^NBits / (1 + sqrt 5) * 2)

\* The bits of an object fit into the bit indices.  In the source there are 32
\* bits, 4 parts, and logarithms of 2 and 8.
HasherAssumption ==
  /\ ObjectBits \in Nat /\ NumBloomParts \in Nat \ {0}
  /\ LogBloomChunks \in Nat /\ LogBloomChunkSize \in Nat /\ Golden \in Nat
  /\ ObjectBits <= NumBloomParts * LogBloomChunkSize

NBits == NumBloomParts * (LogBloomChunks + LogBloomChunkSize)

ObjectId == 0..(2^ObjectBits - 1)
Parts == 0..(NumBloomParts - 1)

VARIABLES
  in, out,      \* a bypass and a pipeline FIFO of one place
  object        \* history: whose location is in out

vars == <<in, out, object>>

\* Faulty variant: as it comes.
fibConstant_AsIs == Golden

\* "Make it odd"
fibConstant == IF Golden % 2 = 0 THEN Golden + 1 ELSE Golden

fullHash(obj) == (obj * fibConstant) % 2^NBits
BitOf(h, k) == (h \div 2^k) % 2

\* The bits of h from first on, one of each part's: a Bit#(n).
Every(h, first, n) ==
  [j \in 1..n |-> BitOf(h, (j - 1) * NumBloomParts + first)]

bitIdx(h, i) == Every(h, i, LogBloomChunkSize)

\* From where the source cuts it: bits that bitIdx has as well.
chunkIdx(h, i) == Every(h, i + LogBloomChunkSize, LogBloomChunks)

hashObject(obj) ==
  LET h == fullHash(obj)
  IN [i \in Parts |-> <<chunkIdx(h, i), bitIdx(h, i)>>]

Hashes == [obj \in ObjectId |-> hashObject(obj)]

Init == in = <<>> /\ out = <<>> /\ object = <<>>

request_put(obj) ==
  /\ in = <<>> /\ in' = <<obj>>
  /\ UNCHANGED <<out, object>>

doHash ==
  /\ in # <<>> /\ out = <<>>
  /\ out' = <<Hashes[Head(in)]>>
  /\ object' = in /\ in' = <<>>

response_get ==
  /\ out # <<>> /\ out' = <<>>
  /\ object' = <<>> /\ UNCHANGED in

Next == (\E obj \in ObjectId : request_put(obj)) \/ doHash \/ response_get
Spec == Init /\ [][Next]_vars

-----------------------------------------------------------------------------
(***************************************************************************)
(* The bit indices alone tell any two objects apart: the factor is odd, so *)
(* the product is a bijection of its low bits, and the parts divide up     *)
(* just these among them.  So a single object that was added is never      *)
(* taken for another; false conflicts come from several objects.  Nothing  *)
(* is claimed of the chunk indices: NBits counts bits for them, above the  *)
(* bit indices, but the source cuts them from the bit indices' own.        *)
(***************************************************************************)
DistinctObjectsDiffer ==
  out # <<>> =>
    \A obj \in ObjectId \ {object[1]} : Hashes[obj] # out[1]
=============================================================================
