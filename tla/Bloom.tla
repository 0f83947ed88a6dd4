------------------------------- MODULE Bloom -------------------------------
(***************************************************************************)
(* The software Bloom filter of wrapper/include/bloom.h, with words of     *)
(* WordBits bits and multiplications modulo HashModulus.                   *)
(***************************************************************************)
EXTENDS Integers, FiniteSets

CONSTANTS
  Objids,
  BLOOM_TOTAL_BITS, BLOOM_NUM_HASHES, WordBits,
  HashModulus,        \* 2^64
  HashShift,          \* 2^46
  hash_constants      \* one for each hash function

\* bloom.h insists on more: that the words of each hash function are full.
BloomAssumption ==
  /\ Objids \subseteq Nat
  /\ BLOOM_TOTAL_BITS \in Nat /\ BLOOM_NUM_HASHES \in 1..BLOOM_TOTAL_BITS
  /\ WordBits \in Nat \ {0} /\ BLOOM_TOTAL_BITS % WordBits = 0
  /\ HashModulus \in Nat \ {0} /\ HashShift \in Nat \ {0}
  /\ \A i \in 0..(BLOOM_NUM_HASHES - 1) : hash_constants[i] \in Nat

Idx == 0..(BLOOM_NUM_HASHES - 1)
PartBits == BLOOM_TOTAL_BITS \div BLOOM_NUM_HASHES
Words == 0..(BLOOM_TOTAL_BITS \div WordBits - 1)

VARIABLES
  bits,         \* bits[w]: the positions that are set in word w
  inserted      \* history: what was inserted

vars == <<bits, inserted>>

bloom_hash(x, idx) ==
  (((x * hash_constants[idx]) % HashModulus) \div HashShift) % PartBits

bloom_init == bits = [w \in Words |-> {}]

Positions(x) == {bloom_hash(x, i) : i \in Idx}

\* Faulty variant: a shift of an int, half as wide as a word.
Bit_Narrow(bitpos) == bitpos % (WordBits \div 2)

Bit(bitpos) == bitpos % WordBits

bloom_insert(x) ==
  /\ bits' = [w \in Words |->
                bits[w] \cup {Bit(p) : p \in {q \in Positions(x) :
                                                q \div WordBits = w}}]
  /\ inserted' = inserted \cup {x}

bloom_query(x) ==
  \A p \in Positions(x) : p % WordBits \in bits[p \div WordBits]

Init == bloom_init /\ inserted = {}
Next == \E x \in Objids : bloom_insert(x)
Spec == Init /\ [][Next]_vars

-----------------------------------------------------------------------------
(***************************************************************************)
(* "could be false positive" (bloom.h:67), but never a false negative,     *)
(* whatever is inserted after an object.                                   *)
(***************************************************************************)
NoFalseNegative == \A x \in inserted : bloom_query(x)
=============================================================================
