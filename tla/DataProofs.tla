----------------------------- MODULE DataProofs -----------------------------
(***************************************************************************)
(* Lemmas for several components: the least number of a set and induction  *)
(* by it; sorting by time; what the index arithmetic of Ring computes, for *)
(* every capacity, and what moving an index or writing a slot does to the  *)
(* content.                                                                *)
(***************************************************************************)
EXTENDS Ring, Sorting, FiniteSetTheorems, FunctionTheorems,
        WellFoundedInduction, TLAPS

(***************************************************************************)
(* A set of natural numbers has a least one.                               *)
(***************************************************************************)
LEMMA LeastOf ==
  ASSUME NEW T, T \subseteq Nat, T # {}
  PROVE  \E m \in T : \A n \in T : m <= n
<1> DEFINE R == {ss \in Nat \X Nat : ss[1] < ss[2]}
<1>1. IsWellFoundedOn(R, Nat)
  BY NatLessThanWellFounded DEF OpToRel
<1>2. \A n, m \in Nat : n < m => <<n, m>> \in R
  OBVIOUS
<1> HIDE DEF R
<1>3. \E m \in T : \A n \in T : ~ (<<n, m>> \in R)
  BY <1>1, WFMin
<1>4. PICK m \in T : \A n \in T : ~ (<<n, m>> \in R)
  BY <1>3
<1>5. \A n \in T : m <= n
  <2> SUFFICES ASSUME NEW n \in T PROVE m <= n
    OBVIOUS
  <2>1. ~ (<<n, m>> \in R)
    BY <1>4
  <2>2. n \in Nat /\ m \in Nat
    OBVIOUS
  <2>3. ~ (n < m)
    BY <1>2, <2>1, <2>2
  <2> QED BY <2>2, <2>3
<1> QED BY <1>5

\* Induction, by the least number outside of a set.
LEMMA ByInduction ==
  ASSUME NEW S, 0 \in S, \A n \in Nat : n \in S => n + 1 \in S
  PROVE  \A n \in Nat : n \in S
<1> SUFFICES ASSUME NEW x \in Nat, x \notin S PROVE FALSE
  OBVIOUS
<1> DEFINE T == {n \in Nat : n \notin S}
<1>1. PICK m \in T : \A n \in T : m <= n
  <2>1. T \subseteq Nat /\ T # {}
    OBVIOUS
  <2> HIDE DEF T
  <2> QED BY <2>1, LeastOf
<1>2. m # 0 /\ m \in Nat /\ m \notin S
  OBVIOUS
<1>3. m - 1 \in Nat /\ m - 1 \in S
  BY <1>1, <1>2
<1>4. m - 1 + 1 \in S
  BY <1>3
<1> QED BY <1>2, <1>4

-----------------------------------------------------------------------------
(* Sorting by time, whatever the records.                                  *)

\* What is sorted: records with a time.
Timed(s, n) == DOMAIN s = 1..n /\ \A i \in 1..n : s[i].tsc \in Int

AtOrBefore(s, i) == {j \in DOMAIN s : Before(s, j, i)}

LEMMA BeforeIsLinear ==
  ASSUME NEW n \in Nat, NEW s, Timed(s, n),
         NEW i \in 1..n, NEW j \in 1..n, NEW k \in 1..n
  PROVE  /\ Before(s, i, i)
         /\ Before(s, i, j) \/ Before(s, j, i)
         /\ Before(s, i, j) /\ Before(s, j, i) => i = j
         /\ Before(s, i, j) /\ Before(s, j, k) => Before(s, i, k)
<1>1. s[i].tsc \in Int /\ s[j].tsc \in Int /\ s[k].tsc \in Int
  BY DEF Timed
<1> QED BY <1>1 DEF Before

LEMMA RanksAreLess ==
  ASSUME NEW n \in Nat, NEW s, Timed(s, n),
         NEW i \in 1..n, NEW j \in 1..n, Before(s, i, j), i # j
  PROVE  Rank(s, i) < Rank(s, j)
<1>0. IsFiniteSet(1..n)
  BY FS_Interval
<1>1. IsFiniteSet(1..n) /\ DOMAIN s = 1..n
  BY <1>0 DEF Timed
<1>2. AtOrBefore(s, i) \subseteq AtOrBefore(s, j)
  BY <1>1, BeforeIsLinear DEF AtOrBefore
<1>3. j \in AtOrBefore(s, j) /\ j \notin AtOrBefore(s, i)
  BY <1>1, BeforeIsLinear DEF AtOrBefore
<1>4. AtOrBefore(s, j) \subseteq 1..n
  BY <1>1 DEF AtOrBefore
<1>5. IsFiniteSet(AtOrBefore(s, j)) /\ IsFiniteSet(AtOrBefore(s, i))
  BY <1>1, <1>2, <1>4, FS_Subset
<1>6. /\ Cardinality(AtOrBefore(s, i)) <= Cardinality(AtOrBefore(s, j))
      /\ Cardinality(AtOrBefore(s, i)) # Cardinality(AtOrBefore(s, j))
  BY <1>2, <1>3, <1>5, FS_Subset
<1>7. /\ Cardinality(AtOrBefore(s, i)) \in Nat /\ Cardinality(AtOrBefore(s, j)) \in Nat
  BY <1>5, FS_CardinalityType
<1> QED BY <1>6, <1>7 DEF Rank, AtOrBefore

\* Every place from 1 to n is taken by exactly one record.
LEMMA RanksArePlaces ==
  ASSUME NEW n \in Nat, NEW s, Timed(s, n)
  PROVE  /\ \A i \in 1..n : Rank(s, i) \in 1..n
         /\ \A i, j \in 1..n : Rank(s, i) = Rank(s, j) => i = j
         /\ \A k \in 1..n : \E i \in 1..n : Rank(s, i) = k
<1>0. IsFiniteSet(1..n) /\ Cardinality(1..n) = n
  BY FS_Interval
<1>1. IsFiniteSet(1..n) /\ Cardinality(1..n) = n /\ DOMAIN s = 1..n
  BY <1>0 DEF Timed
<1>2. ASSUME NEW i \in 1..n PROVE Rank(s, i) \in 1..n
  <2>1. AtOrBefore(s, i) \subseteq 1..n /\ i \in AtOrBefore(s, i)
    BY <1>1, BeforeIsLinear DEF AtOrBefore
  <2>2. /\ IsFiniteSet(AtOrBefore(s, i))
        /\ Cardinality(AtOrBefore(s, i)) <= n
        /\ Cardinality(AtOrBefore(s, i)) \in Nat
        /\ Cardinality(AtOrBefore(s, i)) # 0
    BY <1>1, <2>1, FS_Subset, FS_CardinalityType, FS_EmptySet
  <2> QED BY <2>2 DEF Rank, AtOrBefore
<1>3. ASSUME NEW i \in 1..n, NEW j \in 1..n, Rank(s, i) = Rank(s, j) PROVE i = j
  <2>1. /\ Rank(s, i) \in Nat /\ Rank(s, j) \in Nat
        /\ Before(s, i, j) \/ Before(s, j, i)
    BY <1>2, BeforeIsLinear
  <2>2. CASE Before(s, i, j)
    BY <1>3, <2>1, <2>2, RanksAreLess
  <2>3. CASE Before(s, j, i)
    BY <1>3, <2>1, <2>3, RanksAreLess
  <2> QED BY <2>1, <2>2, <2>3
<1>4. ASSUME NEW k \in 1..n PROVE \E i \in 1..n : Rank(s, i) = k
  <2> DEFINE rank == [i \in 1..n |-> Rank(s, i)]
  <2>1. rank \in Injection(1..n, 1..n)
    BY <1>2, <1>3 DEF Injection, IsInjective
  <2>2. rank \in Surjection(1..n, 1..n)
    BY <1>1, <2>1, FS_Injection
  <2>3. \E i \in 1..n : rank[i] = k
    BY <2>2 DEF Surjection
  <2> QED BY <2>3
<1> QED BY <1>2, <1>3, <1>4

\* The same records in another order.
Permuted(u, s, n) ==
  \E from \in [1..n -> 1..n] :
    /\ \A k \in 1..n : u[k] = s[from[k]]
    /\ \A k, l \in 1..n : from[k] = from[l] => k = l
    /\ \A i \in 1..n : \E k \in 1..n : from[k] = i

\* Sorting moves every record to a place of its own, in the order of time.
LEMMA SortingPermutes ==
  ASSUME NEW n \in Nat, NEW s, Timed(s, n)
  PROVE  /\ DOMAIN SortedByTsc(s) = 1..n
         /\ \A i, j \in 1..n : i <= j => SortedByTsc(s)[i].tsc <= SortedByTsc(s)[j].tsc
         /\ Permuted(SortedByTsc(s), s, n)
<1> DEFINE u    == SortedByTsc(s)
           from == [k \in 1..n |-> CHOOSE i \in 1..n : Rank(s, i) = k]
<1>1. DOMAIN s = 1..n
  BY DEF Timed
<1>2. DOMAIN u = 1..n
  BY <1>1 DEF SortedByTsc
<1>3. \A k \in 1..n : from[k] \in 1..n /\ Rank(s, from[k]) = k /\ u[k] = s[from[k]]
  BY <1>1, RanksArePlaces DEF SortedByTsc
<1>4. from \in [1..n -> 1..n]
  BY <1>3
<1>5. \A i \in 1..n : Rank(s, i) \in 1..n /\ from[Rank(s, i)] = i
  BY <1>3, RanksArePlaces
<1> HIDE DEF u, from
<1>6. ASSUME NEW i \in 1..n, NEW j \in 1..n, i <= j PROVE u[i].tsc <= u[j].tsc
  <2>1. from[i] \in 1..n /\ from[j] \in 1..n
    BY <1>3
  <2>2. Before(s, from[i], from[j])
    <3>1. CASE from[i] = from[j]
      BY <2>1, <3>1, BeforeIsLinear
    <3>2. CASE from[i] # from[j] /\ Before(s, from[j], from[i])
      <4>1. Rank(s, from[j]) < Rank(s, from[i])
        BY <2>1, <3>2, RanksAreLess
      <4> QED BY <1>3, <1>6, <4>1
    <3> QED BY <2>1, <3>1, <3>2, BeforeIsLinear
  <2>3. s[from[i]].tsc \in Int /\ s[from[j]].tsc \in Int
    BY <2>1 DEF Timed
  <2> QED BY <1>3, <2>2, <2>3 DEF Before
<1>7. /\ \A k \in 1..n : u[k] = s[from[k]]
      /\ \A k, l \in 1..n : from[k] = from[l] => k = l
      /\ \A i \in 1..n : \E k \in 1..n : from[k] = i
  BY <1>3, <1>5
<1>8. Permuted(u, s, n)
  BY <1>4, <1>7 DEF Permuted
<1> QED BY <1>2, <1>6, <1>8 DEF u

\* What is in order already is left alone.
LEMMA SortingTwice ==
  ASSUME NEW n \in Nat, NEW s, Timed(s, n), s = [k \in 1..n |-> s[k]],
         \A i, j \in 1..n : i <= j => s[i].tsc <= s[j].tsc
  PROVE  SortedByTsc(s) = s
<1>1. DOMAIN s = 1..n
  BY DEF Timed
<1>2. ASSUME NEW i \in 1..n PROVE Rank(s, i) = i
  <2>1. AtOrBefore(s, i) = 1..i
    <3>1. ASSUME NEW j \in 1..n PROVE Before(s, j, i) <=> j <= i
      <4>1. s[i].tsc \in Int /\ s[j].tsc \in Int
        BY DEF Timed
      <4> QED BY <4>1 DEF Before
    <3> QED BY <1>1, <3>1 DEF AtOrBefore
  <2>2. Cardinality(1..i) = i
    BY FS_Interval
  <2> QED BY <2>1, <2>2 DEF Rank, AtOrBefore
<1>3. ASSUME NEW k \in 1..n PROVE SortedByTsc(s)[k] = s[k]
  <2>1. (CHOOSE i \in 1..n : Rank(s, i) = k) = k
    BY <1>2
  <2> QED BY <1>1, <2>1 DEF SortedByTsc
<1>4. SortedByTsc(s) = [k \in 1..n |-> SortedByTsc(s)[k]]
  BY <1>1 DEF SortedByTsc
<1> QED BY <1>3, <1>4

-----------------------------------------------------------------------------
(* Rings. *)


(***************************************************************************)
(* Masking an index that has run past the end at most once.                *)
(***************************************************************************)
LEMMA ModSmall ==
  ASSUME NEW n \in Nat \ {0}, NEW x \in 0..(n - 1)
  PROVE  x % n = x
  BY SMT

LEMMA ModWrap ==
  ASSUME NEW n \in Nat \ {0}, NEW x \in n..(2 * n - 1)
  PROVE  x % n = x - n
  BY SMT

(***************************************************************************)
(* Sequences are equal when their elements are.                            *)
(***************************************************************************)
LEMMA SeqEq ==
  ASSUME NEW S, NEW s \in Seq(S), NEW u \in Seq(S), Len(s) = Len(u),
         \A k \in 1..Len(s) : s[k] = u[k]
  PROVE  s = u
  BY SMT

(***************************************************************************)
(* The operators of Ring without the remainder.                            *)
(***************************************************************************)
LEMMA SuccIs ==
  ASSUME NEW i \in Slots
  PROVE  /\ Succ(i) \in Slots
         /\ Succ(i) = IF i = capacity - 1 THEN 0 ELSE i + 1
<1>. USE RingAssumption DEF Slots, Succ
<1>1. CASE i = capacity - 1
  BY <1>1, ModWrap
<1>2. CASE i # capacity - 1
  BY <1>2, ModSmall
<1>. QED
  BY <1>1, <1>2

LEMMA LengthIs ==
  ASSUME NEW h \in Slots, NEW t \in Slots
  PROVE  /\ Length(h, t) \in Slots
         /\ Length(h, t) = IF t >= h THEN t - h ELSE t - h + capacity
<1>. USE RingAssumption DEF Slots, Length
<1>1. CASE t >= h
  BY <1>1, ModWrap
<1>2. CASE ~ (t >= h)
  BY <1>2, ModSmall
<1>. QED
  BY <1>1, <1>2

LEMMA SlotIs ==
  ASSUME NEW h \in Slots, NEW k \in 1..capacity
  PROVE  /\ Slot(h, k) \in Slots
         /\ Slot(h, k) = IF h + k - 1 < capacity THEN h + k - 1
                                                 ELSE h + k - 1 - capacity
<1>. USE RingAssumption DEF Slots, Slot
<1>1. CASE h + k - 1 < capacity
  BY <1>1, ModSmall
<1>2. CASE ~ (h + k - 1 < capacity)
  <2>1. h + k - 1 \in capacity..(2 * capacity - 1)
    BY <1>2
  <2>. QED
    BY <1>2, <2>1, ModWrap
<1>. QED
  BY <1>1, <1>2

(***************************************************************************)
(* The length is a number, and grows and shrinks with the indices.         *)
(***************************************************************************)
LEMMA LengthNat ==
  ASSUME NEW h \in Slots, NEW t \in Slots
  PROVE  /\ Length(h, t) \in Nat /\ Length(h, t) < capacity
         /\ \A k \in 1..Length(h, t) :
              /\ k \in 1..capacity
              /\ Slot(h, k) \in Slots /\ Slot(h, k) # t
<1>1. Length(h, t) \in Slots
      /\ Length(h, t) = IF t >= h THEN t - h ELSE t - h + capacity
  BY LengthIs
<1>2. Length(h, t) \in Nat /\ Length(h, t) < capacity
  BY <1>1, RingAssumption DEF Slots
<1>3. ASSUME NEW k \in 1..Length(h, t)
      PROVE  k \in 1..capacity /\ Slot(h, k) \in Slots /\ Slot(h, k) # t
  <2>1. k \in 1..capacity
    BY <1>2, RingAssumption
  <2>2. /\ Slot(h, k) \in Slots
        /\ Slot(h, k) = IF h + k - 1 < capacity THEN h + k - 1
                                                ELSE h + k - 1 - capacity
    BY <2>1, SlotIs
  <2>. QED
    BY <1>1, <2>1, <2>2, RingAssumption DEF Slots
<1>. QED
  BY <1>2, <1>3

LEMMA LengthPut ==
  ASSUME NEW h \in Slots, NEW t \in Slots, Succ(t) # h
  PROVE  /\ Length(h, t) < capacity - 1
         /\ Length(h, Succ(t)) = Length(h, t) + 1
         /\ Slot(h, Length(h, t) + 1) = t
<1>1. Succ(t) \in Slots /\ Succ(t) = IF t = capacity - 1 THEN 0 ELSE t + 1
  BY SuccIs
<1>2. Length(h, t) = IF t >= h THEN t - h ELSE t - h + capacity
  BY LengthIs
<1>3. Length(h, Succ(t)) = IF Succ(t) >= h THEN Succ(t) - h
                                           ELSE Succ(t) - h + capacity
  BY <1>1, LengthIs
<1>4. Length(h, t) + 1 \in 1..capacity
  BY LengthNat, RingAssumption
<1>5. Slot(h, Length(h, t) + 1) =
        IF h + (Length(h, t) + 1) - 1 < capacity
        THEN h + (Length(h, t) + 1) - 1
        ELSE h + (Length(h, t) + 1) - 1 - capacity
  BY <1>4, SlotIs
<1>. QED
  BY <1>1, <1>2, <1>3, <1>5, RingAssumption DEF Slots

LEMMA LengthGet ==
  ASSUME NEW h \in Slots, NEW t \in Slots, h # t
  PROVE  /\ Length(h, t) > 0
         /\ Length(Succ(h), t) = Length(h, t) - 1
         /\ Slot(h, 1) = h
         /\ \A k \in 1..(Length(h, t) - 1) : Slot(Succ(h), k) = Slot(h, k + 1)
<1>1. Succ(h) \in Slots /\ Succ(h) = IF h = capacity - 1 THEN 0 ELSE h + 1
  BY SuccIs
<1>2. Length(h, t) = IF t >= h THEN t - h ELSE t - h + capacity
  BY LengthIs
<1>3. Length(Succ(h), t) = IF t >= Succ(h) THEN t - Succ(h)
                                           ELSE t - Succ(h) + capacity
  BY <1>1, LengthIs
<1>4. Length(h, t) > 0 /\ Length(Succ(h), t) = Length(h, t) - 1
  BY <1>1, <1>2, <1>3, RingAssumption DEF Slots
<1>5. 1 \in 1..capacity
  BY RingAssumption
<1>6. Slot(h, 1) = IF h + 1 - 1 < capacity THEN h + 1 - 1
                                           ELSE h + 1 - 1 - capacity
  BY <1>5, SlotIs
<1>7. Slot(h, 1) = h
  BY <1>6, RingAssumption DEF Slots
<1>8. ASSUME NEW k \in 1..(Length(h, t) - 1)
      PROVE  Slot(Succ(h), k) = Slot(h, k + 1)
  <2>1. k \in 1..capacity /\ k + 1 \in 1..capacity
    BY LengthNat, RingAssumption
  <2>2. Slot(Succ(h), k) = IF Succ(h) + k - 1 < capacity
                           THEN Succ(h) + k - 1
                           ELSE Succ(h) + k - 1 - capacity
    BY <1>1, <2>1, SlotIs
  <2>3. Slot(h, k + 1) = IF h + (k + 1) - 1 < capacity
                         THEN h + (k + 1) - 1
                         ELSE h + (k + 1) - 1 - capacity
    BY <2>1, SlotIs
  <2>. QED
    BY <1>1, <2>1, <2>2, <2>3, RingAssumption DEF Slots
<1>. QED
  BY <1>4, <1>7, <1>8

(***************************************************************************)
(* What lies between the indices, as a sequence.                           *)
(***************************************************************************)
LEMMA ContentSeq ==
  ASSUME NEW h \in Slots, NEW t \in Slots, NEW b \in [Slots -> Items]
  PROVE  /\ Content(h, t, b) \in Seq(Items)
         /\ Len(Content(h, t, b)) = Length(h, t)
         /\ \A k \in 1..Length(h, t) : Content(h, t, b)[k] = b[Slot(h, k)]
<1>1. Length(h, t) \in Nat
  BY LengthNat
<1>2. \A k \in 1..Length(h, t) : b[Slot(h, k)] \in Items
  BY LengthNat
<1>. QED
  BY <1>1, <1>2 DEF Content

(***************************************************************************)
(* Publishing tail appends the slot it pointed at.                         *)
(***************************************************************************)
LEMMA ContentPut ==
  ASSUME NEW h \in Slots, NEW t \in Slots, NEW b \in [Slots -> Items],
         Succ(t) # h
  PROVE  /\ Len(Content(h, t, b)) < capacity - 1
         /\ Content(h, Succ(t), b) = Append(Content(h, t, b), b[t])
<1>. DEFINE n == Length(h, t)
<1>1. n \in Nat /\ n < capacity - 1 /\ Length(h, Succ(t)) = n + 1
  BY LengthNat, LengthPut
<1>2. Slot(h, n + 1) = t
  BY LengthPut
<1>3. Succ(t) \in Slots
  BY SuccIs
<1>4. Content(h, t, b) \in Seq(Items) /\ Len(Content(h, t, b)) = n
  BY ContentSeq
<1>5. b[t] \in Items
  OBVIOUS
<1>6. Content(h, Succ(t), b) \in Seq(Items)
      /\ Len(Content(h, Succ(t), b)) = n + 1
  BY <1>1, <1>3, ContentSeq
<1>7. ASSUME NEW k \in 1..(n + 1)
      PROVE  Content(h, Succ(t), b)[k] = Append(Content(h, t, b), b[t])[k]
  <2>1. Content(h, Succ(t), b)[k] = b[Slot(h, k)]
    BY ZenonT(30), <1>1, <1>3, ContentSeq
  <2>2. CASE k = n + 1
    BY <1>2, <1>4, <2>1, <2>2
  <2>3. CASE k # n + 1
    <3>1. k \in 1..n
      BY <1>1, <2>3
    <3>2. Content(h, t, b)[k] = b[Slot(h, k)]
      BY <3>1, ContentSeq
    <3>. QED
      BY <1>1, <1>4, <2>1, <3>1, <3>2
  <2>. QED
    BY <2>2, <2>3
<1>8. Append(Content(h, t, b), b[t]) \in Seq(Items)
      /\ Len(Append(Content(h, t, b), b[t])) = n + 1
  BY <1>4, <1>5
<1>. QED
  BY <1>1, <1>4, <1>6, <1>7, <1>8, SeqEq

(***************************************************************************)
(* A slot outside is no part of the content.                               *)
(***************************************************************************)
LEMMA ContentWrite ==
  ASSUME NEW h \in Slots, NEW t \in Slots, NEW b \in [Slots -> Items],
         NEW x \in Items
  PROVE  Content(h, t, [b EXCEPT ![t] = x]) = Content(h, t, b)
<1>1. \A k \in 1..Length(h, t) : Slot(h, k) # t /\ Slot(h, k) \in Slots
  BY LengthNat
<1>. QED
  BY <1>1 DEF Content

(***************************************************************************)
(* Publishing head takes off the slot it pointed at.                       *)
(***************************************************************************)
LEMMA ContentGet ==
  ASSUME NEW h \in Slots, NEW t \in Slots, NEW b \in [Slots -> Items],
         h # t
  PROVE  /\ Content(h, t, b) # <<>>
         /\ Head(Content(h, t, b)) = b[h]
         /\ Content(Succ(h), t, b) = Tail(Content(h, t, b))
<1>. DEFINE n == Length(h, t)
            c == Content(h, t, b)
            d == Content(Succ(h), t, b)
<1>1. n \in Nat /\ n > 0 /\ n < capacity /\ Length(Succ(h), t) = n - 1
  BY LengthNat, LengthGet
<1>2. Succ(h) \in Slots
  BY SuccIs
<1>3. Slot(h, 1) = h
  BY LengthGet
<1>4. c \in Seq(Items) /\ Len(c) = n /\ c[1] = b[h]
  BY <1>1, <1>3, ContentSeq
<1>5. d \in Seq(Items) /\ Len(d) = n - 1
  BY <1>1, <1>2, ContentSeq
<1>6. ASSUME NEW k \in 1..(n - 1) PROVE d[k] = Tail(c)[k]
  <2>1. Slot(Succ(h), k) = Slot(h, k + 1)
    BY LengthGet
  <2>2. d[k] = b[Slot(Succ(h), k)]
    BY ZenonT(30), <1>1, <1>2, ContentSeq
  <2>3. k + 1 \in 1..n
    BY <1>1
  <2>4. c[k + 1] = b[Slot(h, k + 1)]
    BY <2>3, ContentSeq
  <2>. QED
    BY <1>1, <1>4, <2>1, <2>2, <2>3, <2>4
<1>7. Tail(c) \in Seq(Items) /\ Len(Tail(c)) = n - 1
  BY <1>1, <1>4
<1>. QED
  BY <1>1, <1>4, <1>5, <1>6, <1>7, SeqEq
=============================================================================
