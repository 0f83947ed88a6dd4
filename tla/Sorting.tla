------------------------------ MODULE Sorting -------------------------------
(***************************************************************************)
(* qsort of the events of a log by time, as in pmlog.c and hwlog2bin.c.    *)
(* Equal times stay in their order, as with the merge sort of the C        *)
(* library; the standard leaves it open.                                   *)
(***************************************************************************)
EXTENDS Integers, Sequences, FiniteSets

\* compare_events
Before(s, i, j) ==
  \/ s[i].tsc < s[j].tsc
  \/ s[i].tsc = s[j].tsc /\ i <= j

\* The place of s[i] in the end.
Rank(s, i) == Cardinality({j \in DOMAIN s : Before(s, j, i)})

SortedByTsc(s) ==
  [k \in DOMAIN s |-> s[CHOOSE i \in DOMAIN s : Rank(s, i) = k]]
=============================================================================
