----------------------------- MODULE LogAnalysis ----------------------------
(***************************************************************************)
(* runner/src/analyze.c: from a log file to the checks and the figures of  *)
(* the report.  One step per phase of main, and one per turn of the loops  *)
(* of the conflict scan.  Times are cycles; what is derived from cpu_freq  *)
(* is left out.  Arrays are numbered from 0 there, sequences from 1 here.  *)
(***************************************************************************)
EXTENDS Transactions, SequencesExt, FiniteSetsExt

CONSTANTS num_puppets,               \* argv[3]
          num_buckets, num_throughput_windows,
          Word, IntWord,             \* 2^64 and 2^32, scaled down
          Logs                       \* bound: the files that are analyzed

\* Times are words of 64 bits, the number of windows is an int.
AnalysisAssumption ==
  /\ NumTxns \in Nat /\ num_puppets \in Nat /\ Word \in Nat \ {0}
  /\ num_buckets \in Nat \ {0} /\ IntWord \in Nat
  /\ num_throughput_windows \in 1..((IntWord \div 2) - 1)
  /\ \A l \in Logs : \A e \in l : e.tsc \in 0..(Word - 1)

Stages == <<"submit", "sched", "work", "done", "cleanup">>

\* The latencies: from which stage to which.
Spans == <<<<1, 4>>, <<1, 2>>, <<2, 3>>, <<3, 4>>, <<4, 5>>>>

VARIABLES
  log,        \* a set of events [txn, kind, tsc]; a file has them by tsc
  at,         \* "read", "sort", "sweep", "compare", "windows", "latencies",
              \* "write", "exited", "crashed"
  tl,         \* tl[t][k]: when t was at stage k, 0 if missing
  sched,      \* the scheduled transactions, sorted
  idx, w,     \* positions in sched and in active
  active,     \* active_ids
  conflicts,
  windows,    \* windows[k][i]: events of stage k in window i
  hist,       \* hist[l][i]: latencies of span l in bucket i
  file        \* analyzed.bin

scanVars == <<sched, idx, w, active, conflicts>>
vars == <<log, at, tl, scanVars, windows, hist, file>>

Init ==
  /\ log \in Logs
  /\ at = "read"
  /\ tl = [t \in Txns |-> [k \in 1..5 |-> 0]]
  /\ sched = <<>> /\ idx = 1 /\ w = 1 /\ active = <<>> /\ conflicts = 0
  /\ windows = <<>> /\ hist = <<>> /\ file = <<>>

-----------------------------------------------------------------------------
\* A later event of a kind replaces an earlier one.  pmlog_read asserts that
\* there are any.
ReadLog ==
  /\ at = "read"
  /\ tl' = [t \in Txns |-> [k \in 1..5 |->
              Max({0} \cup {e.tsc : e \in
                     {x \in log : x.txn = t /\ x.kind = Stages[k]}})]]
  /\ at' = IF log = {} THEN "crashed" ELSE "sort"
  /\ UNCHANGED <<log, scanVars, windows, hist, file>>

complete_txns == {t \in Txns : \A k \in 1..5 : tl[t][k] # 0}
ordered_txns  ==
  {t \in complete_txns : \A k \in 1..4 : tl[t][k] <= tl[t][k + 1]}

first_submit == Min({Word - 1} \cup {tl[t][1] : t \in complete_txns})
last_done    == Max({0} \cup {tl[t][4] : t \in complete_txns})

-----------------------------------------------------------------------------
(* Conflict checks                                                         *)

Interesting(t) ==
  /\ tl[t][2] # 0 /\ tl[t][4] # 0
  /\ tl[t][1] <= tl[t][2] /\ tl[t][2] <= tl[t][4]

\* Faulty variant: the transactions stay in the order of the workload.
SortSched_Unsorted ==
  /\ at = "sort"
  /\ sched' = SetToSortSeq({t \in Txns : Interesting(t)}, <)
  /\ at' = IF sched' = <<>> THEN "windows" ELSE "sweep"
  /\ UNCHANGED <<log, tl, idx, w, active, conflicts, windows, hist, file>>

\* qsort is not stable: equal times come in any order.
SortSched ==
  /\ at = "sort"
  /\ \E s \in SetToSeqs({t \in Txns : Interesting(t)}) :
       /\ \A i, j \in 1..Len(s) : i < j => tl[s[i]][2] <= tl[s[j]][2]
       /\ sched' = s
       /\ at' = IF s = <<>> THEN "windows" ELSE "sweep"
  /\ UNCHANGED <<log, tl, idx, w, active, conflicts, windows, hist, file>>

Finished(t) == tl[t][4] <= tl[sched[idx]][2]

\* Faulty variant: the entry that takes the place of a removed one is skipped.
Sweep_Skips ==
  /\ at = "sweep"
  /\ IF w > Len(active) THEN w' = 1 /\ at' = "compare" /\ UNCHANGED active
     ELSE /\ w' = w + 1
          /\ active' = IF Finished(active[w])
                       THEN Front([active EXCEPT ![w] = Last(active)])
                       ELSE active
          /\ UNCHANGED at
  /\ UNCHANGED <<log, tl, sched, idx, conflicts, windows, hist, file>>

\* A finished transaction's place is taken by the last of the list.
Sweep ==
  /\ at = "sweep"
  /\ IF w > Len(active) THEN w' = 1 /\ at' = "compare" /\ UNCHANGED active
     ELSE /\ IF Finished(active[w])
             THEN /\ active' = Front([active EXCEPT ![w] = Last(active)])
                  /\ w' = w
             ELSE w' = w + 1 /\ UNCHANGED active
          /\ UNCHANGED at
  /\ UNCHANGED <<log, tl, sched, idx, conflicts, windows, hist, file>>

Compare ==
  /\ at = "compare"
  /\ conflicts' = conflicts +
       IF \E i \in 1..Len(active) : check_txn_conflict(sched[idx], active[i])
       THEN 1 ELSE 0
  /\ active' = IF Len(active) < num_puppets
               THEN Append(active, sched[idx]) ELSE active
  /\ idx' = idx + 1
  /\ at' = IF idx = Len(sched) THEN "windows" ELSE "sweep"
  /\ UNCHANGED <<log, tl, sched, w, windows, hist, file>>

-----------------------------------------------------------------------------
(* Throughput                                                              *)

window_cycles ==
  ((last_done - first_submit) % Word) \div num_throughput_windows

\* Unsigned: what is before the first submission wraps.
Quotient(t, k) == ((tl[t][k] - first_submit) % Word) \div window_cycles

\* The conversion to int keeps the low half of the bits.
AsInt(q) ==
  IF q % IntWord < IntWord \div 2 THEN q % IntWord ELSE (q % IntWord) - IntWord

\* Faulty variant: the first window is left out by the bounds check.
WindowOf_PastZero(t, k) ==
  LET i == AsInt(Quotient(t, k)) IN IF i > 0 THEN i ELSE num_throughput_windows

WindowOf(t, k) == AsInt(Quotient(t, k))

\* The division by zero ends the program.
CountWindows ==
  /\ at = "windows"
  /\ IF complete_txns # {} /\ window_cycles = 0
     THEN at' = "crashed" /\ UNCHANGED windows
     ELSE /\ windows' = [k \in 1..5 |-> [i \in 1..num_throughput_windows |->
                Cardinality({t \in complete_txns : WindowOf(t, k) = i - 1})]]
          /\ at' = "latencies"
  /\ UNCHANGED <<log, tl, scanVars, hist, file>>

-----------------------------------------------------------------------------
(* Latencies.  The warm-up, cool-down and outlier fractions are 0, so all  *)
(* between first_submit and last_done counts, and lower_idx and upper_idx  *)
(* are the ends of the sorted arrays.                                      *)

\* Faulty variant: the test for order is left out.
Measured_Complete ==
  {t \in complete_txns : tl[t][1] >= first_submit /\ tl[t][4] <= last_done}

Measured ==
  {t \in ordered_txns : tl[t][1] >= first_submit /\ tl[t][4] <= last_done}

Span(t, l) == tl[t][Spans[l][2]] - tl[t][Spans[l][1]]

\* Faulty variant: the largest value is not put into the last bucket.
BucketOf_Unclamped(v, min, max) == ((v - min) * num_buckets) \div (max - min)

BucketOf(v, min, max) ==
  LET bucket == ((v - min) * num_buckets) \div (max - min)
  IN  IF bucket >= num_buckets THEN num_buckets - 1 ELSE bucket

\* With one value the width is 0, and the conversion of 0/0 to int is undefined
\* before it is clamped.  With none, min and max come from before the arrays,
\* and nothing is counted.
Histogram(l, undefined) ==
  LET of  == {Span(t, l) : t \in Measured}
      min == Min(of)
      max == Max(of)
      bucket(t) == IF min = max THEN undefined
                                ELSE BucketOf(Span(t, l), min, max)
  IN  [i \in 1..num_buckets |->
         Cardinality({t \in Measured : bucket(t) = i - 1})]

CountLatencies ==
  /\ at = "latencies"
  /\ \E undefined \in 0..(num_buckets - 1) :
       hist' = [l \in 1..5 |-> Histogram(l, undefined)]
  /\ at' = "write"
  /\ UNCHANGED <<log, tl, scanVars, windows, file>>

-----------------------------------------------------------------------------
(* analyzed.bin, of which the numbers without a unit are kept, and its     *)
(* reader, read_binary_output of scripts/visualize.py.                     *)

\* Five series, one after the other.
InTurn(s) == s[1] \o s[2] \o s[3] \o s[4] \o s[5]

Header == <<NumTxns, Cardinality(complete_txns), Cardinality(Measured),
            num_buckets, num_puppets, num_throughput_windows>>

\* Faulty variant: the two series that concern the puppet change places.
WriteReport_Swapped ==
  /\ at = "write"
  /\ file' = Header \o windows[1] \o windows[2] \o windows[4] \o windows[3]
               \o windows[5] \o InTurn(hist)
  /\ at' = "exited"
  /\ UNCHANGED <<log, tl, scanVars, windows, hist>>

WriteReport ==
  /\ at = "write"
  /\ file' = Header \o InTurn(windows) \o InTurn(hist)
  /\ at' = "exited"
  /\ UNCHANGED <<log, tl, scanVars, windows, hist>>

read_binary_output ==
  LET n_buckets == file[4]
      n_windows == file[6]
      Series(from, n) == SubSeq(file, from + 1, from + n)
  IN  [throughput |->
         [k \in 1..5 |-> Series(6 + (k - 1) * n_windows, n_windows)],
       histogram  |->
         [l \in 1..5 |-> Series(6 + 5 * n_windows + (l - 1) * n_buckets,
                                n_buckets)]]

-----------------------------------------------------------------------------
Next == \/ ReadLog \/ SortSched \/ Sweep \/ Compare
        \/ CountWindows \/ CountLatencies \/ WriteReport

Spec == Init /\ [][Next]_vars /\ WF_vars(Next)

-----------------------------------------------------------------------------
\* Those before the i-th that are not done when it is scheduled.
Running(i) == {j \in 1..(i - 1) : tl[sched[j]][4] > tl[sched[i]][2]}

\* Fewer of them than there are places in the list.
Fits(i) == Cardinality(Running(i)) < num_puppets

(***************************************************************************)
(* When a transaction is compared (analyze.c:253), the list that is kept   *)
(* by swapping and cutting holds transactions scheduled before it and not  *)
(* done by then, each once.  Missing are at most those that were scheduled *)
(* while as many as there are puppets were under way: the list is cut off  *)
(* there (analyze.c:272), though it has room for all that may be scheduled *)
(* (analyze.c:234).                                                        *)
(***************************************************************************)
ActiveIsRunning ==
  at = "compare" =>
    /\ Cardinality(ToSet(active)) = Len(active)
    /\ ToSet(active) \subseteq {sched[j] : j \in Running(idx)}
    /\ \A j \in Running(idx) : Fits(j) => sched[j] \in ToSet(active)

Overlap(s, t) == tl[s][2] < tl[t][4] /\ tl[t][2] < tl[s][4]

ScanDone == at \in {"windows", "latencies", "write", "exited"}

(***************************************************************************)
(* The verdict at the end of the scan (analyze.c:276-280).  A conflict is  *)
(* reported only if two conflicting transactions met.  It is passed over   *)
(* only if the earlier of the two was scheduled while as many as there are *)
(* puppets were under way.                                                 *)
(***************************************************************************)
NoConflictMissed ==
  ScanDone /\ conflicts = 0 =>
    \A i, j \in DOMAIN sched :
      i < j /\ Overlap(sched[i], sched[j]) /\ Fits(i) =>
        ~ check_txn_conflict(sched[i], sched[j])

NoFalseAlarm ==
  ScanDone /\ conflicts > 0 =>
    \E s, t \in ToSet(sched) :
      /\ s # t /\ check_txn_conflict(s, t)
      /\ tl[s][2] <= tl[t][2] /\ tl[t][2] < tl[s][4]

ScanFindsWhatFits == ActiveIsRunning /\ NoConflictMissed /\ NoFalseAlarm

(***************************************************************************)
(* What the program prints when it has found no conflict: "No conflicting  *)
(* pairs of scheduled transactions." (analyze.c:279).                      *)
(***************************************************************************)
SaysNoneOnlyIfNone ==
  ScanDone /\ conflicts = 0 =>
    \A s, t \in ToSet(sched) :
      s # t /\ Overlap(s, t) => ~ check_txn_conflict(s, t)

\* The first n numbers of f together.
SumTo(f, n) ==
  LET upTo[i \in 0..n] == IF i = 0 THEN 0 ELSE upTo[i - 1] + f[i]
  IN  upTo[n]

UpTo(k, i) == SumTo(windows[k], i)

\* No stage is before the first submission or 2^31 windows after it.
TimesFit ==
  \A t \in complete_txns, k \in 1..5 :
    /\ first_submit <= tl[t][k]
    /\ tl[t][k] < first_submit + window_cycles * (IntWord \div 2)

(***************************************************************************)
(* Each stage is counted once for each complete transaction that is there  *)
(* before the last window ends (analyze.c:310-328).  The windows' size is  *)
(* rounded down, so that they end with the last completion or before it:   *)
(* this one is in no window, though analyze.c:297 speaks of all complete   *)
(* transactions, nor is what else comes at their end or later.             *)
(***************************************************************************)
WindowsCountUpToEnd ==
  windows # <<>> /\ TimesFit =>
    \A k \in 1..5 :
      UpTo(k, num_throughput_windows) =
        Cardinality({t \in complete_txns :
          tl[t][k] < first_submit + window_cycles * num_throughput_windows})

(***************************************************************************)
(* The series of the throughput figure can be laid over each other: if no  *)
(* transaction is out of order, then up to any window no stage has seen    *)
(* more transactions than the one before it (analyze.c:307-328).           *)
(***************************************************************************)
PipelineOrder ==
  windows # <<>> /\ TimesFit /\ ordered_txns = complete_txns =>
    \A i \in 1..num_throughput_windows, k \in 1..4 :
      UpTo(k, i) >= UpTo(k + 1, i)

(***************************************************************************)
(* Every transaction that is complete and in order is measured, none of    *)
(* its latencies is negative, and they add up to the one from end to end   *)
(* (analyze.c:366-398).                                                    *)
(***************************************************************************)
LatenciesAddUp ==
  at = "latencies" =>
    /\ Measured = ordered_txns
    /\ \A t \in Measured : /\ \A l \in 1..5 : Span(t, l) >= 0
                           /\ Span(t, 1) = Span(t, 2) + Span(t, 3) + Span(t, 4)

(***************************************************************************)
(* Each histogram counts every measured transaction once, and those of the *)
(* least and the greatest latency are in the outermost buckets             *)
(* (analyze.c:88-110).                                                     *)
(***************************************************************************)
HistogramsAreFull ==
  hist # <<>> => \A l \in 1..5 :
    /\ SumTo(hist[l], num_buckets) = Cardinality(Measured)
    /\ Cardinality({Span(t, l) : t \in Measured}) > 1 =>
         hist[l][1] > 0 /\ hist[l][num_buckets] > 0

(***************************************************************************)
(* The plotting script finds each series where analyze.c has put it        *)
(* (analyze.c:498-577, visualize.py:65-131).                               *)
(***************************************************************************)
ReportReadsBack ==
  at = "exited" =>
    read_binary_output = [throughput |-> windows, histogram |-> hist]

(***************************************************************************)
(* What is drawn can be believed, but for what lies at the end of the last *)
(* window or after it: the figures agree with each other, count once what  *)
(* they count, and reach the plotting script (analyze.c:284-577).          *)
(***************************************************************************)
FiguresAgree ==
  /\ WindowsCountUpToEnd /\ PipelineOrder
  /\ LatenciesAddUp /\ HistogramsAreFull /\ ReportReadsBack
=============================================================================
