------------------------------ MODULE Workloads -----------------------------
(***************************************************************************)
(* runner/src/generate.c writes a workload, with a thread for each         *)
(* processor, and runner/src/workload.c reads it back, perhaps from a file *)
(* that has been cut off.  A file is the sequence of the numbers in it, a  *)
(* CSV file one such sequence for each line.                               *)
(***************************************************************************)
EXTENDS Integers, Sequences, FiniteSetsExt

CONSTANTS MAX_TXN_OBJS,
          num_threads,     \* processors
          RandMax,         \* RAND_MAX, scaled down
          Inputs           \* bound: command lines and distributions

\* No number on the command line is negative; the weights of make_zipf_weights
\* are cumulated, and there is an object.
WorkloadsAssumption ==
  /\ MAX_TXN_OBJS \in Nat /\ num_threads \in Nat \ {0} /\ RandMax \in Nat
  /\ \A i \in Inputs :
       /\ i.args.num_txns \in Nat /\ i.args.num_objs \in Nat
       /\ i.args.num_reads \in Nat /\ i.args.num_writes \in Nat
       /\ i.cdf \in Seq(Nat) \ {<<>>}
       /\ \A j, k \in DOMAIN i.cdf : j <= k => i.cdf[j] <= i.cdf[k]

VARIABLES
  args,       \* mode, num_txns, num_objs, num_reads, num_writes
  cdf,        \* make_zipf_weights: cdf[i] for object i - 1, in 1/RandMax
  at,         \* "generate", "write", "file", "parsed", "fatal"
  next,       \* next[t]: the transaction thread t is at
  txns,       \* txns[i + 1], as far as they are set
  file,
  whole,      \* the file has not been cut off
  workload    \* what parse_workload returns

vars == <<args, cdf, at, next, txns, file, whole, workload>>

Threads == 0..(num_threads - 1)
Unset   == [id |-> -1, reads |-> <<>>, writes |-> <<>>]

\* Faulty variant: the remainder of the division belongs to no thread.
Start_Rounded(t) == (args.num_txns \div num_threads) * t

Start(t) == (args.num_txns * t) \div num_threads

-----------------------------------------------------------------------------
\* Faulty variant: the middle itself is given up.
sample_zipf_Skips(r) ==
  LET Narrow[range \in (-1..Len(cdf)) \X (-1..Len(cdf))] ==
        LET lo == range[1]  hi == range[2]  mid == (lo + hi) \div 2
        IN  IF lo >= hi THEN lo
            ELSE Narrow[IF r <= cdf[mid + 1] THEN <<lo, mid - 1>>
                                             ELSE <<mid + 1, hi>>]
  IN  Narrow[<<0, Len(cdf) - 1>>]

sample_zipf(r) ==
  LET Narrow[range \in (0..Len(cdf)) \X (0..Len(cdf))] ==
        LET lo == range[1]  hi == range[2]  mid == (lo + hi) \div 2
        IN  IF lo >= hi THEN lo
            ELSE Narrow[IF r <= cdf[mid + 1] THEN <<lo, mid>>
                                             ELSE <<mid + 1, hi>>]
  IN  Narrow[<<0, Len(cdf) - 1>>]

Drawn == {sample_zipf(r) : r \in 0..RandMax}

\* One transaction of worker_fn.  By probability, any object may be read or
\* written; otherwise num_reads are read, and as many are written.
Contents ==
  IF args.num_reads = 0 /\ args.num_writes = 0
  THEN UNION {[reads  : [1..n -> Drawn],
               writes : [1..(args.num_objs - n) -> Drawn]] :
                n \in 0..args.num_objs}
  ELSE [reads  : [1..args.num_reads -> Drawn],
        writes : [1..args.num_reads -> Drawn]]

Init ==
  /\ \E i \in Inputs : args = i.args /\ cdf = i.cdf
  /\ at = "generate"
  /\ next = [t \in Threads |-> Start(t)]
  /\ txns = [i \in 1..args.num_txns |-> Unset]
  /\ file = <<>> /\ whole = TRUE /\ workload = <<>>

\* main asserts on its arguments before it starts the threads.
Refused == \/ args.num_objs > MAX_TXN_OBJS
           \/ args.num_reads + args.num_writes \notin {0, args.num_objs}

MainRefuses ==
  /\ at = "generate" /\ Refused
  /\ at' = "fatal"
  /\ UNCHANGED <<args, cdf, next, txns, file, whole, workload>>

\* Faulty variant: one transaction too many.
worker_fn_TooFar(t) ==
  /\ at = "generate" /\ ~ Refused
  /\ next[t] <= Start(t + 1)
  /\ \E c \in Contents :
       txns' = [txns EXCEPT ![next[t] + 1] =
                  [id |-> next[t], reads |-> c.reads, writes |-> c.writes]]
  /\ next' = [next EXCEPT ![t] = @ + 1]
  /\ UNCHANGED <<args, cdf, at, file, whole, workload>>

worker_fn(t) ==
  /\ at = "generate" /\ ~ Refused
  /\ next[t] < Start(t + 1)
  /\ \E c \in Contents :
       txns' = [txns EXCEPT ![next[t] + 1] =
                  [id |-> next[t], reads |-> c.reads, writes |-> c.writes]]
  /\ next' = [next EXCEPT ![t] = @ + 1]
  /\ UNCHANGED <<args, cdf, at, file, whole, workload>>

JoinWorkers ==
  /\ at = "generate" /\ ~ Refused
  /\ \A t \in Threads : next[t] >= Start(t + 1)
  /\ at' = "write"
  /\ UNCHANGED <<args, cdf, next, txns, file, whole, workload>>

-----------------------------------------------------------------------------
\* Rows of the same width, one after the other.
InRows(rows, width) ==
  [k \in 1..(Len(rows) * width) |->
     rows[((k - 1) \div width) + 1][((k - 1) % width) + 1]]

\* id,0,object,0,...,object,1,...
CsvLine(txn) ==
  LET pairs == [j \in DOMAIN txn.reads  |-> <<txn.reads[j], 0>>]
                 \o [j \in DOMAIN txn.writes |-> <<txn.writes[j], 1>>]
  IN  <<txn.id, 0>> \o InRows(pairs, 2)

\* The arrays are written in full, whatever malloc left behind what is used.
Padded(s) == s \o [j \in 1..(MAX_TXN_OBJS - Len(s)) |-> 0]

Magic == -7
Version == 1
BinHeader == <<Magic, Version, args.num_txns, MAX_TXN_OBJS, 0>>
RecordLen == 4 + 2 * MAX_TXN_OBJS

\* Faulty variant: the two counts are exchanged.
BinRecord_Swapped(txn) ==
  <<txn.id, 0, Len(txn.writes), Len(txn.reads)>>
    \o Padded(txn.reads) \o Padded(txn.writes)

BinRecord(txn) ==
  <<txn.id, 0, Len(txn.reads), Len(txn.writes)>>
    \o Padded(txn.reads) \o Padded(txn.writes)

WriteFile ==
  /\ at = "write"
  /\ file' = IF args.mode = "csv"
             THEN [i \in DOMAIN txns |-> CsvLine(txns[i])]
             ELSE BinHeader
                    \o InRows([i \in DOMAIN txns |-> BinRecord(txns[i])],
                              RecordLen)
  /\ at' = "file"
  /\ UNCHANGED <<args, cdf, next, txns, whole, workload>>

\* The environment: only the beginning of the file is left, a CSV file with
\* all or a part of its last line.
CutOff ==
  /\ at = "file" /\ whole /\ file # <<>>
  /\ \E n \in 0..(Len(file) - 1) :
       \/ file' = SubSeq(file, 1, n)
       \/ /\ args.mode = "csv"
          /\ \E k \in 0..(Len(file[n + 1]) - 1) :
               file' = Append(SubSeq(file, 1, n), SubSeq(file[n + 1], 1, k))
  /\ whole' = FALSE
  /\ UNCHANGED <<args, cdf, at, next, txns, workload>>

-----------------------------------------------------------------------------
\* The numbers of a set, in order.
Ascending(S) ==
  [k \in 1..Cardinality(S) |->
     CHOOSE j \in S : Cardinality({m \in S : m <= j}) = k]

\* parse_txn: an id, a datum, and pairs of an object and a write flag.
WithFlag(l, flag) ==
  LET pairs == Ascending({j \in 1..((Len(l) - 2) \div 2) : l[2 * j + 2] = flag})
  IN  [j \in DOMAIN pairs |-> l[2 * pairs[j] + 1]]

TxnParses(l) ==
  /\ Len(l) >= 2 /\ Len(l) % 2 = 0
  /\ \A flag \in {0, 1} : Len(WithFlag(l, flag)) <= MAX_TXN_OBJS

parse_txn(l) ==
  [id |-> l[1], reads |-> WithFlag(l, 0), writes |-> WithFlag(l, 1)]

\* What is left of a line whose first digit only has been written; a line of the
\* generator has two numbers at least, and its end.
OneCharacter(l) == Len(l) = 1 /\ l[1] \in 0..9

\* Lines with two characters, the end of the line being one of them.
count_lines ==
  Cardinality({i \in DOMAIN file : file[i] # <<>> /\ ~ OneCharacter(file[i])})

\* Those of which there is something without the end of the line.
FullLines ==
  LET full == Ascending({i \in DOMAIN file : file[i] # <<>>})
  IN  [j \in DOMAIN full |-> file[full[j]]]

CsvParses == \A i \in DOMAIN FullLines : TxnParses(FullLines[i])

\* num_txns comes from count_lines.
parse_workload_csv == [i \in 1..count_lines |-> parse_txn(FullLines[i])]

\* A field that could not be read keeps what malloc has left.
Field(i, j) == LET k == 5 + (i - 1) * RecordLen + j
               IN  IF k <= Len(file) THEN file[k] ELSE 0

\* Faulty variant: whether the records are complete is not tested.
BinParses_Short ==
  Len(file) >= 5 /\ file[1] = Magic /\ file[2] = Version

\* Every fread must give all it asks for.
BinParses ==
  /\ Len(file) >= 5
  /\ file[1] = Magic /\ file[2] = Version /\ file[4] <= MAX_TXN_OBJS
  /\ Len(file) >= 5 + file[3] * RecordLen
  /\ \A i \in 1..file[3], j \in 3..4 : Field(i, j) <= MAX_TXN_OBJS

parse_workload_bin ==
  [i \in 1..file[3] |->
     [id     |-> Field(i, 1),
      reads  |-> [j \in 1..Field(i, 3) |-> Field(i, 4 + j)],
      writes |-> [j \in 1..Field(i, 4) |-> Field(i, 4 + MAX_TXN_OBJS + j)]]]

parse_workload ==
  /\ at = "file"
  /\ IF IF args.mode = "csv" THEN CsvParses ELSE BinParses
     THEN /\ workload' = IF args.mode = "csv" THEN parse_workload_csv
                                              ELSE parse_workload_bin
          /\ at' = "parsed"
     ELSE at' = "fatal" /\ UNCHANGED workload
  /\ UNCHANGED <<args, cdf, next, txns, file, whole>>

Next == \/ MainRefuses \/ (\E t \in Threads : worker_fn(t)) \/ JoinWorkers
        \/ WriteFile \/ CutOff \/ parse_workload

Spec == Init /\ [][Next]_vars

-----------------------------------------------------------------------------
(***************************************************************************)
(* The threads' slices leave no transaction out and share none, however    *)
(* the numbers divide (generate.c:94-95): transaction i has identifier i,  *)
(* which analyze.c uses as its position, and no two threads, which run     *)
(* without synchronisation, touch the same one.                            *)
(***************************************************************************)
Touched(t) == (Start(t) + 1)..next[t]

SlicesCover ==
  /\ at \in {"write", "file", "parsed"} =>
       \A i \in DOMAIN txns : txns[i].id = i - 1
  /\ \A t, u \in Threads : t # u => Touched(t) \cap Touched(u) = {}

(***************************************************************************)
(* The search of sample_zipf finds the least object whose cumulated weight *)
(* reaches r, and the last one if rounding has left none (generate.c:43).  *)
(***************************************************************************)
SampleIsQuantile ==
  \A r \in 0..RandMax :
    sample_zipf(r) = Min({i - 1 : i \in {k \in DOMAIN cdf : r <= cdf[k]}}
                           \cup {Len(cdf) - 1})

(***************************************************************************)
(* A file that is whole is read back as the transactions that were written.*)
(***************************************************************************)
ReadsBack ==
  whole => /\ at = "parsed" => workload = txns
           /\ at = "fatal" => Refused

(***************************************************************************)
(* A binary file that was cut off is refused; a CSV file may be read, but  *)
(* then it is short, only its last transaction can differ, and there is    *)
(* room for each line that is parsed, though the lines are counted by      *)
(* another test (workload.c:19, 93).                                       *)
(***************************************************************************)
CutIsNoticed ==
  ~ whole /\ at = "parsed" =>
    /\ args.mode = "csv"
    /\ Len(FullLines) <= count_lines
    /\ Len(workload) <= Len(txns)
    /\ \A i \in 1..(Len(workload) - 1) : workload[i] = txns[i]

(***************************************************************************)
(* The threads of generate leave no transaction out and share none, draw   *)
(* from the distribution, and what they write is read back as it was, in   *)
(* both formats; a file that was cut off is refused or, as CSV, only short.*)
(***************************************************************************)
WorkloadsSurvive ==
  SlicesCover /\ SampleIsQuantile /\ ReadsBack /\ CutIsNoticed
=============================================================================
