------------------------------- MODULE MCParts ------------------------------
(***************************************************************************)
(* Small instances of the parts, the numbers being in Parts.cfg.           *)
(***************************************************************************)
EXTENDS Parts

-----------------------------------------------------------------------------
(* Workloads: up to three transactions for two threads, two or three       *)
(* objects, with the distribution reaching the largest random number or    *)
(* falling short of it; by probability and by counts, and command lines    *)
(* that are refused.                                                       *)

A(mode, n, objs, r, wr) ==
  [mode |-> mode, num_txns |-> n, num_objs |-> objs, num_reads |-> r,
   num_writes |-> wr]

Counts == {<<1, 0, 0>>, <<2, 0, 0>>, <<2, 1, 1>>, <<2, 2, 0>>, <<2, 2, 1>>,
           <<3, 0, 0>>}

Commands == {A(m, n, c[1], c[2], c[3]) :
               m \in {"csv", "bin"}, n \in {0, 1, 3}, c \in Counts}

\* Non-decreasing, 4 standing for 1.
Longer == {<<4>>, <<0, 2, 4>>, <<3, 3, 3>>, <<1, 1, 2, 4, 4>>,
           <<0, 1, 1, 2, 3, 3>>}

mcInputs == [args : Commands, cdf : {<<1, 3>>}]
              \cup [args : {A("csv", 1, 1, 0, 0)}, cdf : Longer]

(* RunnerClock: four transactions and a second of four ticks; from no work *)
(* to work that takes more than a second, the client limited or not (to    *)
(* less than one, or less or more than a transaction per second), and each *)
(* way to be refused.                                                      *)

mcArgs ==
  [timeout : {0, 1, 3}, work : {-1, 0, 1, 3, 4, 6}, clients : {1, 2},
   puppets : 1..3, period : {4, -8}, workload : BOOLEAN, log : BOOLEAN,
   dump : BOOLEAN, live_dump : {FALSE}, limit : BOOLEAN]

(* LogAnalysis: four transactions, of which 1 conflicts with 3 only.  Each *)
(* has one of the lines below as its times, 0 where the event is missing;  *)
(* the fourth has one that overlaps many, or none, and room is for two.    *)
(* There are runs that overlap, touch and nest, runs of no length,         *)
(* transactions out of order, a cleanup that comes after more windows than *)
(* an int counts, and logs with stages missing or empty.                   *)

Times == {<<1, 1, 1, 5, 6>>, <<1, 2, 2, 4, 18>>, <<2, 3, 4, 7, 8>>,
          <<3, 5, 5, 5, 7>>, <<1, 4, 5, 8, 8>>, <<2, 7, 8, 10, 11>>,
          <<5, 2, 3, 6, 6>>, <<4, 6, 5, 9, 9>>, <<2, 2, 3, 6, 0>>,
          <<1, 0, 0, 0, 0>>, <<0, 3, 3, 4, 5>>}

Fourth == {<<1, 4, 5, 8, 8>>, <<1, 0, 0, 0, 0>>}

StageNames == <<"submit", "sched", "work", "done", "cleanup">>

Events(t, line) ==
  {[txn |-> t, kind |-> StageNames[k], tsc |-> line[k]] :
     k \in {j \in 1..5 : line[j] # 0}}

mcReads  == <<{}, {"b"}, {"a", "b"}, {"b"}>>
mcWrites == <<{"a"}, {}, {}, {}>>

mcLogs == {{}} \cup {UNION {Events(t, f[t]) : t \in 1..4} :
                       f \in {g \in [1..4 -> Times] : g[4] \in Fourth}}

(* HwLog: up to three lines; events, other messages, lines that are cut    *)
(* off before, in or after the transaction, an unknown word, equal times,  *)
(* and a counter that starts at 0 or high.                                 *)

Line(tsc, txn, word, puppet) ==
  [tsc |-> tsc, txn |-> txn, word |-> word, puppet |-> puppet]

HwLines ==
  {Line(t, x, wd, -1) :
     t \in {0, 7}, x \in {0, 1}, wd \in {"submitted", "removed"}}
    \cup {Line(t, 0, wd, 1) :
            t \in {3, 7}, wd \in {"scheduled", "executing", "done"}}
    \cup {Line(5, 0, "done", -1), Line(9, 1, "", -1),
          Line(2, 0, "renamed", 1), Line(-1, 0, "done", 0),
          Line(-1, -1, "", -1), Line(4, -2, "", -1)}

mcOutputs == UNION {[1..n -> HwLines] : n \in 1..3}

(* Both rings have four slots.  Bloom: products of eight bits, of which    *)
(* the upper five give a bit among the eight of a partition; odd constants *)
(* like those of the source.  TxnHasher: the golden ratio for ten bits,    *)
(* which comes out even.  RealExecutor: two puppets, and a host that works *)
(* on two transactions at a time.                                          *)

mcHashConstants == [i \in 0..1 |-> IF i = 0 THEN 157 ELSE 197]
=============================================================================
