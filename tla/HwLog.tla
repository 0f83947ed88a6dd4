-------------------------------- MODULE HwLog -------------------------------
(***************************************************************************)
(* runner/src/hwlog2bin.c: the messages that the hardware prints become a  *)
(* log file like that of pmlog.c.  A line is what sscanf finds in it: a    *)
(* time stamp, a transaction, a word and a puppet, each NoValue if missing *)
(* or unknown; a transaction is NoNumber if only txn_id= is there.         *)
(***************************************************************************)
EXTENDS Sorting, FiniteSetsExt, Functions

CONSTANTS Word,       \* 2^64, scaled down
          Outputs     \* bound: the files that are converted

NoValue  == -1
NoNumber == -2

\* What the simulator prints: cycles of the hardware, far from the largest word.
LineType == [tsc : -1..(Word - 2), txn : Int, word : STRING, puppet : Int]

ConversionAssumption == Word \in Nat /\ Word > 1 /\ Outputs \subseteq Seq(LineType)

VARIABLES lines, at, event_count, pos, min_tsc, evt_buf, file

vars == <<lines, at, event_count, pos, min_tsc, evt_buf, file>>

Init ==
  /\ lines \in Outputs
  /\ at = "count" /\ event_count = 0 /\ pos = 1
  /\ min_tsc = Word - 1 /\ evt_buf = <<>> /\ file = <<>>

-----------------------------------------------------------------------------
\* strstr(line, "txn_id=")
IsTxnLine(l) == l.txn # NoValue

Kind == [submitted |-> 0, scheduled |-> 1, executing |-> 2, done |-> 3,
         removed |-> 4]

Parses(l) ==
  /\ l.tsc # NoValue /\ l.txn \notin {NoValue, NoNumber}
  /\ l.word \in DOMAIN Kind
  /\ l.word \in {"scheduled", "executing", "done"} => l.puppet # NoValue

parse_hw_log_line(l) ==
  [tsc |-> l.tsc, txn |-> l.txn, kind |-> Kind[l.word],
   aux_data |-> IF l.word \in {"submitted", "removed"} THEN 0 ELSE l.puppet]

\* Faulty variant: the lines are counted from where the file was left.
count_transaction_events_NoRewind ==
  Cardinality({i \in DOMAIN lines : i > 1 /\ IsTxnLine(lines[i])})

count_transaction_events ==
  Cardinality({i \in DOMAIN lines : IsTxnLine(lines[i])})

\* pmlog_init asserts that there is something to allocate.
Allocate ==
  /\ at = "count"
  /\ event_count' = count_transaction_events
  /\ at' = IF event_count' > 0 THEN "collect" ELSE "fatal"
  /\ UNCHANGED <<lines, pos, min_tsc, evt_buf, file>>

Collect ==
  /\ at = "collect" /\ pos <= Len(lines)
  /\ pos' = pos + 1
  /\ LET l == lines[pos]
     IN  IF IsTxnLine(l) /\ Parses(l)
         THEN /\ evt_buf' = Append(evt_buf, parse_hw_log_line(l))
              /\ min_tsc' = IF l.tsc < min_tsc THEN l.tsc ELSE min_tsc
         ELSE UNCHANGED <<evt_buf, min_tsc>>
  /\ UNCHANGED <<lines, at, event_count, file>>

\* Faulty variant: the first event is at 0, which stands for a missing one.
Rebased_FromZero(tsc) == (tsc - min_tsc) % Word

Rebased(tsc) == (tsc - min_tsc + 1) % Word

Rebase ==
  /\ at = "collect" /\ pos > Len(lines)
  /\ evt_buf' = [i \in DOMAIN evt_buf |->
                   [evt_buf[i] EXCEPT !.tsc = Rebased(@)]]
  /\ at' = "write"
  /\ UNCHANGED <<lines, event_count, pos, min_tsc, file>>

Write ==
  /\ at = "write"
  /\ file' = SortedByTsc(evt_buf)
  /\ at' = "exited"
  /\ UNCHANGED <<lines, event_count, pos, min_tsc, evt_buf>>

Next == Allocate \/ Collect \/ Rebase \/ Write

Spec == Init /\ [][Next]_vars

-----------------------------------------------------------------------------
(***************************************************************************)
(* What is collected in the second reading fits what was counted in the    *)
(* first (hwlog2bin.c:111, 140): no write goes past the end of the buffer. *)
(***************************************************************************)
CollectedFits == at # "count" => Len(evt_buf) <= event_count

Printed == {i \in DOMAIN lines : Parses(lines[i])}

\* Printed line i, with the first of the events at 1.
Moved(i) == LET first == Min({lines[k].tsc : k \in Printed})
            IN  [parse_hw_log_line(lines[i]) EXCEPT !.tsc = @ - first + 1]

(***************************************************************************)
(* The converted log shows each event that was printed once, all moved by  *)
(* the same time, in order, and none at time 0, which analyze.c would take *)
(* for missing (hwlog2bin.c:147-184).                                      *)
(***************************************************************************)
EventsAreKept ==
  at = "exited" =>
    /\ \A k \in DOMAIN file : file[k].tsc > 0
    /\ \A j, k \in DOMAIN file : j < k => file[j].tsc <= file[k].tsc
    /\ \E from \in Bijection(DOMAIN file, Printed) :
         \A k \in DOMAIN file : file[k] = Moved(from[k])

ConversionKeeps == CollectedFits /\ EventsAreKept
=============================================================================
