---------------------------- MODULE RunnerClock -----------------------------
(***************************************************************************)
(* runner/src/main.c by the clock: the command line, the start-up, the     *)
(* client, and the loop that once a second compares how much the puppets   *)
(* have completed.  The work of a transaction and the client's waits take  *)
(* a known time, the rest no time at all: as long as there is a            *)
(* transaction that has been or could be submitted, some puppet is at      *)
(* work.                                                                   *)
(***************************************************************************)
EXTENDS Integers, FiniteSets

CONSTANTS MAX_CLIENTS, MAX_PUPPETS,
          NumTxns,         \* workload->num_txns
          Second,          \* clock ticks in a second
          Gap,             \* the client's wait under --limit without work:
                           \* 3 / 1e7 of a second
          Args             \* bound: the command lines, after getopt_long

\* What getopt_long and atoi leave; 1 << 31 is negative.
ClockAssumption ==
  /\ Second \in Nat \ {0} /\ Gap \in 0..(Second - 1) /\ NumTxns \in Nat
  /\ MAX_CLIENTS \in Nat /\ MAX_PUPPETS \in Nat
  /\ Args \subseteq [timeout : Int, work : Int, clients : Int, puppets : Int,
                     period : Int \ {0}, workload : BOOLEAN, log : BOOLEAN,
                     dump : BOOLEAN, live_dump : BOOLEAN, limit : BOOLEAN]

VARIABLES
  args,        \* timeout, work (in ticks), clients, puppets, period (1 <<
               \* the sample shift); whether there are a workload, a log, a
               \* dump, a live dump, a limit
  sample_period,
  at,          \* "parse", "init", "sample", "sleep", "fatal", "timeout",
               \* "stuck", "success"
  now,         \* ticks since the threads were started
  submitted,
  client_left, \* ticks until the client submits again
  left,        \* left[p]: ticks of work puppet p has left, 0 if idle
  started, num_completed,
  second, prev,
  wake         \* when main's sleep ends

mainVars   == <<second, prev, wake>>
clientVars == <<submitted, client_left>>
puppetVars == <<left, started, num_completed>>
vars == <<args, sample_period, at, now, clientVars, puppetVars, mainVars>>

Init ==
  /\ args \in Args
  /\ sample_period = 0 /\ at = "parse" /\ now = 0
  /\ submitted = 0 /\ client_left = 0
  /\ left = <<>> /\ started = 0 /\ num_completed = <<>>
  /\ second = 0 /\ prev = -1 /\ wake = 0

-----------------------------------------------------------------------------
Dumping == args.live_dump \/ args.dump

\* Faulty variant: without a log nothing is sampled, dump or not.
Period_NoDump == IF ~ args.log THEN 0 ELSE args.period

\* Without a log nothing is sampled, unless there is a dump.
Period == IF ~ args.log /\ ~ Dumping THEN 0 ELSE args.period

parse_args ==
  /\ at = "parse"
  /\ sample_period' = Period
  /\ at' = IF \/ args.timeout <= 0 \/ args.work < 0
              \/ args.clients <= 0 \/ args.puppets <= 0
              \/ ~ args.workload
              \/ Dumping /\ Period = 0
           THEN "fatal" ELSE "init"
  /\ UNCHANGED <<args, now, clientVars, puppetVars, mainVars>>

Puppets == 0..(args.puppets - 1)

\* pmlog_init and pmhw_init assert, then the threads are started.
StartUp ==
  /\ at = "init"
  /\ IF \/ sample_period < 0 \/ NumTxns = 0
        \/ args.clients > MAX_CLIENTS \/ args.puppets > MAX_PUPPETS
     THEN at' = "fatal" /\ UNCHANGED <<left, num_completed>>
     ELSE /\ at' = "sample"
          /\ left' = [p \in Puppets |-> 0]
          /\ num_completed' = [p \in Puppets |-> 0]
  /\ UNCHANGED <<args, sample_period, now, clientVars, started, mainVars>>

-----------------------------------------------------------------------------
Up == at \in {"sample", "sleep"}

\* Between two transactions the client waits, if it is limited, three times as
\* long as one takes (client_sim_cycles).
client_sim == IF ~ args.limit THEN 0
              ELSE IF args.work = 0 THEN Gap ELSE 3 * args.work

ClientReady == submitted < NumTxns /\ client_left = 0

Submit ==
  /\ Up /\ ClientReady
  /\ submitted' = submitted + 1
  /\ client_left' = client_sim
  /\ UNCHANGED <<args, sample_period, at, now, puppetVars, mainVars>>

\* A puppet receives a transaction; without work to simulate it is done.
Receive(p) ==
  /\ Up /\ left[p] = 0 /\ started < submitted
  /\ started' = started + 1
  /\ left' = [left EXCEPT ![p] = args.work]
  /\ num_completed' = IF args.work = 0 THEN [num_completed EXCEPT ![p] = @ + 1]
                                       ELSE num_completed
  /\ UNCHANGED <<args, sample_period, at, now, clientVars, mainVars>>

\* One for each time a puppet has counted.
Completed ==
  UNION {{p} \X (1..num_completed[p]) : p \in DOMAIN num_completed}

sum == Cardinality(Completed)

Tick ==
  /\ at = "sleep" /\ now < wake
  /\ started < submitted \/ ClientReady => \E p \in Puppets : left[p] > 0
  /\ now' = now + 1
  /\ client_left' = IF client_left = 0 THEN 0 ELSE client_left - 1
  /\ left' = [p \in Puppets |-> IF left[p] = 0 THEN 0 ELSE left[p] - 1]
  /\ num_completed' = [p \in Puppets |->
       num_completed[p] + IF left[p] = 1 THEN 1 ELSE 0]
  /\ UNCHANGED <<args, sample_period, at, submitted, started, mainVars>>

\* Faulty variant: one turn too many.
TimeUp_Late == second > args.timeout

TimeUp == second >= args.timeout

\* Faulty variant: samples that grow by one are taken for equal.
Verdict_Tolerant ==
  IF sum <= prev + 1 THEN "stuck"
  ELSE IF sum = NumTxns THEN "success" ELSE "sleep"

Verdict ==
  IF sum = prev THEN "stuck" ELSE IF sum = NumTxns THEN "success" ELSE "sleep"

Sample ==
  /\ at = "sample" /\ ~ TimeUp
  /\ at' = Verdict
  /\ prev' = sum
  /\ second' = second + 1
  /\ wake' = now + Second
  /\ UNCHANGED <<args, sample_period, now, clientVars, puppetVars>>

GiveUp ==
  /\ at = "sample" /\ TimeUp
  /\ at' = "timeout"
  /\ UNCHANGED <<args, sample_period, now, clientVars, puppetVars, mainVars>>

Wake ==
  /\ at = "sleep" /\ now = wake
  /\ at' = "sample"
  /\ UNCHANGED <<args, sample_period, now, clientVars, puppetVars, mainVars>>

Next == \/ parse_args \/ StartUp \/ Submit \/ Tick
        \/ Sample \/ GiveUp \/ Wake
        \/ Up /\ \E p \in Puppets : Receive(p)

Spec == Init /\ [][Next]_vars /\ WF_vars(Next)

-----------------------------------------------------------------------------
Numbers == args.timeout > 0 /\ args.work >= 0
             /\ args.clients \in 1..MAX_CLIENTS
             /\ args.puppets \in 1..MAX_PUPPETS

Recording == args.log \/ Dumping

(***************************************************************************)
(* A run is refused only for a number out of range or a missing or empty   *)
(* workload, and one that starts records events exactly if it is asked for *)
(* a log or a dump (main.c:207-224).  Out of range is also a sample shift  *)
(* of 31, but only if events are recorded (pmlog.c:30).                    *)
(***************************************************************************)
StartsAsAsked ==
  /\ at = "fatal" => ~ (/\ Numbers /\ args.workload /\ NumTxns > 0
                        /\ Recording => args.period > 0)
  /\ at \notin {"parse", "init", "fatal"} =>
       Numbers /\ (sample_period > 0 <=> Recording)

\* The longest time between two completions.
Pace == IF args.limit THEN client_sim ELSE args.work

(***************************************************************************)
(* As long as the transactions come and go at least once a second, the run *)
(* is never given up for lack of progress: between two samples something   *)
(* is completed (main.c:283).  Without --limit that is so when a           *)
(* transaction takes no more than a second, with it only when it takes no  *)
(* more than a third of one, since the client waits three times as long.   *)
(***************************************************************************)
StuckOnlyIfSlow == at = "stuck" => Pace > Second

(***************************************************************************)
(* Success means that everything is done, and the verdict falls within the *)
(* timeout (main.c:275-296).                                               *)
(***************************************************************************)
VerdictInTime ==
  /\ at = "success" => sum = NumTxns
  /\ at \notin {"parse", "fatal"} => now <= args.timeout * Second

VerdictIsRight == StartsAsAsked /\ StuckOnlyIfSlow /\ VerdictInTime
=============================================================================
