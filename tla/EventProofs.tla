----------------------------- MODULE EventProofs -----------------------------
(***************************************************************************)
(* The event log, for every number of transactions and puppets and every   *)
(* sampling period: the buffer that the threads share, and the file that   *)
(* is made of it.                                                          *)
(***************************************************************************)
EXTENDS EventLog, FiniteSetTheorems, FunctionTheorems, TLAPS

\* The lemmas on sorting.
Data == INSTANCE DataProofs WITH Items <- {}, capacity <- 2

\* The definitions have been instantiated once more.
LEMMA SortsAlike == \A s : Data!SortedByTsc(s) = SortedByTsc(s)
<1>1. \A S : Data!Cardinality(S) = Cardinality(S)
  BY Zenon DEF Data!Cardinality, Cardinality
<1>2. \A s, i : Data!Rank(s, i) = Rank(s, i)
  BY <1>1 DEF Data!Rank, Rank, Data!Before, Before
<1> SUFFICES ASSUME NEW s PROVE Data!SortedByTsc(s) = SortedByTsc(s)
  OBVIOUS
<1> DEFINE one(k) == CHOOSE i \in DOMAIN s : Data!Rank(s, i) = k
           two(k) == CHOOSE i \in DOMAIN s : Rank(s, i) = k
<1>3. \A k : one(k) = two(k)
  BY <1>2
<1>4. Data!SortedByTsc(s) = [k \in DOMAIN s |-> s[one(k)]]
  BY DEF Data!SortedByTsc
<1>5. SortedByTsc(s) = [k \in DOMAIN s |-> s[two(k)]]
  BY DEF SortedByTsc
<1> HIDE DEF one, two
<1> QED BY <1>3, <1>4, <1>5

\* The threads record for as long as main waits for them.
Recording == mainAt \in {"wait", "join"}

Records == [tsc : Nat, txn : Int, kind : Int, aux_data : Int]
Claims  == [slot : Nat, txn : Txns]

TypeOK ==
  /\ sample_period \in Nat
  /\ stage \in [Txns -> 0..5]
  /\ writing \in [Threads -> Claims \cup {Nothing}]
  /\ num_events \in Nat /\ now \in Nat \ {0}
  /\ DOMAIN buf = Slots
  /\ mainAt \in {"wait", "join", "sort", "count", "body", "dump", "free", "cleanup",
                 "return", "exited"}
  /\ Recording => freed = {}

\* A thread that has claimed a slot records a stage that is its own to record.
RecorderOf(t, k) == CASE k = 0 -> Client
                      [] k \in {1, 4} -> Scheduler
                      [] k \in {2, 3} -> puppet(t)

OwnStage ==
  \A th \in Busy : /\ stage[writing[th].txn] < 5
                   /\ RecorderOf(writing[th].txn, stage[writing[th].txn]) = th

\* Slots are claimed once and from below.
SlotsClaimed ==
  /\ \A th \in Busy : writing[th].slot < num_events
  /\ \A th, other \in Busy : th # other => writing[th].slot # writing[other].slot

HolesLeft ==
  /\ \A s \in Slots : s >= num_events => buf[s] = Hole
  /\ \A th \in Busy : writing[th].slot \in Slots => buf[writing[th].slot] = Hole

\* What has been recorded, or is being recorded, at most.
Claimed ==
  {c \in Txns \X (0..4) :
     \/ c[2] < stage[c[1]]
     \/ c[2] = stage[c[1]] /\ \E th \in Busy : writing[th].txn = c[1]}

EnoughSlots == num_events <= Cardinality(Claimed)

LogInv ==
  /\ TypeOK /\ OwnStage
  /\ Recording => SlotsClaimed /\ HolesLeft /\ EnoughSlots

-----------------------------------------------------------------------------
LEMMA Sizes ==
  /\ IsFiniteSet(Txns \X (0..4))
  /\ Cardinality(Txns \X (0..4)) = NumTxns * 5
<1>1. IsFiniteSet(Txns) /\ Cardinality(Txns) = NumTxns
  BY EventLogAssumption, FS_Interval DEF Txns
<1>2. IsFiniteSet(0..4) /\ Cardinality(0..4) = 5
  <2>1. PICK n \in Nat : n = 4
    OBVIOUS
  <2>2. IsFiniteSet(0..n) /\ Cardinality(0..n) = n - 0 + 1
    BY FS_Interval
  <2> QED BY <2>1, <2>2
<1> QED BY <1>1, <1>2, FS_Product

LEMMA ClaimedBounded ==
  IsFiniteSet(Claimed) /\ Cardinality(Claimed) \in Nat
    /\ Cardinality(Claimed) <= NumTxns * 5
<1>1. Claimed \subseteq Txns \X (0..4)
  BY DEF Claimed
<1> QED BY <1>1, Sizes, FS_Subset, FS_CardinalityType

LEMMA ClaimedBoundedNext == IsFiniteSet(Claimed') /\ Cardinality(Claimed') \in Nat
<1>1. Claimed' \subseteq Txns \X (0..4)
  BY DEF Claimed
<1> QED BY <1>1, Sizes, FS_Subset, FS_CardinalityType

LEMMA BusyIs == TypeOK =>
  \A th \in Threads : /\ th \in Busy <=> writing[th] # Nothing
                      /\ th \in Busy => writing[th] \in Claims
BY DEF TypeOK, Busy

\* Stages only grow, so what was claimed stays claimed.
LEMMA ClaimedGrows ==
  ASSUME TypeOK, TypeOK', OwnStage, NEW t \in Txns, stage[t] < 5,
         stage' = [stage EXCEPT ![t] = @ + 1],
         \A th \in Busy : \/ th \in Busy' /\ writing'[th] = writing[th]
                         \/ writing[th].txn = t
  PROVE  Cardinality(Claimed) <= Cardinality(Claimed')
<1>1. ASSUME NEW c \in Claimed PROVE c \in Claimed'
  <2>1. c \in Txns \X (0..4) /\ c[1] \in Txns /\ c[2] \in 0..4
    BY <1>1 DEF Claimed
  <2>2. stage'[c[1]] = IF c[1] = t THEN stage[t] + 1 ELSE stage[c[1]]
    BY <2>1 DEF TypeOK
  <2>3. stage[c[1]] \in 0..5 /\ stage[t] \in 0..5
    BY <2>1 DEF TypeOK
  <2>4. CASE c[2] < stage[c[1]]
    BY <2>1, <2>2, <2>3, <2>4 DEF Claimed
  <2>5. CASE c[2] = stage[c[1]] /\ \E th \in Busy : writing[th].txn = c[1]
    <3>1. PICK th \in Busy : writing[th].txn = c[1]
      BY <2>5
    <3>2. CASE c[1] = t
      BY <2>1, <2>2, <2>3, <2>5, <3>2 DEF Claimed
    <3>3. CASE c[1] # t
      <4>1. th \in Busy' /\ writing'[th].txn = c[1]
        BY <3>1, <3>3
      <4> QED BY <2>1, <2>2, <2>5, <3>3, <4>1 DEF Claimed
    <3> QED BY <3>2, <3>3
  <2> QED BY <1>1, <2>4, <2>5 DEF Claimed
<1> QED BY <1>1, ClaimedBoundedNext, FS_Subset

LEMMA RecorderIs == \A t : Recorder(t) = RecorderOf(t, stage[t])
BY DEF Recorder, RecorderOf

LEMMA SkipsKeep ==
  ASSUME LogInv, NEW th \in Threads, NEW t \in Txns, RecordSkips(th, t)
  PROVE  LogInv'
<1>1. /\ stage' = [stage EXCEPT ![t] = @ + 1] /\ stage[t] < 5
      /\ Recorder(t) = th /\ writing[th] = Nothing
      /\ UNCHANGED <<sample_period, writing, num_events, buf, now, mainAt, freed>>
  BY DEF RecordSkips, MayRecord
<1>2. TypeOK /\ OwnStage /\ TypeOK'
  BY <1>1 DEF LogInv, TypeOK, Recording
<1>3. Busy' = Busy /\ (Recording' <=> Recording)
  BY <1>1 DEF Busy, Recording
<1>4. \A b \in Busy : writing[b].txn \in Txns /\ writing[b].txn # t
  BY <1>1, <1>2, BusyIs, RecorderIs DEF OwnStage, Claims, Busy
<1>5. \A b \in Busy : stage'[writing[b].txn] = stage[writing[b].txn]
  BY <1>1, <1>2, <1>4 DEF TypeOK
<1>6. OwnStage'
  BY <1>1, <1>2, <1>3, <1>5 DEF OwnStage
<1>7. ASSUME Recording PROVE SlotsClaimed' /\ HolesLeft' /\ EnoughSlots'
  <2>1. SlotsClaimed /\ HolesLeft /\ EnoughSlots
    BY <1>7 DEF LogInv
  <2>2. SlotsClaimed' /\ HolesLeft'
    BY <1>1, <1>3, <2>1 DEF SlotsClaimed, HolesLeft
  <2>3. Cardinality(Claimed) <= Cardinality(Claimed')
    BY <1>1, <1>2, <1>3, ClaimedGrows
  <2>4. Cardinality(Claimed) \in Nat /\ Cardinality(Claimed') \in Nat
    BY ClaimedBounded, ClaimedBoundedNext
  <2>5. EnoughSlots'
    BY <1>1, <1>2, <2>1, <2>3, <2>4 DEF EnoughSlots, TypeOK
  <2> QED BY <2>2, <2>5
<1> QED BY <1>2, <1>3, <1>6, <1>7 DEF LogInv

LEMMA ClaimsKeep ==
  ASSUME LogInv, NEW th \in Threads, NEW t \in Txns, RecordClaims(th, t)
  PROVE  LogInv'
<1>1. /\ writing' = [writing EXCEPT ![th] = [slot |-> num_events, txn |-> t]]
      /\ num_events' = num_events + 1
      /\ stage[t] < 5 /\ Recorder(t) = th /\ writing[th] = Nothing
      /\ UNCHANGED <<sample_period, stage, buf, now, mainAt, freed>>
  BY DEF RecordClaims, MayRecord
<1>2. TypeOK /\ OwnStage /\ [slot |-> num_events, txn |-> t] \in Claims
  BY DEF LogInv, TypeOK, Claims
<1>3. TypeOK'
  BY <1>1, <1>2 DEF TypeOK, Recording
<1>4. /\ [slot |-> num_events, txn |-> t] # Nothing
      /\ Recording' <=> Recording
      /\ th \notin Busy /\ Busy' = Busy \cup {th}
      /\ writing'[th] = [slot |-> num_events, txn |-> t]
      /\ \A b \in Busy : b # th /\ b \in Threads /\ writing'[b] = writing[b]
  <2>1. [slot |-> num_events, txn |-> t] # Nothing
    BY <1>2 DEF Nothing, TypeOK
  <2> QED BY <1>1, <1>2, <2>1 DEF Busy, Recording, TypeOK
<1>5. OwnStage'
  BY <1>1, <1>2, <1>4, RecorderIs DEF OwnStage
<1>6. ASSUME Recording PROVE SlotsClaimed' /\ HolesLeft' /\ EnoughSlots'
  <2>1. SlotsClaimed /\ HolesLeft /\ EnoughSlots
    BY <1>6 DEF LogInv
  <2>2. \A b \in Busy : writing[b].txn \in Txns /\ writing[b].slot \in Nat
    BY <1>2, BusyIs DEF Claims, Busy
  <2>4. SlotsClaimed'
    BY <1>1, <1>2, <1>4, <2>1, <2>2 DEF SlotsClaimed, TypeOK
  <2>5. HolesLeft'
    <3>1. \A s \in Slots : s >= num_events' => buf'[s] = Hole
      BY <1>1, <1>2, <2>1 DEF HolesLeft, TypeOK, Slots
    <3>2. ASSUME NEW b \in Busy', writing'[b].slot \in Slots
          PROVE  buf'[writing'[b].slot] = Hole
      BY <1>1, <1>2, <1>4, <2>1, <3>2 DEF HolesLeft, TypeOK
    <3> QED BY <3>1, <3>2 DEF HolesLeft
  <2>6. EnoughSlots'
    <3> DEFINE c == <<t, stage[t]>>
    <3>1. c \in Txns \X (0..4) /\ c[1] = t /\ c[2] = stage[t]
      BY <1>1, <1>2 DEF TypeOK
    <3>2. c \notin Claimed
      <4>1. stage[t] \in 0..5
        BY <1>2 DEF TypeOK
      <4>2. \A b \in Busy : writing[b].txn # t
        BY <1>1, <1>2, <1>4, RecorderIs DEF OwnStage
      <4> QED BY <3>1, <4>1, <4>2 DEF Claimed
    <3> HIDE DEF c
    <3>3. Claimed \cup {c} \subseteq Claimed'
      <4>1. c \in Claimed'
        <5>1. th \in Busy' /\ writing'[th].txn = c[1] /\ c[2] = stage'[c[1]]
          BY <1>1, <1>4, <3>1
        <5> QED BY <3>1, <5>1 DEF Claimed
      <4>2. ASSUME NEW d \in Claimed PROVE d \in Claimed'
        <5>1. \A b \in Busy : b \in Busy' /\ writing'[b].txn = writing[b].txn
          BY <1>4
        <5> QED BY <1>1, <5>1 DEF Claimed
      <4> QED BY <4>1, <4>2
    <3>4. IsFiniteSet(Claimed')
      BY ClaimedBoundedNext
    <3>5. Cardinality(Claimed \cup {c}) = Cardinality(Claimed) + 1
      BY <3>2, ClaimedBounded, FS_AddElement
    <3>6. Cardinality(Claimed \cup {c}) <= Cardinality(Claimed')
      BY <3>3, <3>4, FS_Subset
    <3>7. Cardinality(Claimed') \in Nat /\ Cardinality(Claimed) \in Nat
      BY <3>4, ClaimedBounded, FS_CardinalityType
    <3> QED BY <1>1, <1>2, <2>1, <3>5, <3>6, <3>7 DEF EnoughSlots, TypeOK
  <2> QED BY <2>4, <2>5, <2>6
<1> QED BY <1>3, <1>4, <1>5, <1>6 DEF LogInv

LEMMA FillsKeep ==
  ASSUME LogInv, NEW th \in Threads, RecordFills(th)
  PROVE  LogInv'
<1>s. PICK slot : slot = writing[th].slot
  OBVIOUS
<1>t. PICK t : t = writing[th].txn
  OBVIOUS
<1>r. PICK r : r = [tsc |-> now, txn |-> t, kind |-> stage[t],
                    aux_data |-> IF stage[t] \in 1..3 THEN puppet(t) ELSE -1]
  OBVIOUS
<1>1. /\ writing[th] # Nothing
      /\ buf' = IF "log" \in freed THEN buf ELSE [buf EXCEPT ![slot] = r]
      /\ stage' = [stage EXCEPT ![t] = @ + 1]
      /\ writing' = [writing EXCEPT ![th] = Nothing]
      /\ now' = now + 1
      /\ UNCHANGED <<sample_period, num_events, mainAt, freed>>
  BY <1>s, <1>t, <1>r DEF RecordFills
<1>2. TypeOK /\ OwnStage /\ th \in Busy /\ t \in Txns /\ slot \in Nat
      /\ RecorderOf(t, stage[t]) = th /\ stage[t] < 5
  BY <1>1, <1>s, <1>t, BusyIs DEF LogInv, Claims, OwnStage
<1>3. Busy' = Busy \ {th} /\ \A b \in Busy' : writing'[b] = writing[b]
  BY <1>1, <1>2 DEF Busy, TypeOK
<1>4. (Recording' <=> Recording) /\ (Recording => freed = {})
  BY <1>1, <1>2 DEF Recording, TypeOK
<1>5. TypeOK'
  <2>1. stage[t] + 1 \in 0..5
    BY <1>2 DEF TypeOK
  <2> QED BY <1>1, <1>2, <1>4, <2>1 DEF TypeOK
<1>6. \A b \in Busy' : /\ b \in Busy /\ b # th /\ writing[b].txn \in Txns
                       /\ writing[b].txn # t
                       /\ stage'[writing[b].txn] = stage[writing[b].txn]
  <2>1. \A b \in Busy' : b \in Busy /\ b # th /\ writing[b].txn \in Txns
                         /\ writing[b].txn # t
    BY <1>2, <1>3, BusyIs DEF OwnStage, Claims, Busy
  <2> QED BY <1>1, <1>2, <2>1 DEF TypeOK
<1>7. OwnStage'
  BY <1>2, <1>3, <1>6 DEF OwnStage
<1>8. ASSUME Recording PROVE SlotsClaimed' /\ HolesLeft' /\ EnoughSlots'
  <2>1. SlotsClaimed /\ HolesLeft /\ EnoughSlots
    BY <1>8 DEF LogInv
  <2>2. SlotsClaimed'
    BY <1>1, <1>3, <1>6, <2>1 DEF SlotsClaimed
  <2>3. buf' = [buf EXCEPT ![slot] = r] /\ slot < num_events
    BY <1>1, <1>2, <1>4, <1>8, <1>s, <2>1 DEF SlotsClaimed
  <2>4. \A s \in Slots : s # slot => buf'[s] = buf[s]
    BY <1>2, <2>3 DEF TypeOK
  <2>5. HolesLeft'
    <3>1. ASSUME NEW s \in Slots, s >= num_events PROVE buf'[s] = Hole
      BY <1>2, <2>1, <2>3, <2>4, <3>1 DEF HolesLeft, TypeOK, Slots
    <3>2. ASSUME NEW b \in Busy', writing[b].slot \in Slots
          PROVE  buf'[writing[b].slot] = Hole
      <4>1. writing[b].slot # slot
        BY <1>2, <1>6, <1>s, <2>1 DEF SlotsClaimed
      <4> QED BY <1>6, <2>1, <2>4, <3>2, <4>1 DEF HolesLeft
    <3> QED BY <1>1, <1>3, <3>1, <3>2 DEF HolesLeft
  <2>6. Cardinality(Claimed) <= Cardinality(Claimed')
    <3>1. \A b \in Busy : \/ b \in Busy' /\ writing'[b] = writing[b]
                         \/ writing[b].txn = t
      BY <1>3, <1>t
    <3> QED BY <1>1, <1>2, <1>5, <3>1, ClaimedGrows
  <2>7. EnoughSlots'
    BY <1>1, <1>2, <2>1, <2>6, ClaimedBounded, ClaimedBoundedNext
       DEF EnoughSlots, TypeOK
  <2> QED BY <2>2, <2>5, <2>7
<1> QED BY <1>4, <1>5, <1>7, <1>8 DEF LogInv

LEMMA MainKeeps ==
  ASSUME LogInv, Main
  PROVE  LogInv'
<1>1. /\ UNCHANGED <<sample_period, stage, writing, now>> /\ DOMAIN buf' = Slots
      /\ num_events' \in Nat
      /\ mainAt' \in {"join", "sort", "count", "body", "dump", "free", "cleanup",
                      "return", "exited"}
      /\ Recording' => Recording /\ UNCHANGED <<num_events, buf, freed>>
  <2>1. CASE MainSucceeds \/ MainGivesUp \/ SchedulerStops \/ MainJoins
               \/ MainWritesCount \/ MainWritesBody \/ MainReturns
    BY <2>1 DEF LogInv, TypeOK, Recording, MainSucceeds, MainGivesUp, SchedulerStops,
                MainJoins, MainWritesCount, MainWritesBody, MainReturns, threadVars
  <2>2. CASE MainSorts \/ MainDumps
    BY <2>2 DEF LogInv, TypeOK, Recording, MainSorts, MainDumps, SortBuffer
  <2>3. CASE MainFrees \/ pmlog_cleanup
    BY <2>3 DEF LogInv, TypeOK, Recording, MainFrees, pmlog_cleanup, threadVars
  <2> QED BY <2>1, <2>2, <2>3 DEF Main
<1>2. Busy' = Busy
  BY <1>1 DEF Busy
<1>3. TypeOK' /\ OwnStage'
  BY <1>1, <1>2 DEF LogInv, TypeOK, OwnStage, Recording
<1>4. Recording' => SlotsClaimed' /\ HolesLeft' /\ EnoughSlots'
  <2> SUFFICES ASSUME Recording' PROVE SlotsClaimed' /\ HolesLeft' /\ EnoughSlots'
    OBVIOUS
  <2>1. SlotsClaimed /\ HolesLeft /\ EnoughSlots /\ UNCHANGED <<num_events, buf>>
    BY <1>1 DEF LogInv
  <2>2. Claimed' = Claimed
    BY <1>1, <1>2 DEF Claimed
  <2> QED BY <1>1, <1>2, <2>1, <2>2 DEF SlotsClaimed, HolesLeft, EnoughSlots
<1> QED BY <1>3, <1>4 DEF LogInv

LEMMA LogNext == LogInv /\ [Next]_vars => LogInv'
<1> SUFFICES ASSUME LogInv, [Next]_vars PROVE LogInv'
  OBVIOUS
<1>1. CASE UNCHANGED vars
  BY <1>1 DEF LogInv, TypeOK, OwnStage, Recording, SlotsClaimed, HolesLeft,
              EnoughSlots, Claimed, Busy, vars, threadVars
<1> QED BY <1>1, SkipsKeep, ClaimsKeep, FillsKeep, MainKeeps DEF Next

LEMMA LogInit == Init => LogInv
<1> SUFFICES ASSUME Init PROVE LogInv
  OBVIOUS
<1>1. Busy = {}
  BY DEF Init, Busy
<1>2. TypeOK
  BY EventLogAssumption DEF Init, TypeOK
<1>3. EnoughSlots
  BY ClaimedBounded DEF Init, EnoughSlots
<1> QED BY <1>1, <1>2, <1>3 DEF LogInv, OwnStage, SlotsClaimed, HolesLeft, Init

\* The inductive invariant of the log: one thread records a stage, slots are
\* given out from below, and there are at most as many as stages begun.
THEOREM LogInvariant == Spec => []LogInv
BY LogInit, LogNext, PTL DEF Spec

\* Six slots for each transaction are enough, and no two threads share one,
\* without the bounds check that is commented out (pmlog.c:77-80).
THEOREM SlotsSuffice == Spec => []SlotsAreGood
<1>1. LogInv => SlotsAreGood
  <2> SUFFICES ASSUME LogInv, Recording, NEW th \in Busy
               PROVE  /\ writing[th].slot \in Slots /\ buf[writing[th].slot] = Hole
                      /\ \A other \in Busy \ {th} :
                           writing[th].slot # writing[other].slot
    BY DEF SlotsAreGood, Recording
  <2>1. writing[th].slot \in Nat /\ writing[th].slot < num_events
    BY BusyIs DEF LogInv, SlotsClaimed, Claims, Busy
  <2>2. num_events <= NumTxns * 5 /\ num_events \in Nat
    BY ClaimedBounded, EventLogAssumption DEF LogInv, EnoughSlots, TypeOK
  <2>3. writing[th].slot \in Slots
    BY <2>1, <2>2, EventLogAssumption DEF Slots, max_num_events
  <2> QED BY <2>3 DEF LogInv, HolesLeft, SlotsClaimed
<1> QED BY <1>1, LogInvariant, PTL

-----------------------------------------------------------------------------
(* The file.  Its header and its body are counted at different moments.    *)

Announced ==
  /\ mainAt \in {"wait", "join", "sort", "count", "body"} => body = <<>>
  /\ mainAt = "body" => header <= num_events /\ header \in Nat
  /\ body # <<>> => header \in Nat /\ header <= Len(body)

LEMMA AnnouncedNext == LogInv /\ Announced /\ [Next]_vars => Announced'
<1> SUFFICES ASSUME LogInv, Announced, [Next]_vars PROVE Announced'
  OBVIOUS
<1>0. num_events \in Nat
  BY DEF LogInv, TypeOK
<1>1. CASE UNCHANGED <<mainAt, header, body>> /\ num_events' \in {num_events, num_events + 1}
  BY <1>0, <1>1 DEF Announced
<1>2. ASSUME NEW th \in Threads, NEW t \in Txns, RecordSkips(th, t) \/ RecordClaims(th, t)
      PROVE  Announced'
  BY <1>1, <1>2 DEF RecordSkips, RecordClaims, fileVars
<1>3. ASSUME NEW th \in Threads, RecordFills(th) PROVE Announced'
  BY <1>1, <1>3 DEF RecordFills, fileVars
<1>4. CASE MainSucceeds \/ MainGivesUp \/ MainJoins \/ MainSorts \/ MainFrees
             \/ pmlog_cleanup \/ MainReturns \/ MainDumps
  <2>1. /\ UNCHANGED <<header, body>> /\ mainAt' # "body"
        /\ mainAt' \in {"wait", "join", "sort", "count"} =>
             mainAt \in {"wait", "join", "sort", "count"}
    BY <1>4 DEF MainSucceeds, MainGivesUp, MainJoins, MainSorts, MainFrees, pmlog_cleanup,
                MainReturns, MainDumps, fileVars
  <2> QED BY <2>1 DEF Announced
<1>5. CASE SchedulerStops
  BY <1>1, <1>5 DEF SchedulerStops, threadVars, fileVars
<1>6. CASE MainWritesCount
  BY <1>0, <1>6 DEF MainWritesCount, Announced, threadVars
<1>7. CASE MainWritesBody
  <2>1. Len(Recorded) = num_events
    BY <1>0 DEF Recorded
  <2> QED BY <1>7, <2>1 DEF MainWritesBody, Announced, threadVars
<1>8. CASE UNCHANGED vars
  BY <1>1, <1>8 DEF vars, threadVars, fileVars
<1> QED BY <1>2, <1>3, <1>4, <1>5, <1>6, <1>7, <1>8 DEF Next, Main

\* The file never announces more records than follow, also when main has given
\* up and the threads still record (the first half of FileIsReadable).
THEOREM HeaderFits == Spec => [](body # <<>> => header <= Len(body))
<1>1. LogInv /\ Announced /\ [Next]_vars => (LogInv /\ Announced)'
  BY LogNext, AnnouncedNext
<1>2. Init => LogInv /\ Announced
  BY LogInit DEF Init, Announced
<1>3. Announced => (body # <<>> => header <= Len(body))
  BY DEF Announced
<1> QED BY <1>1, <1>2, <1>3, PTL DEF Spec

-----------------------------------------------------------------------------
(* What is in the buffer while the threads record.                         *)

\* The slots whose records are written.
Filled == {s \in Slots : s < num_events /\ \A th \in Busy : writing[th].slot # s}

RecordsTrue ==
  \A s \in Filled :
    /\ buf[s].txn \in Sampled /\ buf[s].tsc \in 1..(now - 1)
    /\ buf[s].kind \in 0..(stage[buf[s].txn] - 1)
    /\ buf[s].kind \in 1..3 => buf[s].aux_data = puppet(buf[s].txn)

RecordsOrdered ==
  \A s, r \in Filled : buf[s].txn = buf[r].txn =>
    /\ buf[s].kind = buf[r].kind => s = r
    /\ buf[s].kind < buf[r].kind => buf[s].tsc <= buf[r].tsc

RecordsComplete ==
  \A t \in Sampled : \A k \in 0..(stage[t] - 1) :
    \E s \in Filled : buf[s].txn = t /\ buf[s].kind = k

OnlySampled == \A th \in Busy : writing[th].txn \in Sampled

KeptRight == OnlySampled /\ RecordsTrue /\ RecordsOrdered /\ RecordsComplete

Kept == Recording => KeptRight

LEMMA KeptSkips ==
  ASSUME LogInv, Kept, NEW th \in Threads, NEW t \in Txns, RecordSkips(th, t)
  PROVE  Kept'
<1>1. /\ stage' = [stage EXCEPT ![t] = @ + 1]
      /\ t \notin Sampled \/ "log" \in freed
      /\ UNCHANGED <<sample_period, writing, num_events, buf, now, mainAt, freed>>
  BY DEF RecordSkips, Unsampled
<1>2. Filled' = Filled /\ Sampled' = Sampled /\ Busy' = Busy
      /\ (Recording' <=> Recording)
  BY <1>1 DEF Filled, Sampled, Busy, Recording
<1> SUFFICES ASSUME Recording PROVE KeptRight'
  BY <1>2 DEF Kept
<1>3. KeptRight /\ t \notin Sampled /\ stage \in [Txns -> 0..5]
  BY <1>1 DEF Kept, LogInv, TypeOK
<1>4. \A u \in Sampled : stage'[u] = stage[u]
  <2>1. \A u \in Sampled : u \in Txns /\ u # t
    BY <1>3 DEF Sampled
  <2> QED BY <1>1, <1>3, <2>1
<1> QED BY <1>1, <1>2, <1>3, <1>4
        DEF KeptRight, OnlySampled, RecordsTrue, RecordsOrdered, RecordsComplete

LEMMA KeptClaims ==
  ASSUME LogInv, Kept, NEW th \in Threads, NEW t \in Txns, RecordClaims(th, t)
  PROVE  Kept'
<1>1. /\ writing' = [writing EXCEPT ![th] = [slot |-> num_events, txn |-> t]]
      /\ num_events' = num_events + 1 /\ writing[th] = Nothing /\ t \in Sampled
      /\ UNCHANGED <<sample_period, stage, buf, now, mainAt, freed>>
  BY DEF RecordClaims, MayRecord, Unsampled
<1>2. TypeOK /\ Sampled' = Sampled /\ (Recording' <=> Recording)
  BY <1>1 DEF LogInv, Sampled, Recording
<1>3. /\ th \notin Busy /\ Busy' = Busy \cup {th}
      /\ writing'[th] = [slot |-> num_events, txn |-> t]
      /\ \A b \in Busy : writing'[b] = writing[b]
  <2>1. [slot |-> num_events, txn |-> t] # Nothing
    BY <1>2 DEF Nothing, TypeOK
  <2> QED BY <1>1, <1>2, <2>1 DEF Busy, TypeOK
<1>4. Filled' = Filled
  BY <1>1, <1>2, <1>3 DEF Filled, Slots, TypeOK
<1> SUFFICES ASSUME Recording, KeptRight PROVE KeptRight'
  BY <1>2 DEF Kept
<1> QED BY <1>1, <1>2, <1>3, <1>4
        DEF KeptRight, OnlySampled, RecordsTrue, RecordsOrdered, RecordsComplete

LEMMA KeptFills ==
  ASSUME LogInv, Kept, NEW th \in Threads, RecordFills(th)
  PROVE  Kept'
<1>s. PICK slot : slot = writing[th].slot
  OBVIOUS
<1>t. PICK t : t = writing[th].txn
  OBVIOUS
<1>r. PICK r : r = [tsc |-> now, txn |-> t, kind |-> stage[t],
                    aux_data |-> IF stage[t] \in 1..3 THEN puppet(t) ELSE -1]
  OBVIOUS
<1>1. /\ writing[th] # Nothing
      /\ buf' = IF "log" \in freed THEN buf ELSE [buf EXCEPT ![slot] = r]
      /\ stage' = [stage EXCEPT ![t] = @ + 1]
      /\ writing' = [writing EXCEPT ![th] = Nothing]
      /\ now' = now + 1
      /\ UNCHANGED <<sample_period, num_events, mainAt, freed>>
  BY <1>s, <1>t, <1>r DEF RecordFills
<1>2. TypeOK /\ th \in Busy /\ t \in Txns /\ slot \in Nat /\ stage[t] < 5
      /\ Sampled' = Sampled /\ (Recording' <=> Recording)
  BY <1>1, <1>s, <1>t, BusyIs DEF LogInv, Claims, OwnStage, Sampled, Recording
<1>3. Busy' = Busy \ {th} /\ \A b \in Busy' : writing'[b] = writing[b]
  BY <1>1, <1>2 DEF Busy, TypeOK
<1> SUFFICES ASSUME Recording PROVE KeptRight'
  BY <1>2 DEF Kept
<1>4. /\ KeptRight /\ SlotsClaimed /\ HolesLeft /\ EnoughSlots
      /\ buf' = [buf EXCEPT ![slot] = r] /\ t \in Sampled
  BY <1>1, <1>2, <1>t DEF Kept, LogInv, TypeOK, KeptRight, OnlySampled
<1>5. slot \in Slots /\ slot < num_events
  <2>1. slot < num_events /\ num_events \in Nat /\ num_events <= NumTxns * 5
    BY <1>2, <1>4, <1>s, ClaimedBounded, EventLogAssumption
       DEF SlotsClaimed, EnoughSlots, TypeOK
  <2> QED BY <1>2, <2>1, EventLogAssumption DEF Slots, max_num_events
<1>6. slot \notin Filled /\ Filled' = Filled \cup {slot}
  <2>1. \A b \in Busy' : b \in Busy /\ b # th /\ writing[b].slot # slot
    BY <1>2, <1>3, <1>4, <1>s DEF SlotsClaimed
  <2>2. \A s \in Slots : s # slot =>
          ((\A b \in Busy : writing[b].slot # s)
             <=> (\A b \in Busy' : writing'[b].slot # s))
    BY <1>2, <1>3, <1>s
  <2> QED BY <1>1, <1>2, <1>3, <1>5, <1>s, <2>1, <2>2 DEF Filled
<1>7. buf'[slot] = r /\ \A s \in Filled : buf'[s] = buf[s] /\ s \in Slots
  BY <1>2, <1>4, <1>5, <1>6 DEF TypeOK, Filled
<1>8. /\ stage[t] \in 0..4 /\ stage'[t] = stage[t] + 1 /\ now \in Nat \ {0}
      /\ \A u \in Sampled : u # t => stage'[u] = stage[u]
      /\ \A u \in Sampled : stage[u] \in 0..5 /\ stage'[u] >= stage[u]
  BY <1>1, <1>2 DEF TypeOK, Sampled
<1>9. r.txn = t /\ r.tsc = now /\ r.kind = stage[t]
      /\ (stage[t] \in 1..3 => r.aux_data = puppet(t))
  BY <1>r
<1>10. RecordsTrue'
  <2>1. ASSUME NEW s \in Filled
        PROVE  /\ buf'[s].txn \in Sampled' /\ buf'[s].tsc \in 1..(now' - 1)
               /\ buf'[s].kind \in 0..(stage'[buf'[s].txn] - 1)
               /\ buf'[s].kind \in 1..3 => buf'[s].aux_data = puppet(buf'[s].txn)
    BY <1>1, <1>2, <1>4, <1>7, <1>8 DEF KeptRight, RecordsTrue
  <2>2. /\ buf'[slot].txn \in Sampled' /\ buf'[slot].tsc \in 1..(now' - 1)
        /\ buf'[slot].kind \in 0..(stage'[buf'[slot].txn] - 1)
        /\ buf'[slot].kind \in 1..3 => buf'[slot].aux_data = puppet(buf'[slot].txn)
    BY <1>1, <1>2, <1>4, <1>7, <1>8, <1>9
  <2> QED BY <1>6, <2>1, <2>2 DEF RecordsTrue, puppet
<1>11. \A s \in Filled : buf[s].txn = t => buf[s].kind < stage[t] /\ buf[s].tsc < now
                                          /\ buf[s].kind \in Nat /\ buf[s].tsc \in Nat
  BY <1>4, <1>8 DEF KeptRight, RecordsTrue
<1>12. RecordsOrdered'
  <2> SUFFICES ASSUME NEW s \in Filled', NEW q \in Filled', buf'[s].txn = buf'[q].txn
               PROVE  /\ buf'[s].kind = buf'[q].kind => s = q
                      /\ buf'[s].kind < buf'[q].kind => buf'[s].tsc <= buf'[q].tsc
    BY DEF RecordsOrdered
  <2>1. CASE s \in Filled /\ q \in Filled
    BY <1>4, <1>7, <2>1 DEF KeptRight, RecordsOrdered
  <2>2. CASE s = slot /\ q \in Filled
    BY <1>7, <1>8, <1>9, <1>11, <2>2
  <2>3. CASE s \in Filled /\ q = slot
    BY <1>7, <1>8, <1>9, <1>11, <2>3
  <2>4. CASE s = slot /\ q = slot
    BY <1>7, <1>8, <1>9, <2>4
  <2> QED BY <1>6, <2>1, <2>2, <2>3, <2>4
<1>13. RecordsComplete'
  <2> SUFFICES ASSUME NEW u \in Sampled, NEW k \in 0..(stage'[u] - 1)
               PROVE  \E s \in Filled' : buf'[s].txn = u /\ buf'[s].kind = k
    BY <1>2 DEF RecordsComplete
  <2>1. CASE k \in 0..(stage[u] - 1)
    <3>1. PICK s \in Filled : buf[s].txn = u /\ buf[s].kind = k
      BY <1>4, <2>1 DEF KeptRight, RecordsComplete
    <3> QED BY <1>6, <1>7, <3>1
  <2>2. CASE k \notin 0..(stage[u] - 1)
    <3>1. u = t /\ k = stage[t]
      BY <1>8, <2>2
    <3> QED BY <1>6, <1>7, <1>9, <3>1
  <2> QED BY <2>1, <2>2
<1>14. OnlySampled'
  BY <1>2, <1>3, <1>4 DEF KeptRight, OnlySampled
<1> QED BY <1>10, <1>12, <1>13, <1>14 DEF KeptRight

LEMMA KeptMain ==
  ASSUME LogInv, Kept, Main
  PROVE  Kept'
<1>1. /\ UNCHANGED <<sample_period, stage, writing, now>>
      /\ Recording' => Recording /\ UNCHANGED <<num_events, buf, freed>>
  BY DEF Main, Recording, MainSucceeds, MainGivesUp, SchedulerStops, MainJoins,
         MainSorts, MainWritesCount, MainWritesBody, MainDumps, MainFrees,
         pmlog_cleanup, MainReturns, threadVars
<1> QED BY <1>1 DEF Kept, KeptRight, OnlySampled, RecordsTrue, RecordsOrdered,
                    RecordsComplete, Filled, Sampled, Busy

LEMMA KeptNext == LogInv /\ Kept /\ [Next]_vars => Kept'
<1> SUFFICES ASSUME LogInv, Kept, [Next]_vars PROVE Kept'
  OBVIOUS
<1>1. CASE UNCHANGED vars
  BY <1>1 DEF Kept, KeptRight, OnlySampled, RecordsTrue, RecordsOrdered, Recording,
              RecordsComplete, Filled, Sampled, Busy, vars, threadVars
<1> QED BY <1>1, KeptSkips, KeptClaims, KeptFills, KeptMain DEF Next

LEMMA KeptInit == Init => Kept
<1> SUFFICES ASSUME Init PROVE KeptRight
  BY DEF Kept
<1>1. Busy = {} /\ Filled = {}
  BY DEF Init, Busy, Filled, Slots
<1>2. \A t \in Sampled : stage[t] = 0
  BY DEF Init, Sampled
<1> QED BY <1>1, <1>2
        DEF KeptRight, OnlySampled, RecordsTrue, RecordsOrdered, RecordsComplete

-----------------------------------------------------------------------------
(* From a success to the end of main.                                      *)

\* What a log shows, or the buffer when the threads are done.
TrueRecord(sampled, r) ==
  /\ r.txn \in sampled /\ r.tsc \in Int
  /\ r.kind \in 0..4
  /\ r.kind \in 1..3 => r.aux_data = puppet(r.txn)

ShowsAll(sampled, rs, n) ==
  /\ DOMAIN rs = 1..n
  /\ \A i \in 1..n : TrueRecord(sampled, rs[i])
  /\ \A i, j \in 1..n : rs[i].txn = rs[j].txn =>
       /\ rs[i].kind = rs[j].kind => i = j
       /\ rs[i].kind < rs[j].kind => rs[i].tsc <= rs[j].tsc
  /\ \A t \in sampled, k \in 0..3 : \E i \in 1..n : rs[i].txn = t /\ rs[i].kind = k

InOrder(rs, n) == \A i, j \in 1..n : i <= j => rs[i].tsc <= rs[j].tsc

Written == mainAt \in {"dump", "free", "cleanup", "return", "exited"}
Logged  == mainAt \in {"sort", "count", "body", "dump", "free", "cleanup"}

AfterSuccess ==
  success =>
    /\ mainAt # "wait" /\ \A t \in Txns : stage[t] >= 4
    /\ mainAt # "join" => stopped /\ Busy = {}
    /\ Logged => num_events <= max_num_events /\ ShowsAll(Sampled, Recorded, num_events)
    /\ mainAt \in {"count", "body", "dump"} => InOrder(Recorded, num_events)
    /\ mainAt \in {"body", "dump"} => header = num_events
    /\ mainAt = "dump" => body = Recorded
    /\ Written => header \in Nat /\ ShowsAll(Sampled, body, header)
                    /\ body = [i \in 1..header |-> body[i]]
    /\ ~ Written => body = <<>>
    /\ mainAt \in {"free", "cleanup", "return", "exited"} => text = body
    /\ mainAt \notin {"free", "cleanup", "return", "exited"} => text = <<>>

NothingWritten == mainAt \in {"wait", "join"} => body = <<>> /\ text = <<>>

LEMMA NothingWrittenNext == NothingWritten /\ [Next]_vars => NothingWritten'
<1> SUFFICES ASSUME NothingWritten, [Next]_vars, mainAt' \in {"wait", "join"}
             PROVE  body' = <<>> /\ text' = <<>>
  BY DEF NothingWritten
<1>1. UNCHANGED <<body, text>> /\ mainAt \in {"wait", "join"}
  BY DEF Next, RecordSkips, RecordClaims, RecordFills, Main, MainSucceeds, MainGivesUp,
         SchedulerStops, MainJoins, MainSorts, MainWritesCount, MainWritesBody,
         MainDumps, MainFrees, pmlog_cleanup, MainReturns, fileVars, vars
<1> QED BY <1>1 DEF NothingWritten

\* Once the threads are done there is nothing left to record.
LEMMA NoRecordAfter ==
  ASSUME LogInv, AfterSuccess, success, mainAt \notin {"wait", "join"},
         NEW th \in Threads, NEW t \in Txns,
         RecordSkips(th, t) \/ RecordClaims(th, t) \/ RecordFills(th)
  PROVE  FALSE
<1>1. stopped /\ Busy = {} /\ stage[t] >= 4 /\ stage[t] \in 0..5
  BY DEF AfterSuccess, LogInv, TypeOK
<1>2. ~ RecordFills(th)
  BY <1>1 DEF RecordFills, Busy
<1>3. MayRecord(th, t)
  BY <1>2 DEF RecordSkips, RecordClaims
<1>5. stage[t] = 4 /\ Recorder(t) = th /\ (th = Scheduler => ~ stopped)
  BY <1>1, <1>3 DEF MayRecord
<1>4. th = Scheduler
  BY <1>5 DEF Recorder
<1> QED BY <1>1, <1>4, <1>5

\* While main waits for the scheduler, stages only grow.
LEMMA StagesGrow ==
  ASSUME LogInv, NEW th \in Threads,
         RecordFills(th) \/ \E t \in Txns : RecordSkips(th, t) \/ RecordClaims(th, t)
  PROVE  \A u \in Txns : stage'[u] >= stage[u]
<1>1. stage \in [Txns -> 0..5]
  BY DEF LogInv, TypeOK
<1>2. \A t : stage' = [stage EXCEPT ![t] = @ + 1] => \A u \in Txns : stage'[u] >= stage[u]
  BY <1>1
<1>3. \/ stage' = stage
      \/ \E t : stage' = [stage EXCEPT ![t] = @ + 1]
  BY DEF RecordFills, RecordSkips, RecordClaims
<1> QED BY <1>1, <1>2, <1>3

LEMMA ThreadsAfter ==
  ASSUME LogInv, AfterSuccess, NEW th \in Threads,
         RecordFills(th) \/ \E t \in Txns : RecordSkips(th, t) \/ RecordClaims(th, t)
  PROVE  AfterSuccess'
<1> SUFFICES ASSUME success' PROVE AfterSuccess'
  BY DEF AfterSuccess
<1>1. UNCHANGED <<mainAt, stopped, success, header, body, text>>
  BY DEF RecordFills, RecordSkips, RecordClaims, fileVars
<1>2. mainAt = "join"
  <2>1. 0 \in Txns
    BY EventLogAssumption DEF Txns
  <2> QED BY <1>1, <2>1, NoRecordAfter DEF AfterSuccess
<1>3. \A t \in Txns : stage[t] >= 4 /\ stage'[t] >= stage[t] /\ stage[t] \in Nat
                      /\ stage'[t] \in Nat
  <2>1. LogInv'
    BY SkipsKeep, ClaimsKeep, FillsKeep
  <2> QED BY <1>1, <2>1, StagesGrow DEF AfterSuccess, LogInv, TypeOK
<1>4. body = <<>> /\ text = <<>>
  BY <1>1, <1>2 DEF AfterSuccess, Written
<1> QED BY <1>1, <1>2, <1>3, <1>4 DEF AfterSuccess, Written, Logged

\* The buffer when the scheduler has been joined.
LEMMA JoinedShowsAll ==
  ASSUME LogInv, Kept, Recording, Busy = {}, \A t \in Txns : stage[t] >= 4
  PROVE  num_events <= max_num_events /\ ShowsAll(Sampled, Recorded, num_events)
<1>1. KeptRight /\ TypeOK /\ EnoughSlots
  BY DEF Kept, LogInv
<1>2. num_events \in Nat /\ num_events <= NumTxns * 5 /\ now \in Nat
  BY <1>1, ClaimedBounded, EventLogAssumption DEF EnoughSlots, TypeOK
<1>3. num_events <= max_num_events
  BY <1>2, EventLogAssumption DEF max_num_events
<1>4. Filled = {s \in Int : 0 <= s /\ s < num_events}
  BY <1>2, <1>3, EventLogAssumption DEF Filled, Slots, max_num_events
<1>5. \A i \in 1..num_events : i - 1 \in Filled /\ Recorded[i] = buf[i - 1]
  BY <1>2, <1>4 DEF Recorded
<1>6. \A s \in Filled : s + 1 \in 1..num_events /\ Recorded[s + 1] = buf[s]
  BY <1>2, <1>4 DEF Recorded
<1>7. \A t \in Sampled : t \in Txns /\ stage[t] \in 4..5
  BY <1>1 DEF Sampled, TypeOK
<1>8. \A s \in Filled : TrueRecord(Sampled, buf[s])
  BY <1>1, <1>2, <1>7 DEF KeptRight, RecordsTrue, TrueRecord
<1>9. ASSUME NEW i \in 1..num_events, NEW j \in 1..num_events,
             Recorded[i].txn = Recorded[j].txn
      PROVE  /\ Recorded[i].kind = Recorded[j].kind => i = j
             /\ Recorded[i].kind < Recorded[j].kind => Recorded[i].tsc <= Recorded[j].tsc
  <2>1. i - 1 \in Filled /\ j - 1 \in Filled /\ Recorded[i] = buf[i - 1]
        /\ Recorded[j] = buf[j - 1]
    BY <1>5
  <2>2. /\ buf[i - 1].kind = buf[j - 1].kind => i - 1 = j - 1
        /\ buf[i - 1].kind < buf[j - 1].kind => buf[i - 1].tsc <= buf[j - 1].tsc
    BY <1>1, <1>9, <2>1 DEF KeptRight, RecordsOrdered
  <2> QED BY <2>1, <2>2
<1>10. ASSUME NEW t \in Sampled, NEW k \in 0..3
       PROVE  \E i \in 1..num_events : Recorded[i].txn = t /\ Recorded[i].kind = k
  <2>1. k \in 0..(stage[t] - 1)
    BY <1>7
  <2>2. PICK s \in Filled : buf[s].txn = t /\ buf[s].kind = k
    BY <1>1, <2>1 DEF KeptRight, RecordsComplete
  <2> QED BY <1>6, <2>2
<1>11. DOMAIN Recorded = 1..num_events
  BY DEF Recorded
<1>12. \A i \in 1..num_events : TrueRecord(Sampled, Recorded[i])
  BY <1>5, <1>8
<1> HIDE DEF Recorded
<1> QED BY <1>3, <1>9, <1>10, <1>11, <1>12 DEF ShowsAll

\* Sorting changes nothing of it.
LEMMA SortedShowsAll ==
  ASSUME NEW n \in Nat, NEW sampled, NEW rs, ShowsAll(sampled, rs, n)
  PROVE  ShowsAll(sampled, SortedByTsc(rs), n) /\ InOrder(SortedByTsc(rs), n)
<1>1. Data!Timed(rs, n)
  BY DEF ShowsAll, TrueRecord, Data!Timed
<1> DEFINE u == SortedByTsc(rs)
<1>3. /\ DOMAIN u = 1..n /\ Data!Permuted(u, rs, n)
      /\ \A i, j \in 1..n : i <= j => u[i].tsc <= u[j].tsc
  BY <1>1, SortsAlike, Data!SortingPermutes
<1> HIDE DEF u
<1>2. PICK from \in [1..n -> 1..n] :
         /\ \A k \in 1..n : u[k] = rs[from[k]]
         /\ \A k, l \in 1..n : from[k] = from[l] => k = l
         /\ \A i \in 1..n : \E k \in 1..n : from[k] = i
  BY <1>3 DEF Data!Permuted
<1>4. \A k \in 1..n : from[k] \in 1..n
  BY <1>2
<1>5. ASSUME NEW i \in 1..n, NEW j \in 1..n, u[i].txn = u[j].txn
      PROVE  /\ u[i].kind = u[j].kind => i = j
             /\ u[i].kind < u[j].kind => u[i].tsc <= u[j].tsc
  <2>1. /\ rs[from[i]].kind = rs[from[j]].kind => from[i] = from[j]
        /\ rs[from[i]].kind < rs[from[j]].kind => rs[from[i]].tsc <= rs[from[j]].tsc
    BY <1>2, <1>4, <1>5 DEF ShowsAll
  <2> QED BY <1>2, <2>1
<1>6. ASSUME NEW t \in sampled, NEW k \in 0..3
      PROVE  \E i \in 1..n : u[i].txn = t /\ u[i].kind = k
  <2>1. PICK i \in 1..n : rs[i].txn = t /\ rs[i].kind = k
    BY DEF ShowsAll
  <2>2. PICK l \in 1..n : from[l] = i
    BY <1>2
  <2> QED BY <1>2, <2>1, <2>2
<1>7. \A i \in 1..n : TrueRecord(sampled, u[i])
  BY <1>2, <1>4 DEF ShowsAll
<1>8. ShowsAll(sampled, u, n)
  BY <1>3, <1>5, <1>6, <1>7 DEF ShowsAll
<1> QED BY <1>3, <1>8 DEF u, InOrder

\* After SortBuffer the records are the sorted ones.
LEMMA SortBufferSorts ==
  ASSUME num_events \in Nat, num_events <= max_num_events, SortBuffer,
         num_events' = num_events
  PROVE  Recorded' = SortedByTsc(Recorded)
<1> DEFINE u == SortedByTsc(Recorded)
<1>1. DOMAIN Recorded = 1..num_events
  BY DEF Recorded
<1>2. u = [k \in 1..num_events |-> u[k]]
  BY <1>1 DEF SortedByTsc
<1>3. buf' = [i \in Slots |-> IF i < num_events THEN u[i + 1] ELSE buf[i]]
  BY DEF SortBuffer
<1> HIDE DEF u
<1>4. ASSUME NEW i \in 1..num_events PROVE buf'[i - 1] = u[i]
  <2>1. i - 1 \in Slots /\ i - 1 < num_events /\ i - 1 + 1 = i
    BY EventLogAssumption DEF Slots, max_num_events
  <2> QED BY <1>3, <2>1
<1>5. Recorded' = [i \in 1..num_events |-> buf'[i - 1]]
  BY DEF Recorded
<1>6. Recorded' = [i \in 1..num_events |-> u[i]]
  BY <1>4, <1>5
<1> QED BY <1>2, <1>6 DEF u

LEMMA MainAfter ==
  ASSUME LogInv, Kept, NothingWritten, AfterSuccess, Main
  PROVE  AfterSuccess'
<1> SUFFICES ASSUME success' PROVE AfterSuccess'
  BY DEF AfterSuccess
<1>0. /\ num_events \in Nat /\ stage \in [Txns -> 0..5]
      /\ DOMAIN Recorded = 1..num_events
      /\ Recorded = [i \in 1..num_events |-> Recorded[i]]
      /\ max_num_events' = max_num_events
  BY DEF LogInv, TypeOK, Recorded
<1>1. CASE MainSucceeds
  <2>1. /\ mainAt = "wait" /\ mainAt' = "join" /\ \A t \in Txns : stage[t] >= 4
        /\ UNCHANGED <<stage, header, body, text>>
    BY <1>1 DEF MainSucceeds, threadVars, fileVars
  <2>2. body = <<>> /\ text = <<>>
    BY <2>1 DEF NothingWritten
  <2> QED BY <2>1, <2>2 DEF AfterSuccess, Written, Logged
<1>2. CASE MainGivesUp
  BY <1>2 DEF MainGivesUp, AfterSuccess
<1>3. CASE SchedulerStops
  <2>1. /\ mainAt = "join" /\ mainAt' = "join" /\ success
        /\ UNCHANGED <<stage, header, body, text>>
    BY <1>3 DEF SchedulerStops, threadVars, fileVars
  <2> QED BY <2>1 DEF AfterSuccess, Written, Logged
<1>4. CASE MainJoins
  <2>1. /\ mainAt = "join" /\ mainAt' = "sort" /\ success /\ stopped /\ Busy = {}
        /\ UNCHANGED <<sample_period, stage, writing, num_events, buf, stopped, header,
                      body, text>>
    BY <1>4 DEF MainJoins, threadVars, fileVars
  <2>2. num_events <= max_num_events /\ ShowsAll(Sampled, Recorded, num_events)
    BY <2>1, JoinedShowsAll DEF AfterSuccess, Recording
  <2>3. Recorded' = Recorded /\ Busy' = {} /\ Sampled' = Sampled
    BY <2>1 DEF Recorded, Busy, Sampled
  <2> QED BY <1>0, <2>1, <2>2, <2>3 DEF AfterSuccess, Written, Logged
<1>5. CASE MainSorts
  <2>1. /\ mainAt = "sort" /\ mainAt' = "count" /\ success /\ SortBuffer
        /\ UNCHANGED <<sample_period, stage, writing, num_events, stopped, header, body,
                      text>>
    BY <1>5 DEF MainSorts, fileVars
  <2>2. num_events <= max_num_events /\ ShowsAll(Sampled, Recorded, num_events)
    BY <2>1 DEF AfterSuccess, Logged
  <2>3. Recorded' = SortedByTsc(Recorded) /\ Busy' = Busy /\ Sampled' = Sampled
    BY <1>0, <2>1, <2>2, SortBufferSorts DEF Busy, Sampled
  <2>4. ShowsAll(Sampled, Recorded', num_events) /\ InOrder(Recorded', num_events)
    BY <1>0, <2>2, <2>3, SortedShowsAll
  <2> QED BY <1>0, <2>1, <2>2, <2>3, <2>4 DEF AfterSuccess, Written, Logged
<1>6. CASE MainWritesCount
  <2>1. /\ mainAt = "count" /\ mainAt' = "body" /\ success /\ header' = num_events
        /\ UNCHANGED <<sample_period, stage, writing, num_events, buf, stopped, body, text>>
    BY <1>6 DEF MainWritesCount, threadVars
  <2>2. Recorded' = Recorded /\ Busy' = Busy /\ Sampled' = Sampled
    BY <2>1 DEF Recorded, Busy, Sampled
  <2> QED BY <1>0, <2>1, <2>2 DEF AfterSuccess, Written, Logged
<1>7. CASE MainWritesBody
  <2>1. /\ mainAt = "body" /\ mainAt' = "dump" /\ success /\ body' = Recorded
        /\ UNCHANGED <<sample_period, stage, writing, num_events, buf, stopped, header, text>>
    BY <1>7 DEF MainWritesBody, threadVars
  <2>2. Recorded' = Recorded /\ Busy' = Busy /\ Sampled' = Sampled
    BY <2>1 DEF Recorded, Busy, Sampled
  <2> QED BY <1>0, <2>1, <2>2 DEF AfterSuccess, Written, Logged
<1>8. CASE MainDumps
  <2>1. /\ mainAt = "dump" /\ mainAt' = "free" /\ success /\ SortBuffer
        /\ text' = SortedByTsc(Recorded)
        /\ UNCHANGED <<sample_period, stage, writing, num_events, stopped, header, body>>
    BY <1>8 DEF MainDumps
  <2>2. /\ num_events <= max_num_events /\ ShowsAll(Sampled, Recorded, num_events)
        /\ InOrder(Recorded, num_events) /\ body = Recorded
    BY <2>1 DEF AfterSuccess, Logged
  <2>3. SortedByTsc(Recorded) = Recorded
    BY <1>0, <2>2, SortsAlike, Data!SortingTwice DEF ShowsAll, TrueRecord, InOrder,
                             Data!Timed
  <2>4. Recorded' = Recorded /\ Busy' = Busy /\ Sampled' = Sampled
    BY <1>0, <2>1, <2>2, <2>3, SortBufferSorts DEF Busy, Sampled
  <2> QED BY <1>0, <2>1, <2>2, <2>3, <2>4 DEF AfterSuccess, Written, Logged
<1>9. CASE MainFrees
  <2>1. /\ mainAt = "free" /\ mainAt' = "cleanup" /\ success
        /\ UNCHANGED <<sample_period, stage, writing, num_events, buf, stopped, header, body,
                      text>>
    BY <1>9 DEF MainFrees, threadVars, fileVars
  <2>2. Recorded' = Recorded /\ Busy' = Busy /\ Sampled' = Sampled
    BY <2>1 DEF Recorded, Busy, Sampled
  <2> QED BY <1>0, <2>1, <2>2 DEF AfterSuccess, Written, Logged
<1>10. CASE pmlog_cleanup \/ MainReturns
  <2>1. /\ mainAt \in {"cleanup", "return"} /\ mainAt' \in {"return", "exited"} /\ success
        /\ UNCHANGED <<sample_period, stage, writing, stopped, header, body, text>>
    BY <1>10 DEF pmlog_cleanup, MainReturns, threadVars, fileVars
  <2>2. Busy' = Busy /\ Sampled' = Sampled
    BY <2>1 DEF Busy, Sampled
  <2> QED BY <2>1, <2>2 DEF AfterSuccess, Written, Logged
<1> QED BY <1>1, <1>2, <1>3, <1>4, <1>5, <1>6, <1>7, <1>8, <1>9, <1>10 DEF Main

LEMMA AfterNext ==
  LogInv /\ Kept /\ NothingWritten /\ AfterSuccess /\ [Next]_vars => AfterSuccess'
<1> SUFFICES ASSUME LogInv, Kept, NothingWritten, AfterSuccess, [Next]_vars
             PROVE  AfterSuccess'
  OBVIOUS
<1>1. CASE UNCHANGED vars
  <2>1. UNCHANGED <<sample_period, stage, writing, num_events, buf, mainAt, stopped, success,
                    header, body, text>>
    BY <1>1 DEF vars, threadVars, fileVars
  <2>2. Recorded' = Recorded /\ Busy' = Busy /\ Sampled' = Sampled
    BY <2>1 DEF Recorded, Busy, Sampled
  <2> QED BY <2>1, <2>2 DEF AfterSuccess, Written, Logged, max_num_events
<1> QED BY <1>1, ThreadsAfter, MainAfter DEF Next

LogWritten == LogInv /\ Announced /\ Kept /\ NothingWritten /\ AfterSuccess

\* The inductive invariant of the buffer and of the files that are made of it:
\* what the threads have filled in is true, in order and complete, and after a
\* success it is passed on without a loss.
THEOREM LogWrittenInvariant == Spec => []LogWritten
<1>1. Init => LogWritten
  <2> SUFFICES ASSUME Init PROVE LogWritten
    OBVIOUS
  <2>1. Announced /\ NothingWritten /\ AfterSuccess
    BY DEF Init, Announced, NothingWritten, AfterSuccess
  <2> QED BY <2>1, LogInit, KeptInit DEF LogWritten
<1>2. LogWritten /\ [Next]_vars => LogWritten'
  BY LogNext, AnnouncedNext, KeptNext, NothingWrittenNext, AfterNext DEF LogWritten
<1> QED BY <1>1, <1>2, PTL DEF Spec

LEMMA BodyIsShown ==
  ASSUME LogWritten, success, body # <<>>
  PROVE  /\ header \in Nat /\ header = Len(body) /\ header = Len(pmlog_read)
         /\ ShowsAll(Sampled, pmlog_read, header)
<1>1. /\ header \in Nat /\ ShowsAll(Sampled, body, header)
      /\ body = [i \in 1..header |-> body[i]]
  BY DEF LogWritten, AfterSuccess
<1> DEFINE b == [i \in 1..header |-> body[i]]
<1>2. Len(b) = header /\ SubSeq(b, 1, header) = b
  BY <1>1
<1> QED BY <1>1, <1>2 DEF pmlog_read

\* The log can be read whatever the end of the run, and after a success it
\* shows every stage of every sampled transaction, once and in order.
THEOREM LogCanBeAnalyzed == Spec => []LogIsSound
<1>1. LogWritten => FileIsReadable
  <2> SUFFICES ASSUME LogWritten PROVE FileIsReadable
    OBVIOUS
  <2>1. body # <<>> => header <= Len(body)
    BY DEF LogWritten, Announced
  <2>2. ASSUME success, text # <<>> PROVE header = Len(body) /\ text = body
    <3>1. text = body
      BY <2>2 DEF LogWritten, AfterSuccess
    <3> QED BY <2>2, <3>1, BodyIsShown
  <2> QED BY <2>1, <2>2 DEF FileIsReadable
<1>2. LogWritten => SuccessIsOrdered
  <2> SUFFICES ASSUME LogWritten, success, body # <<>> PROVE SuccessIsOrdered
    BY DEF SuccessIsOrdered
  <2> DEFINE log      == pmlog_read
             Shown(t) == {i \in 1..Len(log) : log[i].txn = t}
  <2>1. Len(log) = header /\ ShowsAll(Sampled, log, header)
    BY BodyIsShown
  <2> HIDE DEF log
  <2>2. ASSUME NEW t \in Txns, t \notin Sampled PROVE Shown(t) = {}
    BY <2>1, <2>2 DEF ShowsAll, TrueRecord
  <2>3. ASSUME NEW t \in Sampled, NEW k \in 0..3
        PROVE  \E i \in Shown(t) : {j \in Shown(t) : log[j].kind = k} = {i}
    <3>1. PICK i \in 1..Len(log) : log[i].txn = t /\ log[i].kind = k
      BY <2>1 DEF ShowsAll
    <3>2. \A j \in Shown(t) : log[j].kind = k => j = i
      BY <2>1, <3>1 DEF ShowsAll
    <3> QED BY <3>1, <3>2
  <2>4. ASSUME NEW t \in Sampled, NEW i \in Shown(t), NEW j \in Shown(t)
        PROVE  /\ log[i].kind < log[j].kind => log[i].tsc <= log[j].tsc
               /\ log[i].kind = 2 /\ log[j].kind = 3 =>
                    log[i].aux_data = log[j].aux_data
    <3>1. /\ TrueRecord(Sampled, log[i]) /\ TrueRecord(Sampled, log[j])
          /\ log[i].txn = t /\ log[j].txn = t
      BY <2>1 DEF ShowsAll
    <3>2. log[i].kind < log[j].kind => log[i].tsc <= log[j].tsc
      BY <2>1, <3>1 DEF ShowsAll
    <3> QED BY <3>1, <3>2 DEF TrueRecord
  <2> HIDE DEF Shown
  <2>5. \A t \in Txns :
          IF t \notin Sampled THEN Shown(t) = {}
          ELSE /\ \A k \in 0..3 :
                    \E i \in Shown(t) : {j \in Shown(t) : log[j].kind = k} = {i}
               /\ \A i, j \in Shown(t) :
                    /\ log[i].kind < log[j].kind => log[i].tsc <= log[j].tsc
                    /\ log[i].kind = 2 /\ log[j].kind = 3 =>
                         log[i].aux_data = log[j].aux_data
    BY <2>2, <2>3, <2>4
  <2> QED BY <2>5 DEF SuccessIsOrdered, Shown, log
<1>3. LogWritten => LogIsSound
  BY <1>1, <1>2 DEF LogIsSound
<1> QED BY <1>3, LogWrittenInvariant, PTL
=============================================================================
