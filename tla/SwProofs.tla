------------------------------ MODULE SwProofs ------------------------------
(***************************************************************************)
(* The software scheduler's safety, for every workload, number of puppets  *)
(* and queue size.  The argument turns on one sequence per puppet, the     *)
(* Pipeline: what has been reported, is executing, is scheduled and is     *)
(* taken, in this order.  Only the scheduler's Take and DrainDeq change    *)
(* it, at opposite ends, and while the queues exist it is the scheduler's  *)
(* private active list.                                                    *)
(***************************************************************************)
EXTENDS SwProperties, SequenceTheorems, FiniteSetTheorems, TLAPS

Pipeline(p) == done[p] \o OptSeq(puppetTxn[p]) \o sched[p] \o Unpublished(p)

PipelineIsActive == ~ freed => \A p \in Puppets : active[p] = Pipeline(p)

PipelineFits == \A p \in Puppets : Len(Pipeline(p)) <= ActiveCapacity

PipelineCompatible ==
  \A p, q \in Puppets :
    \A t \in RangeOf(Pipeline(p)), u \in RangeOf(Pipeline(q)) :
      t # u => ~ check_txn_conflict(t, u)

FreedAfterJoin == freed => schedPc = "exited"

IInv == TypeOK /\ PipelineIsActive /\ PipelineFits /\ PipelineCompatible
               /\ FreedAfterJoin

-----------------------------------------------------------------------------
(* Sequences.                                                              *)

LEMMA ConcatTail ==
  ASSUME NEW S, NEW s \in Seq(S), NEW t \in Seq(S), s # <<>>
  PROVE  /\ s \o t # <<>>
         /\ Head(s \o t) = Head(s)
         /\ Tail(s \o t) = Tail(s) \o t
<1>1. s \o t \in Seq(S) /\ Len(s \o t) = Len(s) + Len(t)
      /\ \A i \in 1..(Len(s) + Len(t)) :
           (s \o t)[i] = IF i <= Len(s) THEN s[i] ELSE t[i - Len(s)]
  BY ConcatProperties
<1>2. Len(s) \in Nat \ {0} /\ Len(t) \in Nat
  BY EmptySeq, LenProperties
<1>3. s \o t # <<>> /\ Head(s \o t) = Head(s)
  BY <1>1, <1>2, EmptySeq
<1>4. /\ Tail(s) \in Seq(S) /\ Len(Tail(s)) = Len(s) - 1
      /\ \A i \in 1..Len(Tail(s)) : Tail(s)[i] = s[i + 1]
  BY HeadTailProperties
<1>5. /\ Tail(s \o t) \in Seq(S) /\ Len(Tail(s \o t)) = Len(s \o t) - 1
      /\ \A i \in 1..Len(Tail(s \o t)) : Tail(s \o t)[i] = (s \o t)[i + 1]
  BY <1>1, <1>3, HeadTailProperties
<1>6. /\ Tail(s) \o t \in Seq(S) /\ Len(Tail(s) \o t) = Len(Tail(s)) + Len(t)
      /\ \A i \in 1..(Len(Tail(s)) + Len(t)) : (Tail(s) \o t)[i] =
           IF i <= Len(Tail(s)) THEN Tail(s)[i] ELSE t[i - Len(Tail(s))]
  BY <1>4, ConcatProperties
<1>7. Len(Tail(s \o t)) = Len(Tail(s) \o t)
  BY <1>1, <1>2, <1>4, <1>5, <1>6
<1>8. ASSUME NEW i \in 1..Len(Tail(s \o t))
      PROVE  Tail(s \o t)[i] = (Tail(s) \o t)[i]
  BY <1>1, <1>2, <1>4, <1>5, <1>6
<1>9. Tail(s \o t) = Tail(s) \o t
  BY <1>5, <1>6, <1>7, <1>8, SeqEqual
<1> QED BY <1>3, <1>9

LEMMA HeadAndTail ==
  ASSUME NEW S, NEW s \in Seq(S), s # <<>>
  PROVE  s = <<Head(s)>> \o Tail(s)
<1>1. Head(s) \in S /\ Tail(s) \in Seq(S) /\ Len(Tail(s)) = Len(s) - 1
      /\ \A i \in 1..Len(Tail(s)) : Tail(s)[i] = s[i + 1]
  BY HeadTailProperties
<1>2. <<Head(s)>> \in Seq(S) /\ Len(<<Head(s)>>) = 1
  BY <1>1
<1>3. /\ <<Head(s)>> \o Tail(s) \in Seq(S)
      /\ Len(<<Head(s)>> \o Tail(s)) = 1 + Len(Tail(s))
      /\ \A i \in 1..(1 + Len(Tail(s))) : (<<Head(s)>> \o Tail(s))[i] =
           IF i <= 1 THEN <<Head(s)>>[i] ELSE Tail(s)[i - 1]
  BY <1>1, <1>2, ConcatProperties
<1>4. Len(s) \in Nat \ {0}
  BY EmptySeq
<1>5. ASSUME NEW i \in 1..Len(s) PROVE s[i] = (<<Head(s)>> \o Tail(s))[i]
  BY <1>1, <1>3, <1>4
<1> QED BY <1>1, <1>3, <1>4, <1>5, SeqEqual

LEMMA RangeAppend ==
  ASSUME NEW S, NEW s \in Seq(S), NEW e \in S
  PROVE  RangeOf(Append(s, e)) = RangeOf(s) \cup {e}
<1>1. /\ Len(Append(s, e)) = Len(s) + 1 /\ Len(s) \in Nat
      /\ \A i \in 1..Len(s) : Append(s, e)[i] = s[i]
      /\ Append(s, e)[Len(s) + 1] = e
  BY AppendProperties, LenProperties
<1> QED BY <1>1 DEF RangeOf

LEMMA RangeTail ==
  ASSUME NEW S, NEW s \in Seq(S), s # <<>>
  PROVE  RangeOf(Tail(s)) \subseteq RangeOf(s)
<1>1. /\ Len(Tail(s)) = Len(s) - 1 /\ Len(s) \in Nat
      /\ \A i \in 1..Len(Tail(s)) : Tail(s)[i] = s[i + 1]
  BY HeadTailProperties, LenProperties
<1> QED BY <1>1 DEF RangeOf

LEMMA RangeConcat ==
  ASSUME NEW S, NEW s \in Seq(S), NEW t \in Seq(S)
  PROVE  RangeOf(s \o t) = RangeOf(s) \cup RangeOf(t)
<1>1. /\ Len(s \o t) = Len(s) + Len(t) /\ Len(s) \in Nat /\ Len(t) \in Nat
      /\ \A i \in 1..(Len(s) + Len(t)) :
           (s \o t)[i] = IF i <= Len(s) THEN s[i] ELSE t[i - Len(s)]
  BY ConcatProperties, LenProperties
<1>2. ASSUME NEW i \in 1..Len(t)
      PROVE  Len(s) + i \in 1..Len(s \o t) /\ (s \o t)[Len(s) + i] = t[i]
  BY <1>1
<1>3. RangeOf(t) \subseteq RangeOf(s \o t)
  BY <1>2 DEF RangeOf
<1>4. RangeOf(s) \subseteq RangeOf(s \o t)
  BY <1>1 DEF RangeOf
<1>5. RangeOf(s \o t) \subseteq RangeOf(s) \cup RangeOf(t)
  <2> SUFFICES ASSUME NEW i \in 1..Len(s \o t)
               PROVE  (s \o t)[i] \in RangeOf(s) \cup RangeOf(t)
    BY DEF RangeOf
  <2>1. CASE i <= Len(s)
    BY <2>1, <1>1 DEF RangeOf
  <2>2. CASE i > Len(s)
    <3>1. i - Len(s) \in 1..Len(t) /\ (s \o t)[i] = t[i - Len(s)]
      BY <2>2, <1>1
    <3> QED BY <3>1 DEF RangeOf
  <2> QED BY <2>1, <2>2, <1>1
<1> QED BY <1>3, <1>4, <1>5

\* Moving an element across the boundary of two neighbours keeps the whole.
LEMMA ConcatAppend ==
  ASSUME NEW S, NEW s \in Seq(S), NEW t \in Seq(S), NEW e \in S
  PROVE  s \o Append(t, e) = Append(s \o t, e)
<1>1. <<e>> \in Seq(S)
  OBVIOUS
<1>2. s \o t \in Seq(S)
  BY ConcatProperties
<1>3. s \o Append(t, e) = s \o (t \o <<e>>)
  BY AppendIsConcat
<1>4. (s \o t) \o <<e>> = s \o (t \o <<e>>)
  BY <1>1, ConcatAssociative
<1>5. Append(s \o t, e) = (s \o t) \o <<e>>
  BY <1>2, AppendIsConcat
<1> QED BY <1>3, <1>4, <1>5

LEMMA ConflictSymmetric ==
  ASSUME NEW t \in Txns, NEW u \in Txns
  PROVE  check_txn_conflict(t, u) <=> check_txn_conflict(u, t)
BY DEF check_txn_conflict

LEMMA NoTxnNotTxn == NoTxn \notin Txns
BY DEF NoTxn, Txns

LEMMA OptSeqType ==
  ASSUME NEW t \in Txns \cup {NoTxn}
  PROVE  /\ OptSeq(t) \in Seq(Txns)
         /\ RangeOf(OptSeq(t)) = {t} \ {NoTxn}
<1>1. CASE t = NoTxn
  BY <1>1 DEF OptSeq, RangeOf
<1>2. CASE t # NoTxn
  <2>1. OptSeq(t) = <<t>> /\ t \in Txns
    BY <1>2 DEF OptSeq
  <2>2. <<t>> \in Seq(Txns) /\ Len(<<t>>) = 1 /\ <<t>>[1] = t
    BY <2>1
  <2>3. RangeOf(<<t>>) = {t}
    BY <2>2 DEF RangeOf
  <2> QED BY <2>1, <2>2, <2>3, <1>2
<1> QED BY <1>1, <1>2

\* The pipeline is a sequence of transactions, and what is in it.
LEMMA PipelineType ==
  ASSUME TypeOK, NEW p \in Puppets
  PROVE  /\ OptSeq(puppetTxn[p]) \in Seq(Txns)
         /\ Unpublished(p) \in Seq(Txns)
         /\ done[p] \o OptSeq(puppetTxn[p]) \in Seq(Txns)
         /\ done[p] \o OptSeq(puppetTxn[p]) \o sched[p] \in Seq(Txns)
         /\ Pipeline(p) \in Seq(Txns)
<1>1. /\ done[p] \in Seq(Txns) /\ sched[p] \in Seq(Txns)
      /\ puppetTxn[p] \in Txns \cup {NoTxn} /\ taken \in Txns \cup {NoTxn}
  BY DEF TypeOK
<1>2. OptSeq(puppetTxn[p]) \in Seq(Txns) /\ Unpublished(p) \in Seq(Txns)
  BY <1>1, OptSeqType DEF Unpublished
<1>3. done[p] \o OptSeq(puppetTxn[p]) \in Seq(Txns)
  BY <1>1, <1>2, ConcatProperties
<1>4. done[p] \o OptSeq(puppetTxn[p]) \o sched[p] \in Seq(Txns)
  BY <1>1, <1>3, ConcatProperties
<1>5. Pipeline(p) \in Seq(Txns)
  BY <1>2, <1>4, ConcatProperties DEF Pipeline
<1> QED BY <1>2, <1>3, <1>4, <1>5

LEMMA PipelineRange ==
  ASSUME TypeOK, NEW p \in Puppets
  PROVE  /\ Len(Pipeline(p)) = Len(done[p]) + Len(OptSeq(puppetTxn[p]))
                                + Len(sched[p]) + Len(Unpublished(p))
         /\ RangeOf(Pipeline(p)) = RangeOf(done[p]) \cup ({puppetTxn[p]} \ {NoTxn})
                 \cup RangeOf(sched[p]) \cup RangeOf(Unpublished(p))
<1>1. done[p] \in Seq(Txns) /\ sched[p] \in Seq(Txns)
      /\ puppetTxn[p] \in Txns \cup {NoTxn}
  BY DEF TypeOK
<1>2. RangeOf(OptSeq(puppetTxn[p])) = {puppetTxn[p]} \ {NoTxn}
  BY <1>1, OptSeqType
<1> DEFINE a == done[p] \o OptSeq(puppetTxn[p])
           b == a \o sched[p]
<1>t. /\ a \in Seq(Txns) /\ b \in Seq(Txns) /\ Unpublished(p) \in Seq(Txns)
      /\ OptSeq(puppetTxn[p]) \in Seq(Txns)
  BY PipelineType
<1> HIDE DEF a, b
<1>3. /\ Len(a) = Len(done[p]) + Len(OptSeq(puppetTxn[p]))
      /\ RangeOf(a) = RangeOf(done[p]) \cup RangeOf(OptSeq(puppetTxn[p]))
  BY <1>1, <1>t, ConcatProperties, RangeConcat DEF a
<1>4. /\ Len(b) = Len(a) + Len(sched[p])
      /\ RangeOf(b) = RangeOf(a) \cup RangeOf(sched[p])
  BY <1>1, <1>t, ConcatProperties, RangeConcat DEF b
<1>5. /\ Len(b \o Unpublished(p)) = Len(b) + Len(Unpublished(p))
      /\ RangeOf(b \o Unpublished(p)) = RangeOf(b) \cup RangeOf(Unpublished(p))
  BY <1>t, ConcatProperties, RangeConcat
<1>6. Pipeline(p) = b \o Unpublished(p)
  BY DEF Pipeline, a, b
<1> QED BY <1>2, <1>3, <1>4, <1>5, <1>6

-----------------------------------------------------------------------------
(* What the steps do to the pipelines.                                     *)

\* Removing the head of done[p] removes the head of the pipeline.
LEMMA PipelineHead ==
  ASSUME TypeOK, NEW p \in Puppets, done[p] # <<>>
  PROVE  /\ Pipeline(p) # <<>>
         /\ Head(Pipeline(p)) = Head(done[p])
         /\ Tail(Pipeline(p)) =
              Tail(done[p]) \o OptSeq(puppetTxn[p]) \o sched[p] \o Unpublished(p)
<1> DEFINE o == OptSeq(puppetTxn[p])
           u == Unpublished(p)
           a == done[p] \o o
           b == a \o sched[p]
<1>1. /\ done[p] \in Seq(Txns) /\ sched[p] \in Seq(Txns) /\ o \in Seq(Txns)
      /\ u \in Seq(Txns) /\ a \in Seq(Txns) /\ b \in Seq(Txns)
  BY PipelineType DEF TypeOK
<1>2. Pipeline(p) = b \o u
  BY DEF Pipeline
<1>3. a # <<>> /\ Head(a) = Head(done[p]) /\ Tail(a) = Tail(done[p]) \o o
  <2> HIDE DEF o
  <2> QED BY <1>1, ConcatTail DEF a
<1>4. b # <<>> /\ Head(b) = Head(a) /\ Tail(b) = Tail(a) \o sched[p]
  <2> HIDE DEF a
  <2> QED BY ZenonT(30), <1>1, <1>3, ConcatTail DEF b
<1>5. b \o u # <<>> /\ Head(b \o u) = Head(b) /\ Tail(b \o u) = Tail(b) \o u
  <2> HIDE DEF b, u
  <2> QED BY <1>1, <1>4, ConcatTail
<1> QED BY <1>2, <1>3, <1>4, <1>5

\* A transaction polled moves from sched[p] to puppetTxn[p].
LEMMA PolledPipeline ==
  ASSUME NEW S, NEW d \in Seq(S), NEW s \in Seq(S), s # <<>>
  PROVE  d \o <<>> \o s = d \o <<Head(s)>> \o Tail(s)
<1>1. Head(s) \in S /\ Tail(s) \in Seq(S)
  BY HeadTailProperties
<1>2. <<Head(s)>> \in Seq(S)
  BY <1>1
<1>3. d \o <<>> \o s = d \o s
  BY ConcatEmptySeq
<1>4. (d \o <<Head(s)>>) \o Tail(s) = d \o (<<Head(s)>> \o Tail(s))
  BY <1>1, <1>2, ConcatAssociative
<1>5. <<Head(s)>> \o Tail(s) = s
  BY HeadAndTail
<1> QED BY <1>3, <1>4, <1>5

\* A transaction reported moves from puppetTxn[p] to done[p].
LEMMA ReportedPipeline ==
  ASSUME NEW S, NEW d \in Seq(S), NEW e \in S
  PROVE  d \o <<e>> = Append(d, e) \o <<>>
<1>1. Append(d, e) \in Seq(S) /\ Append(d, e) = d \o <<e>>
  BY AppendProperties, AppendIsConcat
<1> QED BY <1>1, ConcatEmptySeq

\* A transaction published moves from taken to sched[current].
LEMMA PublishedPipeline ==
  ASSUME NEW S, NEW a \in Seq(S), NEW s \in Seq(S), NEW e \in S
  PROVE  a \o s \o <<e>> = a \o Append(s, e) \o <<>>
<1>1. a \o s \in Seq(S) /\ Append(s, e) \in Seq(S)
  BY ConcatProperties, AppendProperties
<1>2. a \o Append(s, e) = Append(a \o s, e)
  BY ConcatAppend
<1>3. Append(a \o s, e) = (a \o s) \o <<e>> /\ Append(a \o s, e) \in Seq(S)
  BY <1>1, AppendIsConcat, AppendProperties
<1> QED BY <1>2, <1>3, ConcatEmptySeq

\* A step that leaves the pipelines alone preserves the invariant.
LEMMA SamePipelines ==
  ASSUME IInv, TypeOK', \A p \in Puppets : Pipeline(p)' = Pipeline(p),
         freed' => schedPc' = "exited",
         ~ freed' => ~ freed /\ active' = active
  PROVE  IInv'
<1>1. PipelineIsActive'
  BY DEF IInv, PipelineIsActive
<1>2. PipelineFits'
  BY DEF IInv, PipelineFits
<1>3. PipelineCompatible'
  BY DEF IInv, PipelineCompatible
<1> QED BY <1>1, <1>2, <1>3 DEF IInv, FreedAfterJoin

-----------------------------------------------------------------------------
(* The steps of the client and of main.                                    *)

LEMMA LogType ==
  ASSUME TypeOK, NEW t \in Txns, NEW kind \in Kinds, pmlog_record(t, kind)
  PROVE  events' \in [Txns -> Seq(Kinds)]
<1>1. events[t] \in Seq(Kinds)
  BY DEF TypeOK
<1>2. Append(events[t], kind) \in Seq(Kinds)
  BY <1>1, AppendProperties
<1> QED BY <1>2 DEF TypeOK, pmlog_record

LEMMA InitIInv == Init => IInv
<1> SUFFICES ASSUME Init PROVE IInv
  OBVIOUS
<1>1. \A p \in Puppets : Pipeline(p) = <<>>
  BY DEF Init, Pipeline, OptSeq, Unpublished
<1>2. TypeOK
  <2>1. 0 \in Puppets
    BY SwAssumption DEF Puppets
  <2>2. <<>> \in Seq(Txns) /\ <<>> \in Seq(Kinds)
    OBVIOUS
  <2>3. next \in 1..(NumTxns + 1) /\ (clientPc # "exited" => next \in Txns)
    BY TransactionsAssumption DEF Init, Txns
  <2> QED BY <2>1, <2>2, <2>3 DEF Init, TypeOK, Holding, NoTxn
<1>3. PipelineFits
  BY <1>1, SwAssumption DEF PipelineFits, ActiveCapacity
<1>4. PipelineCompatible
  BY <1>1 DEF PipelineCompatible, RangeOf
<1> QED BY <1>1, <1>2, <1>3, <1>4 DEF IInv, PipelineIsActive, FreedAfterJoin, Init

LEMMA ClientInv == IInv /\ ClientStep => IInv'
<1> SUFFICES ASSUME IInv, ClientStep PROVE IInv'
  OBVIOUS
<1> USE DEF IInv
<1>1. TypeOK'
  <2>1. CASE ClientLog
    <3>1. events' \in [Txns -> Seq(Kinds)]
      BY <2>1, LogType DEF ClientLog, TypeOK, Kinds
    <3> QED BY ZenonT(30), <2>1, <3>1 DEF ClientLog, TypeOK, Holding, schedVars, puppetVars, mainVars
  <2>2. CASE ClientEnq
    <3>1. next \in Txns /\ pending' \in Seq(Txns)
      BY <2>2, AppendProperties DEF ClientEnq, TypeOK
    <3>2. next' \in 1..(NumTxns + 1) /\ (clientPc' # "exited" => next' \in Txns)
      BY <2>2, <3>1, TransactionsAssumption DEF ClientEnq, Txns
    <3>3. clientPc' \in {"log", "enq", "exited"}
      BY <2>2 DEF ClientEnq
    <3> QED BY ZenonT(30), <2>2, <3>1, <3>2, <3>3
            DEF ClientEnq, TypeOK, Holding, schedVars, puppetVars, mainVars
  <2> QED BY <2>1, <2>2 DEF ClientStep
<1>2. UNCHANGED <<schedVars, sched, done, puppetVars, mainVars>>
  BY DEF ClientStep, ClientLog, ClientEnq
<1>3. \A p \in Puppets : Pipeline(p)' = Pipeline(p)
  BY <1>2 DEF Pipeline, Unpublished, schedVars, puppetVars
<1> QED BY <1>1, <1>2, <1>3, SamePipelines
        DEF schedVars, mainVars, FreedAfterJoin

LEMMA MainInv == IInv /\ (MainLoop \/ MainShutdown) => IInv'
<1> SUFFICES ASSUME IInv, MainLoop \/ MainShutdown PROVE IInv'
  OBVIOUS
<1> USE DEF IInv
<1>1. /\ UNCHANGED <<clientVars, pending, sched, done, puppetVars, events>>
      /\ UNCHANGED <<schedPc, drainAt, current, taken>>
  BY DEF MainLoop, MainShutdown, MainSample, MainNoProgress, MainJudge, MainWake,
         MainStop, MainFree, MainJoin, MainExit, schedVars
<1>2. \/ UNCHANGED <<active, freed>>
      \/ schedPc = "exited" /\ freed' = TRUE /\ active' = [p \in Puppets |-> <<>>]
  BY DEF MainLoop, MainShutdown, MainSample, MainNoProgress, MainJudge, MainWake,
         MainStop, MainFree, MainJoin, MainExit, schedVars
<1>3. TypeOK'
  <2>1. active' \in [Puppets -> Seq(Txns)] /\ freed' \in BOOLEAN
    <3>1. <<>> \in Seq(Txns)
      OBVIOUS
    <3> QED BY <3>1, <1>2 DEF TypeOK
  <2>2. sampleAt' \in Puppets /\ sum' \in Nat
    <3>1. CASE MainSample
      <4>1. completed[sampleAt] \in Nat /\ sum \in Nat /\ sampleAt \in Puppets
        BY DEF TypeOK
      <4>2. sum' = sum + completed[sampleAt]
            /\ sampleAt' = IF sampleAt = NumPuppets - 1 THEN 0 ELSE sampleAt + 1
        BY <3>1 DEF MainSample
      <4> QED BY <4>1, <4>2, SwAssumption DEF Puppets
    <3>2. CASE ~ MainSample
      <4>1. UNCHANGED sampleAt /\ (UNCHANGED sum \/ sum' = 0)
        BY <3>2 DEF MainLoop, MainShutdown, MainNoProgress, MainJudge, MainWake,
                    MainStop, MainFree, MainJoin, MainExit
      <4> QED BY SMTT(30), <4>1 DEF TypeOK
    <3> QED BY <3>1, <3>2
  <2>3. /\ prev' \in Nat \cup {-1}
        /\ mainPc' \in {"sample", "judge", "sleep", "stop", "joinSched", "join",
                         "report", "exited"}
    BY DEF MainLoop, MainShutdown, MainSample, MainNoProgress, MainJudge, MainWake,
           MainStop, MainFree, MainJoin, MainExit, TypeOK
  <2>4. running' \in BOOLEAN
    <3>1. UNCHANGED running \/ running' = FALSE
      BY DEF MainLoop, MainShutdown, MainSample, MainNoProgress, MainJudge,
             MainWake, MainStop, MainFree, MainJoin, MainExit
    <3> QED BY <3>1 DEF TypeOK
  <2>5. success' \in BOOLEAN
    <3>1. UNCHANGED success \/ success' = (sum = NumTxns)
      BY DEF MainLoop, MainShutdown, MainSample, MainNoProgress, MainJudge,
             MainWake, MainStop, MainFree, MainJoin, MainExit
    <3> QED BY <3>1 DEF TypeOK
  <2> QED BY <2>1, <2>2, <2>3, <2>4, <2>5, <1>1 DEF TypeOK, Holding, clientVars, puppetVars
<1>4. \A p \in Puppets : Pipeline(p)' = Pipeline(p)
  BY <1>1 DEF Pipeline, Unpublished, puppetVars
<1>5. (freed' => schedPc' = "exited") /\ (~ freed' => ~ freed /\ active' = active)
  BY <1>1, <1>2 DEF FreedAfterJoin
<1> QED BY <1>3, <1>4, <1>5, SamePipelines

-----------------------------------------------------------------------------
(* The steps of a puppet.                                                  *)

LEMMA PuppetType ==
  ASSUME TypeOK, UNCHANGED <<clientVars, pending, schedVars, mainVars>>,
         sched' \in [Puppets -> Seq(Txns)], done' \in [Puppets -> Seq(Txns)],
         puppetPc' \in [Puppets -> {"check", "deq", "recv", "work", "report",
                                    "count", "exited"}],
         puppetTxn' \in [Puppets -> Txns \cup {NoTxn}],
         \A p \in Puppets : Holding(p)' <=> puppetTxn'[p] # NoTxn,
         completed' \in [Puppets -> Nat], events' \in [Txns -> Seq(Kinds)]
  PROVE  TypeOK'
<1>1. UNCHANGED <<clientPc, next, pending, schedPc, drainAt, current, taken, active>>
  BY DEF clientVars, schedVars
<1>2. UNCHANGED <<running, freed, mainPc, sampleAt, sum, prev, success>>
  BY DEF mainVars
<1>3. /\ clientPc' \in {"log", "enq", "exited"}
      /\ next' \in 1..(NumTxns + 1)
      /\ clientPc' # "exited" => next' \in Txns
      /\ pending' \in Seq(Txns)
      /\ schedPc' \in {"check", "drain", "drainDeq", "pending", "publish", "exited"}
      /\ drainAt' \in Puppets /\ current' \in Puppets
      /\ taken' \in Txns \cup {NoTxn}
      /\ schedPc' = "publish" <=> taken' # NoTxn
      /\ active' \in [Puppets -> Seq(Txns)]
  BY <1>1 DEF TypeOK
<1>4. /\ running' \in BOOLEAN /\ freed' \in BOOLEAN /\ success' \in BOOLEAN
      /\ mainPc' \in {"sample", "judge", "sleep", "stop", "joinSched", "join",
                       "report", "exited"}
      /\ sampleAt' \in Puppets
      /\ sum' \in Nat /\ prev' \in Nat \cup {-1}
  BY <1>2 DEF TypeOK
<1> QED BY <1>3, <1>4 DEF TypeOK

LEMMA PuppetInv ==
  ASSUME IInv, NEW q \in Puppets, PuppetStep(q)
  PROVE  IInv' /\ \A p \in Puppets : Pipeline(p)' = Pipeline(p)
<1>. TypeOK /\ FreedAfterJoin
  BY DEF IInv
<1>0. /\ UNCHANGED <<clientVars, pending, schedVars, mainVars>>
  BY DEF PuppetStep, PuppetCheck, PuppetPollEmpty, PuppetPoll, PuppetRecv,
         PuppetWorked, PuppetReport, PuppetCount
<1>r. FreedAfterJoin' /\ UNCHANGED <<active, freed>>
  BY <1>0 DEF FreedAfterJoin, schedVars, mainVars
<1>s. SUFFICES TypeOK' /\ \A p \in Puppets : Pipeline(p)' = Pipeline(p)
  BY <1>r, SamePipelines DEF FreedAfterJoin
<1>n. NoTxn \notin Txns
  BY NoTxnNotTxn
<1>u. \A p \in Puppets : Unpublished(p)' = Unpublished(p)
  BY <1>0 DEF Unpublished, schedVars
<1>1. CASE PuppetCheck(q) \/ PuppetPollEmpty(q)
  <2>1. UNCHANGED <<puppetTxn, completed, sched, done, events>>
    BY <1>1 DEF PuppetCheck, PuppetPollEmpty
  <2>2. TypeOK'
    <3>1. puppetPc[q] \in {"check", "deq"}
          /\ \E pc \in {"check", "deq", "exited"} : puppetPc' = [puppetPc EXCEPT ![q] = pc]
      BY <1>1 DEF PuppetCheck, PuppetPollEmpty
    <3>2. \A p \in Puppets : Holding(p)' <=> puppetTxn'[p] # NoTxn
      BY <3>1, <2>1 DEF TypeOK, Holding
    <3>3. puppetPc' \in [Puppets -> {"check", "deq", "recv", "work", "report",
                                     "count", "exited"}]
      BY <3>1 DEF TypeOK
    <3>4. /\ sched' \in [Puppets -> Seq(Txns)] /\ done' \in [Puppets -> Seq(Txns)]
          /\ puppetTxn' \in [Puppets -> Txns \cup {NoTxn}]
          /\ completed' \in [Puppets -> Nat] /\ events' \in [Txns -> Seq(Kinds)]
      BY <2>1 DEF TypeOK
    <3> QED BY <1>0, <3>2, <3>3, <3>4, PuppetType
  <2>3. \A p \in Puppets : Pipeline(p)' = Pipeline(p)
    BY <1>u, <2>1 DEF Pipeline
  <2> QED BY <2>2, <2>3
<1>2. CASE PuppetPoll(q)
  <2>1. /\ sched[q] \in Seq(Txns) /\ sched[q] # <<>>
        /\ Head(sched[q]) \in Txns /\ Tail(sched[q]) \in Seq(Txns)
    BY <1>2, HeadTailProperties DEF PuppetPoll, TypeOK
  <2>2. TypeOK'
    <3>1. /\ UNCHANGED <<done, completed, events>>
          /\ sched' = [sched EXCEPT ![q] = Tail(@)]
          /\ puppetTxn' = [puppetTxn EXCEPT ![q] = Head(sched[q])]
          /\ puppetPc' = [puppetPc EXCEPT ![q] = "recv"]
          /\ puppetPc[q] = "deq"
      BY <1>2 DEF PuppetPoll
    <3>2. \A p \in Puppets : Holding(p)' <=> puppetTxn'[p] # NoTxn
      BY <3>1, <2>1, <1>n DEF TypeOK, Holding
    <3>3. sched' \in [Puppets -> Seq(Txns)]
      BY <3>1, <2>1 DEF TypeOK
    <3>4. puppetTxn' \in [Puppets -> Txns \cup {NoTxn}]
      BY <3>1, <2>1 DEF TypeOK
    <3>5. puppetPc' \in [Puppets -> {"check", "deq", "recv", "work", "report",
                                     "count", "exited"}]
      BY <3>1 DEF TypeOK
    <3>6. /\ done' \in [Puppets -> Seq(Txns)] /\ completed' \in [Puppets -> Nat]
          /\ events' \in [Txns -> Seq(Kinds)]
      BY <3>1 DEF TypeOK
    <3> QED BY <1>0, <3>2, <3>3, <3>4, <3>5, <3>6, PuppetType
  <2>3. ASSUME NEW p \in Puppets PROVE Pipeline(p)' = Pipeline(p)
    <3>1. CASE p = q
      <4>1. puppetTxn[q] = NoTxn
        BY <1>2 DEF PuppetPoll, TypeOK, Holding
      <4>2. /\ OptSeq(puppetTxn[q]) = <<>> /\ OptSeq(puppetTxn'[q]) = <<Head(sched[q])>>
            /\ done' = done /\ sched'[q] = Tail(sched[q])
        BY <1>2, <1>n, <2>1, <4>1 DEF OptSeq, PuppetPoll, TypeOK
      <4>3. done[q] \in Seq(Txns) /\ Unpublished(q) \in Seq(Txns)
        BY PipelineType DEF TypeOK
      <4>4. done[q] \o <<>> \o sched[q]
              = done[q] \o <<Head(sched[q])>> \o Tail(sched[q])
        BY <2>1, <4>3, PolledPipeline
      <4> QED BY <1>u, <3>1, <4>2, <4>4 DEF Pipeline
    <3>2. CASE p # q
      BY <1>2, <1>u, <3>2 DEF PuppetPoll, Pipeline, TypeOK
    <3> QED BY <3>1, <3>2
  <2> QED BY <2>2, <2>3
<1>3. CASE PuppetRecv(q) \/ PuppetWorked(q)
  <2>1. /\ UNCHANGED <<puppetTxn, completed, sched, done>>
        /\ puppetTxn[q] \in Txns
    BY <1>3 DEF PuppetRecv, PuppetWorked, TypeOK, Holding
  <2>2. events' \in [Txns -> Seq(Kinds)]
    BY <1>3, <2>1, LogType DEF PuppetRecv, PuppetWorked, Kinds
  <2>3. TypeOK'
    <3>1. puppetPc[q] \in {"recv", "work"}
          /\ \E pc \in {"work", "report"} : puppetPc' = [puppetPc EXCEPT ![q] = pc]
      BY <1>3 DEF PuppetRecv, PuppetWorked
    <3>2. \A p \in Puppets : Holding(p)' <=> puppetTxn'[p] # NoTxn
      BY <3>1, <2>1 DEF TypeOK, Holding
    <3>3. puppetPc' \in [Puppets -> {"check", "deq", "recv", "work", "report",
                                     "count", "exited"}]
      BY <3>1 DEF TypeOK
    <3>4. /\ sched' \in [Puppets -> Seq(Txns)] /\ done' \in [Puppets -> Seq(Txns)]
          /\ puppetTxn' \in [Puppets -> Txns \cup {NoTxn}]
          /\ completed' \in [Puppets -> Nat]
      BY <2>1 DEF TypeOK
    <3> QED BY <1>0, <2>2, <3>2, <3>3, <3>4, PuppetType
  <2>4. \A p \in Puppets : Pipeline(p)' = Pipeline(p)
    BY <1>u, <2>1 DEF Pipeline
  <2> QED BY <2>3, <2>4
<1>4. CASE PuppetReport(q)
  <2>1. done[q] \in Seq(Txns) /\ puppetTxn[q] \in Txns
    BY <1>4 DEF PuppetReport, TypeOK, Holding
  <2>2. Append(done[q], puppetTxn[q]) \in Seq(Txns)
    BY <2>1, AppendProperties
  <2>3. TypeOK'
    <3>1. /\ UNCHANGED <<sched, completed, events>>
          /\ done' = [done EXCEPT ![q] = Append(@, puppetTxn[q])]
          /\ puppetTxn' = [puppetTxn EXCEPT ![q] = NoTxn]
          /\ puppetPc' = [puppetPc EXCEPT ![q] = "count"]
      BY <1>4 DEF PuppetReport
    <3>2. \A p \in Puppets : Holding(p)' <=> puppetTxn'[p] # NoTxn
      BY <3>1, <1>n DEF TypeOK, Holding
    <3>3. done' \in [Puppets -> Seq(Txns)]
      BY <3>1, <2>2 DEF TypeOK
    <3>4. puppetTxn' \in [Puppets -> Txns \cup {NoTxn}]
      BY <3>1 DEF TypeOK
    <3>5. puppetPc' \in [Puppets -> {"check", "deq", "recv", "work", "report",
                                     "count", "exited"}]
      BY <3>1 DEF TypeOK
    <3>6. /\ sched' \in [Puppets -> Seq(Txns)] /\ completed' \in [Puppets -> Nat]
          /\ events' \in [Txns -> Seq(Kinds)]
      BY <3>1 DEF TypeOK
    <3> QED BY <1>0, <3>2, <3>3, <3>4, <3>5, <3>6, PuppetType
  <2>4. ASSUME NEW p \in Puppets PROVE Pipeline(p)' = Pipeline(p)
    <3>1. CASE p = q
      <4>1. /\ OptSeq(puppetTxn[q]) = <<puppetTxn[q]>> /\ OptSeq(puppetTxn'[q]) = <<>>
            /\ done'[q] = Append(done[q], puppetTxn[q]) /\ sched' = sched
        BY <1>4, <1>n, <2>1 DEF OptSeq, PuppetReport, TypeOK
      <4>2. done[q] \o <<puppetTxn[q]>> = Append(done[q], puppetTxn[q]) \o <<>>
        BY <2>1, ReportedPipeline
      <4> QED BY <1>u, <3>1, <4>1, <4>2 DEF Pipeline
    <3>2. CASE p # q
      BY <1>4, <1>u, <3>2 DEF PuppetReport, Pipeline, TypeOK
    <3> QED BY <3>1, <3>2
  <2> QED BY <2>3, <2>4
<1>5. CASE PuppetCount(q)
  <2>1. UNCHANGED <<puppetTxn, sched, done, events>>
    BY <1>5 DEF PuppetCount
  <2>2. completed' \in [Puppets -> Nat]
    <3>1. completed' = [completed EXCEPT ![q] = @ + 1]
      BY <1>5 DEF PuppetCount
    <3>2. completed \in [Puppets -> Nat]
      BY DEF TypeOK
    <3>3. completed[q] \in Nat
      BY <3>2
    <3>4. completed[q] + 1 \in Nat
      BY <3>3
    <3> QED BY <3>1, <3>2, <3>4
  <2>3. TypeOK'
    <3>1. puppetPc[q] = "count" /\ puppetPc' = [puppetPc EXCEPT ![q] = "check"]
      BY <1>5 DEF PuppetCount
    <3>2. \A p \in Puppets : Holding(p)' <=> puppetTxn'[p] # NoTxn
      BY <3>1, <2>1 DEF TypeOK, Holding
    <3>3. puppetPc' \in [Puppets -> {"check", "deq", "recv", "work", "report",
                                     "count", "exited"}]
      BY <3>1 DEF TypeOK
    <3>4. /\ sched' \in [Puppets -> Seq(Txns)] /\ done' \in [Puppets -> Seq(Txns)]
          /\ puppetTxn' \in [Puppets -> Txns \cup {NoTxn}]
          /\ events' \in [Txns -> Seq(Kinds)]
      BY <2>1 DEF TypeOK
    <3> QED BY <1>0, <2>2, <3>2, <3>3, <3>4, PuppetType
  <2>4. \A p \in Puppets : Pipeline(p)' = Pipeline(p)
    BY <1>u, <2>1 DEF Pipeline
  <2> QED BY <2>3, <2>4
<1> QED BY <1>1, <1>2, <1>3, <1>4, <1>5 DEF PuppetStep

-----------------------------------------------------------------------------
(* The steps of the scheduler.                                             *)

LEMMA SchedType ==
  ASSUME TypeOK, UNCHANGED <<clientVars, puppetVars, mainVars>>,
         pending' \in Seq(Txns),
         schedPc' \in {"check", "drain", "drainDeq", "pending", "publish", "exited"},
         drainAt' \in Puppets, current' \in Puppets,
         taken' \in Txns \cup {NoTxn}, schedPc' = "publish" <=> taken' # NoTxn,
         active' \in [Puppets -> Seq(Txns)], sched' \in [Puppets -> Seq(Txns)],
         done' \in [Puppets -> Seq(Txns)], events' \in [Txns -> Seq(Kinds)]
  PROVE  TypeOK'
<1>1. UNCHANGED <<clientPc, next, puppetPc, puppetTxn, completed>>
  BY DEF clientVars, puppetVars
<1>2. UNCHANGED <<running, freed, mainPc, sampleAt, sum, prev, success>>
  BY DEF mainVars
<1>3. /\ clientPc' \in {"log", "enq", "exited"}
      /\ next' \in 1..(NumTxns + 1)
      /\ clientPc' # "exited" => next' \in Txns
      /\ puppetPc' \in [Puppets -> {"check", "deq", "recv", "work", "report",
                                    "count", "exited"}]
      /\ puppetTxn' \in [Puppets -> Txns \cup {NoTxn}]
      /\ \A p \in Puppets : Holding(p)' <=> puppetTxn'[p] # NoTxn
      /\ completed' \in [Puppets -> Nat]
  BY <1>1 DEF TypeOK, Holding
<1>4. /\ running' \in BOOLEAN /\ freed' \in BOOLEAN /\ success' \in BOOLEAN
      /\ mainPc' \in {"sample", "judge", "sleep", "stop", "joinSched", "join",
                       "report", "exited"}
      /\ sampleAt' \in Puppets
      /\ sum' \in Nat /\ prev' \in Nat \cup {-1}
  BY <1>2 DEF TypeOK
<1> QED BY <1>3, <1>4 DEF TypeOK

\* Checking, draining nothing and giving up: no queue changes.
LEMMA SchedIdleInv ==
  IInv /\ (SchedCheck \/ SchedDrainSkip \/ SchedDrainEnter \/ SchedGiveUp) => IInv'
<1> SUFFICES ASSUME IInv, SchedCheck \/ SchedDrainSkip \/ SchedDrainEnter \/ SchedGiveUp
             PROVE  IInv'
  OBVIOUS
<1>. TypeOK /\ FreedAfterJoin
  BY DEF IInv
<1>1. /\ schedPc \notin {"publish", "exited"}
      /\ schedPc' \in {"check", "drain", "drainDeq", "pending", "exited"}
      /\ UNCHANGED <<current, taken, active, clientVars, pending, sched, done,
                     puppetVars, mainVars, events>>
  BY DEF SchedCheck, SchedDrainSkip, SchedDrainEnter, SchedGiveUp, DrainNext
<1>2. drainAt' \in Puppets
  <2>1. \/ drainAt' = 0 \/ drainAt' = drainAt
        \/ drainAt # NumPuppets - 1 /\ drainAt' = drainAt + 1
    BY DEF SchedCheck, SchedDrainSkip, SchedDrainEnter, SchedGiveUp, DrainNext
  <2>2. drainAt \in Puppets
    BY DEF TypeOK
  <2> QED BY <2>1, <2>2, SwAssumption DEF Puppets
<1>3. taken = NoTxn /\ ~ freed
  BY <1>1 DEF TypeOK, FreedAfterJoin
<1>4. TypeOK'
  BY <1>1, <1>2, <1>3, SchedType DEF TypeOK
<1>5. \A p \in Puppets : Pipeline(p)' = Pipeline(p)
  BY <1>1 DEF Pipeline, Unpublished, puppetVars
<1>6. ~ freed'
  BY <1>1, <1>3 DEF mainVars
<1> QED BY <1>1, <1>3, <1>4, <1>5, <1>6, SamePipelines

LEMMA SchedPublishInv ==
  ASSUME IInv, SchedPublish
  PROVE  IInv' /\ \A p \in Puppets : Pipeline(p)' = Pipeline(p)
<1>. TypeOK /\ FreedAfterJoin
  BY DEF IInv
<1>1. /\ schedPc = "publish" /\ schedPc' = "pending" /\ taken' = NoTxn
      /\ sched' = [sched EXCEPT ![current] = Append(@, taken)]
      /\ current' = (current + 1) % NumPuppets
      /\ UNCHANGED <<drainAt, active, clientVars, pending, done, puppetVars,
                     mainVars, events>>
  BY DEF SchedPublish, NextPuppet
<1>2. taken \in Txns /\ ~ freed /\ ~ freed' /\ current \in Puppets
  BY <1>1 DEF TypeOK, FreedAfterJoin, mainVars
<1>3. Append(sched[current], taken) \in Seq(Txns)
  BY <1>2, AppendProperties DEF TypeOK
<1>4. TypeOK'
  <2>1. current' \in Puppets
    BY <1>1, <1>2, SwAssumption DEF Puppets
  <2>2. sched' \in [Puppets -> Seq(Txns)]
    BY <1>1, <1>3 DEF TypeOK
  <2> QED BY <1>1, <2>1, <2>2, SchedType DEF TypeOK
<1>5. ASSUME NEW p \in Puppets PROVE Pipeline(p)' = Pipeline(p)
  <2>1. Unpublished(p)' = <<>> /\ UNCHANGED <<done, puppetTxn>>
    BY <1>1 DEF Unpublished, OptSeq, puppetVars
  <2>2. CASE p = current
    <3>1. Unpublished(p) = <<taken>>
      BY <1>2, <2>2, NoTxnNotTxn DEF Unpublished, OptSeq
    <3>2. sched'[p] = Append(sched[p], taken)
      BY <1>1, <2>2 DEF TypeOK
    <3>3. done[p] \o OptSeq(puppetTxn[p]) \in Seq(Txns) /\ sched[p] \in Seq(Txns)
      BY PipelineType DEF TypeOK
    <3> DEFINE a == done[p] \o OptSeq(puppetTxn[p])
    <3>4. a \o sched[p] \o <<taken>> = a \o Append(sched[p], taken) \o <<>>
      <4> HIDE DEF a
      <4> QED BY ZenonT(30), <1>2, <3>3, PublishedPipeline DEF a
    <3> QED BY <2>1, <3>1, <3>2, <3>4 DEF Pipeline
  <2>3. CASE p # current
    <3>1. Unpublished(p) = <<>> /\ sched'[p] = sched[p]
      BY <1>1, <2>3 DEF Unpublished, OptSeq, TypeOK
    <3> QED BY <2>1, <3>1 DEF Pipeline
  <2> QED BY <2>2, <2>3
<1> QED BY <1>1, <1>2, <1>4, <1>5, SamePipelines

LEMMA SchedDrainDeqInv ==
  ASSUME IInv, SchedDrainDeq
  PROVE  /\ IInv' /\ ~ freed
         /\ \A p \in Puppets : Pipeline(p)' = IF p = drainAt THEN Tail(Pipeline(p))
                                                           ELSE Pipeline(p)
<1>. TypeOK /\ FreedAfterJoin /\ PipelineIsActive /\ PipelineFits /\ PipelineCompatible
  BY DEF IInv
<1>q. PICK q \in Puppets : q = drainAt
  BY DEF TypeOK
<1>1. /\ schedPc = "drainDeq" /\ done[q] # <<>>
      /\ done' = [done EXCEPT ![q] = Tail(@)]
      /\ active' = [active EXCEPT ![q] = Tail(@)]
      /\ pmlog_record(Head(done[q]), "CLEANUP")
      /\ UNCHANGED <<schedPc, drainAt, current, taken, clientVars, pending, sched,
                     puppetVars, mainVars>>
  BY <1>q DEF SchedDrainDeq
<1>2. q \in Puppets /\ ~ freed /\ ~ freed' /\ done[q] \in Seq(Txns)
  BY <1>1 DEF TypeOK, FreedAfterJoin, mainVars
<1>3. Head(done[q]) \in Txns /\ Tail(done[q]) \in Seq(Txns)
  BY <1>1, <1>2, HeadTailProperties
<1>4. /\ active[q] = Pipeline(q) /\ Pipeline(q) \in Seq(Txns) /\ Pipeline(q) # <<>>
      /\ Tail(Pipeline(q)) =
           Tail(done[q]) \o OptSeq(puppetTxn[q]) \o sched[q] \o Unpublished(q)
  BY <1>1, <1>2, PipelineHead, PipelineType DEF PipelineIsActive
<1>5. TypeOK'
  <2>1. events' \in [Txns -> Seq(Kinds)]
    BY <1>1, <1>3, LogType DEF Kinds
  <2>2. done' \in [Puppets -> Seq(Txns)]
    BY <1>1, <1>3 DEF TypeOK
  <2>3. Tail(active[q]) \in Seq(Txns)
    BY <1>4, HeadTailProperties
  <2>4. active' \in [Puppets -> Seq(Txns)]
    BY <1>1, <2>3 DEF TypeOK
  <2> QED BY <1>1, <2>1, <2>2, <2>4, SchedType DEF TypeOK
<1>6. Pipeline(q)' = Tail(Pipeline(q))
  <2>1. done'[q] = Tail(done[q]) /\ UNCHANGED <<drainAt, puppetTxn, sched>>
    BY <1>1, <1>2 DEF TypeOK, puppetVars
  <2>2. Unpublished(q)' = Unpublished(q)
    BY <1>1 DEF Unpublished
  <2> QED BY <1>4, <2>1, <2>2 DEF Pipeline
<1>7. ASSUME NEW p \in Puppets, p # q PROVE Pipeline(p)' = Pipeline(p)
  BY <1>1, <1>7 DEF Pipeline, Unpublished, TypeOK, puppetVars
<1>8. PipelineIsActive'
  <2>1. \A p \in Puppets : active'[p] = IF p = q THEN Tail(active[q]) ELSE active[p]
    BY <1>1, <1>2 DEF TypeOK
  <2> QED BY <2>1, <1>2, <1>4, <1>6, <1>7 DEF PipelineIsActive
<1>9. \A p \in Puppets : /\ Len(Pipeline(p)') <= Len(Pipeline(p))
                         /\ RangeOf(Pipeline(p)') \subseteq RangeOf(Pipeline(p))
                         /\ Len(Pipeline(p)) \in Nat /\ Len(Pipeline(p)') \in Nat
  <2>1. ASSUME NEW p \in Puppets PROVE Len(Pipeline(p)) \in Nat
    BY PipelineType, LenProperties
  <2>2. /\ Len(Tail(Pipeline(q))) = Len(Pipeline(q)) - 1
        /\ Tail(Pipeline(q)) \in Seq(Txns)
        /\ RangeOf(Tail(Pipeline(q))) \subseteq RangeOf(Pipeline(q))
    BY <1>4, HeadTailProperties, RangeTail
  <2>3. Len(Tail(Pipeline(q))) \in Nat
    BY <2>2, LenProperties
  <2> TAKE p \in Puppets
  <2>4. CASE p = q
    <3>1. Len(Tail(Pipeline(q))) <= Len(Pipeline(q))
      BY <2>1, <2>2, <2>3
    <3>2. Pipeline(p)' = Tail(Pipeline(q)) /\ Pipeline(p) = Pipeline(q)
      BY <1>6, <2>4
    <3> QED BY <2>1, <2>2, <2>3, <3>1, <3>2
  <2>5. CASE p # q
    <3>1. Pipeline(p)' = Pipeline(p)
      BY <1>7, <2>5
    <3> QED BY <2>1, <3>1
  <2> QED BY <2>4, <2>5
<1>10. PipelineFits'
  <2>1. ActiveCapacity \in Nat
    BY SwAssumption DEF ActiveCapacity
  <2> QED BY <1>9, <2>1 DEF PipelineFits
<1>11. PipelineCompatible'
  BY <1>9 DEF PipelineCompatible
<1> QED BY <1>q, <1>2, <1>5, <1>6, <1>7, <1>8, <1>10, <1>11 DEF IInv, FreedAfterJoin

LEMMA SchedTakeInv ==
  ASSUME IInv, SchedTake
  PROVE  /\ IInv' /\ ~ freed
         /\ \A p \in Puppets : Pipeline(p)' =
               IF p = current THEN Append(Pipeline(p), Head(pending)) ELSE Pipeline(p)
<1>. TypeOK /\ FreedAfterJoin /\ PipelineIsActive /\ PipelineFits /\ PipelineCompatible
  BY DEF IInv
<1>c. PICK c \in Puppets : c = current
  BY DEF TypeOK
<1> DEFINE t == Head(pending)
<1>1. /\ schedPc = "pending" /\ schedPc' = "publish" /\ pending # <<>>
      /\ ~ Full(c) /\ ~ conflicts_with_active(t)
      /\ taken' = t /\ pending' = Tail(pending)
      /\ active' = [active EXCEPT ![c] = Append(@, t)]
      /\ pmlog_record(t, "SCHED_READY")
      /\ UNCHANGED <<drainAt, current, clientVars, sched, done, puppetVars, mainVars>>
  BY <1>c DEF SchedTake
<1>2. t \in Txns /\ Tail(pending) \in Seq(Txns)
  BY <1>1, HeadTailProperties DEF TypeOK
<1>3. c \in Puppets /\ ~ freed /\ ~ freed' /\ taken = NoTxn /\ t # NoTxn
  BY <1>1, <1>2, NoTxnNotTxn DEF TypeOK, FreedAfterJoin, mainVars
<1>4. \A p \in Puppets : active[p] = Pipeline(p)
  BY <1>3 DEF PipelineIsActive
<1>5. Append(active[c], t) \in Seq(Txns)
  BY <1>2, <1>3, AppendProperties DEF TypeOK
<1>6. TypeOK'
  <2>1. events' \in [Txns -> Seq(Kinds)]
    BY <1>1, <1>2, LogType DEF Kinds
  <2>2. active' \in [Puppets -> Seq(Txns)]
    BY <1>1, <1>5 DEF TypeOK
  <2> QED BY <1>1, <1>2, <1>3, <2>1, <2>2, SchedType DEF TypeOK
<1>7. Pipeline(c)' = Append(Pipeline(c), t)
  <2> DEFINE b == done[c] \o OptSeq(puppetTxn[c]) \o sched[c]
  <2>1. Unpublished(c) = <<>> /\ Unpublished(c)' = <<t>>
    BY <1>c, <1>1, <1>3 DEF Unpublished, OptSeq
  <2>2. UNCHANGED <<done, puppetTxn, sched, current>>
    BY <1>1 DEF puppetVars
  <2>3. b \in Seq(Txns)
    BY <1>3, PipelineType
  <2>4. Pipeline(c) = b \o <<>> /\ Pipeline(c)' = b \o <<t>>
    BY <2>1, <2>2 DEF Pipeline
  <2> HIDE DEF b, t
  <2> QED BY <1>2, <2>3, <2>4, ConcatEmptySeq, AppendIsConcat
<1>8. ASSUME NEW p \in Puppets, p # c PROVE Pipeline(p)' = Pipeline(p)
  <2>1. Unpublished(p)' = Unpublished(p)
    BY <1>c, <1>1, <1>8 DEF Unpublished, OptSeq
  <2> QED BY <1>1, <2>1 DEF Pipeline, puppetVars
<1> HIDE DEF t
<1>9. PipelineIsActive'
  <2>1. \A p \in Puppets : active'[p] = IF p = c THEN Append(active[c], t) ELSE active[p]
    BY <1>1, <1>3 DEF TypeOK
  <2> QED BY <2>1, <1>3, <1>4, <1>7, <1>8 DEF PipelineIsActive
<1>10. PipelineFits'
  <2>1. /\ Len(Append(Pipeline(c), t)) = Len(Pipeline(c)) + 1 /\ Len(Pipeline(c)) \in Nat
        /\ ActiveCapacity \in Nat
    BY <1>2, <1>3, PipelineType, AppendProperties, LenProperties, SwAssumption
       DEF ActiveCapacity
  <2>2. Len(Pipeline(c)) < ActiveCapacity
    BY <1>1, <1>3, <1>4, <2>1 DEF Full
  <2>3. Len(Pipeline(c)') <= ActiveCapacity
    BY <1>7, <2>1, <2>2
  <2> QED BY <1>8, <2>3 DEF PipelineFits
<1>11. PipelineCompatible'
  <2>1. RangeOf(Pipeline(c)') = RangeOf(Pipeline(c)) \cup {t}
    BY <1>2, <1>3, <1>7, PipelineType, RangeAppend
  <2>2. \A p \in Puppets : \A u \in RangeOf(Pipeline(p)) :
          u \in Txns /\ ~ check_txn_conflict(t, u)
    BY <1>1, <1>4, PipelineType DEF conflicts_with_active, RangeOf
  <2>3. \A p \in Puppets : \A u \in RangeOf(Pipeline(p)) : ~ check_txn_conflict(u, t)
    BY <1>2, <2>2, ConflictSymmetric
  <2>4. \A p \in Puppets : \A u \in RangeOf(Pipeline(p)') :
          u = t \/ u \in RangeOf(Pipeline(p))
    BY <1>8, <2>1
  <2>5. \A p \in Puppets : \A u \in RangeOf(Pipeline(p)') :
          u = t \/ (~ check_txn_conflict(t, u) /\ ~ check_txn_conflict(u, t))
    BY <2>2, <2>3, <2>4
  <2> SUFFICES ASSUME NEW p \in Puppets, NEW r \in Puppets,
                      NEW u \in RangeOf(Pipeline(p)'), NEW v \in RangeOf(Pipeline(r)'),
                      u # v
               PROVE  ~ check_txn_conflict(u, v)
    BY DEF PipelineCompatible
  <2>6. CASE u = t \/ v = t
    BY <2>5, <2>6
  <2>7. CASE u # t /\ v # t
    BY <2>4, <2>7 DEF PipelineCompatible
  <2> QED BY <2>6, <2>7
<1>12. \A p \in Puppets : Pipeline(p)' = IF p = c THEN Append(Pipeline(p), t)
                                                ELSE Pipeline(p)
  BY <1>7, <1>8
<1> QED BY <1>c, <1>3, <1>6, <1>9, <1>10, <1>11, <1>12 DEF IInv, FreedAfterJoin, t

-----------------------------------------------------------------------------
(* The theorems.                                                           *)

LEMMA NextIInv == IInv /\ [Next]_vars => IInv'
<1> SUFFICES ASSUME IInv, [Next]_vars PROVE IInv'
  OBVIOUS
<1>1. CASE ClientStep
  BY <1>1, ClientInv
<1>2. CASE SchedStep
  BY <1>2, SchedIdleInv, SchedPublishInv, SchedDrainDeqInv, SchedTakeInv DEF SchedStep
<1>3. CASE \E p \in Puppets : PuppetStep(p)
  BY <1>3, PuppetInv
<1>4. CASE MainLoop \/ MainShutdown
  BY <1>4, MainInv
<1>5. CASE UNCHANGED vars
  <2>1. \A p \in Puppets : Pipeline(p)' = Pipeline(p)
    BY <1>5 DEF vars, Pipeline, Unpublished, schedVars, puppetVars
  <2>2. UNCHANGED <<clientVars, pending, schedVars, mainVars, sched, done, puppetPc,
                    puppetTxn, completed, events>>
    BY <1>5 DEF vars, puppetVars
  <2>3. TypeOK'
    BY <2>2, PuppetType DEF IInv, TypeOK, Holding
  <2> QED BY <2>1, <2>2, <2>3, SamePipelines DEF IInv, FreedAfterJoin, schedVars, mainVars
<1> QED BY <1>1, <1>2, <1>3, <1>4, <1>5 DEF Next, Terminated

\* The inductive invariant holds in every reachable state.
THEOREM PipelineInvariant == Spec => []IInv
BY InitIInv, NextIInv, PTL DEF Spec

\* Every variable keeps its type.
THEOREM TypeCorrect == Spec => []TypeOK
<1>1. IInv => TypeOK
  BY DEF IInv
<1> QED BY <1>1, PipelineInvariant, PTL

\* The scheduler's private list is what travels through the puppet.
THEOREM QueuesAgree == Spec => []QueueAgreement
<1>1. IInv => QueueAgreement
  BY DEF IInv, PipelineIsActive, QueueAgreement, Pipeline
<1> QED BY <1>1, PipelineInvariant, PTL

\* Two transactions out with the puppets at the same time never conflict.
THEOREM MutualExclusion == Spec => []NoConflictInFlight
<1>1. IInv => NoConflictInFlight
  <2> SUFFICES ASSUME IInv, NEW t \in InFlight, NEW u \in InFlight, t # u
               PROVE  ~ check_txn_conflict(t, u)
    BY DEF NoConflictInFlight
  <2>. TypeOK
    BY DEF IInv
  <2>1. ASSUME NEW v \in InFlight PROVE \E p \in Puppets : v \in RangeOf(Pipeline(p))
    <3>1. CASE v = taken
      <4>1. current \in Puppets /\ taken \in Txns \cup {NoTxn} /\ v # NoTxn
        BY <2>1, <3>1 DEF TypeOK, InFlight
      <4>2. v \in RangeOf(Unpublished(current))
        BY <3>1, <4>1, OptSeqType DEF Unpublished
      <4> QED BY <4>1, <4>2, PipelineRange
    <3>2. CASE \E p \in Puppets : v \in RangeOf(sched[p])
      BY <3>2, PipelineRange
    <3>3. CASE \E p \in Puppets : v = puppetTxn[p]
      <4>1. v # NoTxn
        BY <2>1 DEF InFlight
      <4> QED BY <3>3, <4>1, PipelineRange
    <3>4. \/ v = taken \/ \E p \in Puppets : v \in RangeOf(sched[p])
          \/ \E p \in Puppets : v = puppetTxn[p]
      BY <2>1 DEF InFlight
    <3> QED BY <3>1, <3>2, <3>3, <3>4
  <2> QED BY <2>1 DEF IInv, PipelineCompatible
<1> QED BY <1>1, PipelineInvariant, PTL

\* No ASSERT of the scheduler fails and no report waits for room.
THEOREM NoAssertionFails == Spec => []AssertionsHold
<1>1. IInv => AssertionsHold
  <2> SUFFICES ASSUME IInv PROVE AssertionsHold
    OBVIOUS
  <2>. /\ TypeOK /\ PipelineIsActive /\ PipelineFits /\ FreedAfterJoin
    BY DEF IInv
  <2>1. ASSUME schedPc = "drainDeq", done[drainAt] # <<>>
        PROVE  active[drainAt] # <<>> /\ Head(active[drainAt]) = Head(done[drainAt])
    <3>1. drainAt \in Puppets /\ ~ freed
      BY <2>1 DEF TypeOK, FreedAfterJoin
    <3> QED BY <2>1, <3>1, PipelineHead DEF PipelineIsActive
  <2>2. ActiveCapacity \in Nat
    BY SwAssumption DEF ActiveCapacity
  <2>3. ASSUME schedPc = "publish" PROVE Len(active[current]) <= ActiveCapacity
    <3>1. current \in Puppets /\ ~ freed
      BY <2>3 DEF TypeOK, FreedAfterJoin
    <3> QED BY <3>1 DEF PipelineIsActive, PipelineFits
  <2>4. ASSUME NEW p \in Puppets
        PROVE  /\ Len(done[p]) \in Nat /\ Len(sched[p]) \in Nat
               /\ Len(OptSeq(puppetTxn[p])) \in Nat /\ Len(Unpublished(p)) \in Nat
               /\ Len(done[p]) + Len(OptSeq(puppetTxn[p])) + Len(sched[p])
                    + Len(Unpublished(p)) <= ActiveCapacity
    <3>1. done[p] \in Seq(Txns) /\ sched[p] \in Seq(Txns)
      BY DEF TypeOK
    <3> QED BY <3>1, PipelineType, PipelineRange, LenProperties DEF PipelineFits
  <2>7. \A d, o, s, u, k \in Nat :
          d + o + s + u <= k => (o = 1 => d < k) /\ (u = 1 => s < k)
    OBVIOUS
  <2>5. ASSUME schedPc = "publish" PROVE Len(sched[current]) < ActiveCapacity
    <3>1. current \in Puppets /\ taken \in Txns
      BY <2>5 DEF TypeOK
    <3>2. Len(Unpublished(current)) = 1
      BY <3>1, NoTxnNotTxn DEF Unpublished, OptSeq
    <3> QED BY <2>2, <2>4, <2>7, <3>1, <3>2
  <2>6. ASSUME NEW p \in Puppets, puppetPc[p] = "report"
        PROVE  Len(done[p]) < ActiveCapacity
    <3>1. Len(OptSeq(puppetTxn[p])) = 1
      BY <2>6, NoTxnNotTxn DEF TypeOK, Holding, OptSeq
    <3> QED BY <2>2, <2>4, <2>7, <3>1
  <2> QED BY <2>1, <2>3, <2>5, <2>6 DEF AssertionsHold
<1> QED BY <1>1, PipelineInvariant, PTL
-----------------------------------------------------------------------------
(***************************************************************************)
(* Where each transaction is and what has been logged of it: the pending   *)
(* queue holds the transactions just before the client's, no transaction   *)
(* is twice in the pipelines, and the place of a transaction tells how far *)
(* its log has got.  Conflicting transactions in submission order, the     *)
(* order of the events, what main's counters and its shutdown rely on, and *)
(* the refinement of TxnScheduling follow.                                 *)
(***************************************************************************)
Life == <<"SUBMIT", "SCHED_READY", "WORK_RECV", "DONE", "CLEANUP">>
Upto(n) == SubSeq(Life, 1, n)

Distinct(s) == \A i, j \in 1..Len(s) : s[i] = s[j] => i = j

\* The oldest transaction the scheduler has not taken yet.
Oldest == next - Len(pending)

PendingInOrder ==
  /\ Len(pending) < next
  /\ \A i \in 1..Len(pending) : pending[i] = Oldest - 1 + i

PipelinesDistinct ==
  /\ \A p \in Puppets : Distinct(Pipeline(p))
  /\ \A p, q \in Puppets :
       p # q => RangeOf(Pipeline(p)) \cap RangeOf(Pipeline(q)) = {}
  /\ \A p \in Puppets : \A t \in RangeOf(Pipeline(p)) : t < Oldest

ClientAt ==
  /\ next \in Txns <=> clientPc # "exited"
  /\ clientPc = "log" => events[next] = Upto(0)
  /\ clientPc = "enq" => events[next] = Upto(1)
  /\ \A t \in Txns : t > next => events[t] = Upto(0)

StageAt(p) ==
  /\ \A t \in RangeOf(sched[p]) : events[t] = Upto(2)
  /\ puppetPc[p] = "recv" => events[puppetTxn[p]] = Upto(2)
  /\ puppetPc[p] = "work" => events[puppetTxn[p]] = Upto(3)
  /\ puppetPc[p] = "report" => events[puppetTxn[p]] = Upto(4)
  /\ \A t \in RangeOf(done[p]) : events[t] = Upto(4)

Stages ==
  /\ \A t \in RangeOf(pending) : events[t] = Upto(1)
  /\ taken # NoTxn => events[taken] = Upto(2)
  /\ \A p \in Puppets : StageAt(p)

\* A transaction that has been submitted and is nowhere has been cleaned up.
RestIsClean ==
  \A t \in Txns :
    t < Oldest /\ (\A p \in Puppets : t \notin RangeOf(Pipeline(p)))
      => events[t] = Upto(5)

OInv == PendingInOrder /\ PipelinesDistinct /\ ClientAt /\ Stages /\ RestIsClean

-----------------------------------------------------------------------------
(* Sequences without repetition.                                           *)

LEMMA DistinctTail ==
  ASSUME NEW S, NEW s \in Seq(S), s # <<>>, Distinct(s)
  PROVE  /\ Distinct(Tail(s))
         /\ Head(s) \notin RangeOf(Tail(s))
         /\ RangeOf(s) = RangeOf(Tail(s)) \cup {Head(s)}
<1>1. /\ Len(Tail(s)) = Len(s) - 1 /\ Len(s) \in Nat \ {0} /\ Head(s) = s[1]
      /\ \A i \in 1..Len(Tail(s)) : Tail(s)[i] = s[i + 1]
  BY HeadTailProperties, EmptySeq
<1>2. Distinct(Tail(s))
  BY <1>1 DEF Distinct
<1>3. Head(s) \notin RangeOf(Tail(s))
  BY <1>1 DEF Distinct, RangeOf
<1>4. ASSUME NEW i \in 1..Len(s), i # 1
      PROVE  i - 1 \in 1..Len(Tail(s)) /\ s[i] = Tail(s)[i - 1]
  BY <1>1, <1>4
<1>5. RangeOf(s) \subseteq RangeOf(Tail(s)) \cup {Head(s)}
  BY <1>1, <1>4 DEF RangeOf
<1>6. RangeOf(Tail(s)) \cup {Head(s)} \subseteq RangeOf(s)
  BY <1>1 DEF RangeOf
<1> QED BY <1>2, <1>3, <1>5, <1>6

LEMMA DistinctAppend ==
  ASSUME NEW S, NEW s \in Seq(S), NEW e \in S, Distinct(s), e \notin RangeOf(s)
  PROVE  Distinct(Append(s, e))
<1>1. /\ Len(Append(s, e)) = Len(s) + 1 /\ Len(s) \in Nat
      /\ \A i \in 1..Len(s) : Append(s, e)[i] = s[i]
      /\ Append(s, e)[Len(s) + 1] = e
  BY AppendProperties, LenProperties
<1> QED BY <1>1 DEF Distinct, RangeOf

LEMMA DistinctConcat ==
  ASSUME NEW S, NEW s \in Seq(S), NEW t \in Seq(S), Distinct(s \o t)
  PROVE  Distinct(s) /\ Distinct(t) /\ RangeOf(s) \cap RangeOf(t) = {}
<1>1. /\ Len(s \o t) = Len(s) + Len(t) /\ Len(s) \in Nat /\ Len(t) \in Nat
      /\ \A i \in 1..(Len(s) + Len(t)) :
           (s \o t)[i] = IF i <= Len(s) THEN s[i] ELSE t[i - Len(s)]
  BY ConcatProperties, LenProperties
<1>2. \A i \in 1..Len(s) : i \in 1..Len(s \o t) /\ (s \o t)[i] = s[i]
  BY <1>1
<1>3. \A i \in 1..Len(t) :
        Len(s) + i \in 1..Len(s \o t) /\ (s \o t)[Len(s) + i] = t[i]
  BY <1>1
<1>4. Distinct(s)
  BY <1>2 DEF Distinct
<1>5. Distinct(t)
  <2> SUFFICES ASSUME NEW i \in 1..Len(t), NEW j \in 1..Len(t), t[i] = t[j]
               PROVE  i = j
    BY DEF Distinct
  <2>1. Len(s) + i = Len(s) + j
    BY <1>3 DEF Distinct
  <2> QED BY <2>1, <1>1
<1>6. ASSUME NEW i \in 1..Len(s), NEW j \in 1..Len(t), s[i] = t[j] PROVE FALSE
  <2>1. i = Len(s) + j
    BY <1>2, <1>3, <1>6 DEF Distinct
  <2> QED BY <2>1, <1>1
<1> QED BY <1>4, <1>5, <1>6 DEF RangeOf

-----------------------------------------------------------------------------
(* The events of a transaction's life.                                     *)

LEMMA LifeIs ==
  /\ Life \in Seq(Kinds) /\ Len(Life) = 5
  /\ Life[1] = "SUBMIT" /\ Life[2] = "SCHED_READY" /\ Life[3] = "WORK_RECV"
  /\ Life[4] = "DONE" /\ Life[5] = "CLEANUP"
BY DEF Life, Kinds

LEMMA UptoType ==
  ASSUME NEW n \in 0..5
  PROVE  /\ Upto(n) \in Seq(Kinds) /\ Len(Upto(n)) = n
         /\ \A i \in 1..n : Upto(n)[i] = Life[i]
<1>1. \A i \in 1..n : i \in 1..Len(Life)
  BY LifeIs
<1>2. \A i \in 1..n : Life[i] \in Kinds
  BY <1>1, LifeIs, ElementOfSeq
<1> QED BY <1>2, SubSeqProperties DEF Upto

LEMMA UptoStep ==
  /\ Upto(0) = <<>>
  /\ Append(Upto(0), "SUBMIT") = Upto(1)
  /\ Append(Upto(1), "SCHED_READY") = Upto(2)
  /\ Append(Upto(2), "WORK_RECV") = Upto(3)
  /\ Append(Upto(3), "DONE") = Upto(4)
  /\ Append(Upto(4), "CLEANUP") = Upto(5)
<1>1. ASSUME NEW n \in 0..4 PROVE Append(Upto(n), Life[n + 1]) = Upto(n + 1)
  <2>0. n \in 0..5 /\ n + 1 \in 0..5 /\ n + 1 \in 1..Len(Life)
    BY LifeIs
  <2>1. /\ Upto(n) \in Seq(Kinds) /\ Len(Upto(n)) = n
        /\ \A i \in 1..n : Upto(n)[i] = Life[i]
    BY <2>0, UptoType
  <2>2. /\ Upto(n + 1) \in Seq(Kinds) /\ Len(Upto(n + 1)) = n + 1
        /\ \A i \in 1..(n + 1) : Upto(n + 1)[i] = Life[i]
    BY <2>0, UptoType
  <2>3. Life[n + 1] \in Kinds
    BY <2>0, LifeIs, ElementOfSeq
  <2>4. /\ Append(Upto(n), Life[n + 1]) \in Seq(Kinds)
        /\ Len(Append(Upto(n), Life[n + 1])) = n + 1
        /\ \A i \in 1..n : Append(Upto(n), Life[n + 1])[i] = Upto(n)[i]
        /\ Append(Upto(n), Life[n + 1])[n + 1] = Life[n + 1]
    BY <2>1, <2>3, AppendProperties
  <2> QED BY <2>1, <2>2, <2>4, SeqEqual
<1>2. Upto(0) = <<>>
  BY SubSeqEmpty DEF Upto
<1>3. 0 + 1 = 1 /\ 1 + 1 = 2 /\ 2 + 1 = 3 /\ 3 + 1 = 4 /\ 4 + 1 = 5
  OBVIOUS
<1> QED BY <1>1, <1>2, <1>3, LifeIs

\* Which events there are tells how far the log has got.
LEMMA UptoHas ==
  ASSUME NEW n \in 0..5
  PROVE  /\ "SCHED_READY" \in RangeOf(Upto(n)) <=> n >= 2
         /\ "DONE" \in RangeOf(Upto(n)) <=> n >= 4
         /\ "CLEANUP" \in RangeOf(Upto(n)) <=> n >= 5
<1>1. \A kind : kind \in RangeOf(Upto(n)) <=> \E i \in 1..n : kind = Life[i]
  BY UptoType DEF RangeOf
<1>2. \A i \in 1..n : i \in {1, 2, 3, 4, 5}
  OBVIOUS
<1> QED BY <1>1, <1>2, LifeIs

-----------------------------------------------------------------------------
(* A transaction is in one place.                                          *)

LEMMA OwnPlaces ==
  ASSUME TypeOK, NEW p \in Puppets, Distinct(Pipeline(p))
  PROVE  /\ RangeOf(done[p]) \cap RangeOf(sched[p]) = {}
         /\ puppetTxn[p] \notin RangeOf(done[p]) \cup RangeOf(sched[p])
         /\ Distinct(sched[p]) /\ Distinct(done[p])
         /\ RangeOf(Unpublished(p)) \cap RangeOf(done[p]) = {}
         /\ RangeOf(Unpublished(p)) \cap RangeOf(sched[p]) = {}
         /\ puppetTxn[p] \notin RangeOf(Unpublished(p))
<1> DEFINE o == OptSeq(puppetTxn[p])
           u == Unpublished(p)
           a == done[p] \o o
           b == a \o sched[p]
<1>1. /\ done[p] \in Seq(Txns) /\ sched[p] \in Seq(Txns) /\ o \in Seq(Txns)
      /\ u \in Seq(Txns) /\ a \in Seq(Txns) /\ b \in Seq(Txns)
      /\ puppetTxn[p] \in Txns \cup {NoTxn}
  BY PipelineType DEF TypeOK
<1>2. RangeOf(o) = {puppetTxn[p]} \ {NoTxn}
  BY <1>1, OptSeqType
<1>3. Distinct(b \o u)
  BY DEF Pipeline
<1> HIDE DEF o, u
<1>4. Distinct(b) /\ RangeOf(b) \cap RangeOf(u) = {}
  <2> HIDE DEF b
  <2> QED BY <1>1, <1>3, DistinctConcat
<1>5. /\ Distinct(a) /\ Distinct(sched[p]) /\ RangeOf(a) \cap RangeOf(sched[p]) = {}
      /\ RangeOf(b) = RangeOf(a) \cup RangeOf(sched[p])
  <2> HIDE DEF a
  <2> QED BY <1>1, <1>4, DistinctConcat, RangeConcat DEF b
<1>6. /\ Distinct(done[p]) /\ RangeOf(done[p]) \cap RangeOf(o) = {}
      /\ RangeOf(a) = RangeOf(done[p]) \cup RangeOf(o)
  BY <1>1, <1>5, DistinctConcat, RangeConcat DEF a
<1>7. NoTxn \notin RangeOf(done[p]) \cup RangeOf(sched[p]) \cup RangeOf(u)
  BY <1>1, NoTxnNotTxn, ElementOfSeq DEF RangeOf
<1> QED BY <1>2, <1>4, <1>5, <1>6, <1>7 DEF u

\* What the invariant says of two transactions' places, in one list.
LEMMA Places ==
  ASSUME TypeOK, PipelinesDistinct, NEW p \in Puppets, NEW q \in Puppets
  PROVE  /\ RangeOf(done[p]) \cap RangeOf(sched[q]) = {}
         /\ puppetTxn[p] \notin RangeOf(done[q]) \cup RangeOf(sched[q])
         /\ taken \notin RangeOf(done[p]) \cup RangeOf(sched[p])
         /\ taken # NoTxn => taken # puppetTxn[p]
         /\ p # q /\ puppetTxn[p] # NoTxn => puppetTxn[p] # puppetTxn[q]
         /\ p # q => RangeOf(done[p]) \cap RangeOf(done[q]) = {}
         /\ p # q => RangeOf(sched[p]) \cap RangeOf(sched[q]) = {}
<1>1. \A r \in Puppets :
        RangeOf(Pipeline(r)) = RangeOf(done[r]) \cup ({puppetTxn[r]} \ {NoTxn})
                 \cup RangeOf(sched[r]) \cup RangeOf(Unpublished(r))
  BY PipelineRange
<1>2. \A r \in Puppets : done[r] \in Seq(Txns) /\ sched[r] \in Seq(Txns)
  BY DEF TypeOK
<1>3. \A r \in Puppets : NoTxn \notin RangeOf(done[r]) \cup RangeOf(sched[r])
  BY <1>2, NoTxnNotTxn, ElementOfSeq DEF RangeOf
<1>4. RangeOf(Unpublished(current)) = {taken} \ {NoTxn} /\ current \in Puppets
  BY OptSeqType DEF Unpublished, TypeOK
<1>5. \A r \in Puppets : r # q => RangeOf(Pipeline(r)) \cap RangeOf(Pipeline(q)) = {}
  BY DEF PipelinesDistinct
<1>6. /\ RangeOf(done[p]) \cap RangeOf(sched[p]) = {}
      /\ puppetTxn[p] \notin RangeOf(done[p]) \cup RangeOf(sched[p])
      /\ RangeOf(Unpublished(p)) \cap RangeOf(done[p]) = {}
      /\ RangeOf(Unpublished(p)) \cap RangeOf(sched[p]) = {}
      /\ puppetTxn[p] \notin RangeOf(Unpublished(p))
  BY OwnPlaces DEF PipelinesDistinct
<1>7. p # q => /\ RangeOf(done[p]) \cap RangeOf(sched[q]) = {}
               /\ puppetTxn[p] \notin RangeOf(done[q]) \cup RangeOf(sched[q])
               /\ puppetTxn[p] # NoTxn => puppetTxn[p] # puppetTxn[q]
               /\ RangeOf(done[p]) \cap RangeOf(done[q]) = {}
               /\ RangeOf(sched[p]) \cap RangeOf(sched[q]) = {}
  BY <1>1, <1>3, <1>5
<1>8. /\ taken \notin RangeOf(done[p]) \cup RangeOf(sched[p])
      /\ taken # NoTxn => taken # puppetTxn[p]
  <2>1. CASE p = current
    BY <1>3, <1>4, <1>6, <2>1
  <2>2. CASE p # current
    <3>1. RangeOf(Pipeline(p)) \cap RangeOf(Pipeline(current)) = {}
      BY <1>4, <2>2 DEF PipelinesDistinct
    <3> QED BY <1>1, <1>3, <1>4, <3>1
  <2> QED BY <2>1, <2>2
<1>9. /\ RangeOf(done[p]) \cap RangeOf(sched[q]) = {}
      /\ puppetTxn[p] \notin RangeOf(done[q]) \cup RangeOf(sched[q])
  <2>1. CASE p = q
    BY <1>6, <2>1
  <2>2. CASE p # q
    BY <1>7, <2>2
  <2> QED BY <2>1, <2>2
<1> QED BY <1>7, <1>8, <1>9

\* Every transaction in a pipeline is older than those pending.
LEMMA InPipeline ==
  ASSUME TypeOK, PipelinesDistinct
  PROVE  /\ \A p \in Puppets : \A t \in RangeOf(done[p]) \cup RangeOf(sched[p]) :
              t \in Txns /\ t < Oldest
         /\ \A p \in Puppets :
              Holding(p) => puppetTxn[p] \in Txns /\ puppetTxn[p] < Oldest
         /\ taken # NoTxn => taken \in Txns /\ taken < Oldest
<1>1. \A r \in Puppets :
        RangeOf(Pipeline(r)) = RangeOf(done[r]) \cup ({puppetTxn[r]} \ {NoTxn})
                 \cup RangeOf(sched[r]) \cup RangeOf(Unpublished(r))
  BY PipelineRange
<1>2. RangeOf(Unpublished(current)) = {taken} \ {NoTxn} /\ current \in Puppets
  BY OptSeqType DEF Unpublished, TypeOK
<1>3. \A r \in Puppets : \A t \in RangeOf(Pipeline(r)) : t \in Txns /\ t < Oldest
  BY PipelineType, ElementOfSeq DEF PipelinesDistinct, RangeOf
<1>4. \A p \in Puppets : Holding(p) => puppetTxn[p] # NoTxn
  BY DEF TypeOK
<1> QED BY <1>1, <1>2, <1>3, <1>4

\* Those pending are the ones from Oldest to the one before the client's.
LEMMA PendingRange ==
  ASSUME TypeOK, PendingInOrder
  PROVE  /\ RangeOf(pending) = Oldest..(next - 1)
         /\ RangeOf(pending) \subseteq Txns
         /\ Oldest \in Nat \ {0} /\ Len(pending) \in Nat /\ next \in Nat
         /\ pending # <<>> => Oldest < next /\ Head(pending) = Oldest
<1>1. Len(pending) \in Nat /\ next \in Nat \ {0}
  BY LenProperties DEF TypeOK
<1>2. ASSUME NEW t \in Oldest..(next - 1)
      PROVE  t - Oldest + 1 \in 1..Len(pending) /\ pending[t - Oldest + 1] = t
  BY <1>1 DEF PendingInOrder, Oldest
<1>3. Oldest..(next - 1) \subseteq RangeOf(pending)
  BY <1>2 DEF RangeOf
<1>4. RangeOf(pending) \subseteq Oldest..(next - 1)
  BY <1>1 DEF RangeOf, PendingInOrder, Oldest
<1>5. pending # <<>> => Len(pending) >= 1 /\ Head(pending) = pending[1]
  BY EmptySeq DEF TypeOK
<1>6. Oldest \in Nat \ {0}
  BY <1>1 DEF PendingInOrder, Oldest
<1>7. ASSUME pending # <<>> PROVE Oldest < next /\ Head(pending) = Oldest
  BY <1>1, <1>5, <1>7 DEF PendingInOrder, Oldest
<1>8. RangeOf(pending) \subseteq Txns
  BY ElementOfSeq DEF TypeOK, RangeOf
<1> QED BY <1>1, <1>3, <1>4, <1>6, <1>7, <1>8

-----------------------------------------------------------------------------
(* The steps.                                                              *)

LEMMA LogStep ==
  ASSUME TypeOK, NEW x \in Txns, NEW kind, pmlog_record(x, kind)
  PROVE  /\ events'[x] = Append(events[x], kind)
         /\ \A t \in Txns : t # x => events'[t] = events[t]
BY DEF pmlog_record, TypeOK

\* A step that moves no transaction and only logs x keeps what is said of the
\* others.
LEMMA StageKept ==
  ASSUME TypeOK, PipelinesDistinct, NEW p \in Puppets, StageAt(p), NEW x,
         \A t \in Txns : t # x => events'[t] = events[t],
         x \notin RangeOf(done[p]) \cup RangeOf(sched[p]),
         Holding(p) => x # puppetTxn[p],
         sched'[p] = sched[p], done'[p] = done[p], puppetTxn'[p] = puppetTxn[p],
         puppetPc'[p] \in {"recv", "work", "report"} => puppetPc'[p] = puppetPc[p]
  PROVE  StageAt(p)'
<1>1. \A t \in RangeOf(done[p]) \cup RangeOf(sched[p]) : t \in Txns
  BY InPipeline
<1>2. Holding(p) => puppetTxn[p] \in Txns
  BY DEF TypeOK
<1> QED BY <1>1, <1>2 DEF StageAt, Holding

LEMMA RestKept ==
  ASSUME RestIsClean, Oldest' = Oldest, NEW x,
         \A p \in Puppets : Pipeline(p)' = Pipeline(p),
         \A t \in Txns : t # x => events'[t] = events[t],
         ~ x < Oldest \/ \E p \in Puppets : x \in RangeOf(Pipeline(p))
  PROVE  RestIsClean'
BY DEF RestIsClean

LEMMA DistinctKept ==
  ASSUME PipelinesDistinct, Oldest' = Oldest,
         \A p \in Puppets : Pipeline(p)' = Pipeline(p)
  PROVE  PipelinesDistinct'
BY DEF PipelinesDistinct

\* Nothing moves and nothing is logged.
LEMMA IdleOrder ==
  ASSUME TypeOK, OInv, \A p \in Puppets : Pipeline(p)' = Pipeline(p),
         UNCHANGED <<clientPc, next, pending, taken, sched, done, puppetTxn, events>>,
         \A p \in Puppets : puppetPc'[p] \in {"recv", "work", "report"}
                              => puppetPc'[p] = puppetPc[p]
  PROVE  OInv'
<1>. PendingInOrder /\ PipelinesDistinct /\ ClientAt /\ Stages /\ RestIsClean
  BY DEF OInv
<1>1. Oldest' = Oldest
  BY DEF Oldest
<1>2. PipelinesDistinct' /\ PendingInOrder' /\ ClientAt'
  BY <1>1, DistinctKept DEF PendingInOrder, ClientAt
<1>3. RestIsClean'
  BY <1>1 DEF RestIsClean
<1>4. \A p \in Puppets : StageAt(p)'
  BY DEF Stages, StageAt
<1> QED BY <1>2, <1>3, <1>4 DEF OInv, Stages

LEMMA ClientLogOrder == ASSUME IInv, OInv, ClientLog PROVE OInv'
<1>. /\ PendingInOrder /\ PipelinesDistinct /\ ClientAt /\ Stages /\ RestIsClean
     /\ TypeOK
  BY DEF OInv, IInv
<1>1. /\ clientPc = "log" /\ clientPc' = "enq" /\ pmlog_record(next, "SUBMIT")
      /\ UNCHANGED <<next, pending, taken, current, sched, done, puppetPc, puppetTxn>>
  BY DEF ClientLog, schedVars, puppetVars
<1>2. next \in Txns
  BY <1>1 DEF ClientAt
<1>3. /\ events'[next] = Append(events[next], "SUBMIT")
      /\ \A t \in Txns : t # next => events'[t] = events[t]
  BY <1>1, <1>2, LogStep
<1>4. \A p \in Puppets : Pipeline(p)' = Pipeline(p)
  BY <1>1 DEF Pipeline, Unpublished
<1>5. /\ Oldest' = Oldest /\ Oldest \in Nat \ {0} /\ next \in Nat /\ Oldest <= next
      /\ RangeOf(pending) = Oldest..(next - 1)
  BY <1>1, PendingRange DEF Oldest
<1>6. PendingInOrder' /\ PipelinesDistinct'
  BY <1>1, <1>4, <1>5, DistinctKept DEF PendingInOrder
<1>7. ClientAt'
  <2>1. events'[next] = Upto(1)
    BY <1>1, <1>3, UptoStep DEF ClientAt
  <2>2. \A t \in Txns : t > next => t # next
    BY <1>5 DEF Txns
  <2> QED BY <1>1, <1>2, <1>3, <2>1, <2>2 DEF ClientAt
<1>8. RestIsClean'
  <2>1. ~ next < Oldest
    BY <1>5
  <2> QED BY <1>3, <1>4, <1>5, <2>1, RestKept
<1>9. \A t \in Txns : t < next => events'[t] = events[t]
  BY <1>3, <1>5
<1>10. \A t \in Txns : t < Oldest => t < next /\ t # next
  BY <1>5 DEF Txns
<1>11. ASSUME NEW p \in Puppets PROVE StageAt(p)'
  <2>1. next \notin RangeOf(done[p]) \cup RangeOf(sched[p])
    BY <1>10, InPipeline
  <2>2. Holding(p) => next # puppetTxn[p]
    BY <1>10, InPipeline
  <2> QED BY <1>1, <1>3, <2>1, <2>2, StageKept DEF Stages
<1>12. Stages'
  <2>1. \A t \in RangeOf(pending) : t \in Txns /\ t < next
    BY <1>5, PendingRange
  <2>2. taken # NoTxn => taken \in Txns /\ taken < next
    BY <1>10, InPipeline
  <2> QED BY <1>1, <1>9, <1>11, <2>1, <2>2 DEF Stages
<1> QED BY <1>6, <1>7, <1>8, <1>12 DEF OInv

LEMMA ClientEnqOrder == ASSUME IInv, OInv, ClientEnq PROVE OInv'
<1>. /\ PendingInOrder /\ PipelinesDistinct /\ ClientAt /\ Stages /\ RestIsClean
     /\ TypeOK
  BY DEF OInv, IInv
<1>1. /\ clientPc = "enq" /\ clientPc' = IF next = NumTxns THEN "exited" ELSE "log"
      /\ pending' = Append(pending, next) /\ next' = next + 1
      /\ UNCHANGED <<taken, current, sched, done, puppetPc, puppetTxn, events>>
  BY DEF ClientEnq, schedVars, puppetVars
<1>2. next \in Txns /\ NumTxns \in Nat
  BY <1>1, TransactionsAssumption DEF ClientAt
<1>3. /\ Len(pending') = Len(pending) + 1 /\ Len(pending) \in Nat
      /\ \A i \in 1..Len(pending) : pending'[i] = pending[i]
      /\ pending'[Len(pending) + 1] = next
      /\ RangeOf(pending') = RangeOf(pending) \cup {next}
  <2>1. pending \in Seq(Txns)
    BY DEF TypeOK
  <2>2. /\ Len(Append(pending, next)) = Len(pending) + 1 /\ Len(pending) \in Nat
        /\ \A i \in 1..Len(pending) : Append(pending, next)[i] = pending[i]
        /\ Append(pending, next)[Len(pending) + 1] = next
    BY <1>2, <2>1, AppendProperties, LenProperties
  <2>3. RangeOf(Append(pending, next)) = RangeOf(pending) \cup {next}
    BY <1>2, <2>1, RangeAppend
  <2> QED BY <1>1, <2>2, <2>3
<1>4. \A p \in Puppets : Pipeline(p)' = Pipeline(p)
  BY <1>1 DEF Pipeline, Unpublished
<1>5. Oldest' = Oldest
  BY <1>1, <1>2, <1>3 DEF Oldest, Txns
<1>6. PendingInOrder'
  <2>1. next \in Nat /\ Oldest - 1 + (Len(pending) + 1) = next
    BY <1>2, <1>3 DEF Oldest, Txns
  <2>2. Len(pending') < next'
    BY <1>1, <1>3, <2>1 DEF PendingInOrder
  <2>3. ASSUME NEW i \in 1..Len(pending') PROVE pending'[i] = Oldest' - 1 + i
    <3>1. CASE i = Len(pending) + 1
      BY <1>3, <1>5, <2>1, <3>1
    <3>2. CASE i \in 1..Len(pending)
      BY <1>3, <1>5, <3>2 DEF PendingInOrder
    <3> QED BY <1>3, <3>1, <3>2
  <2> QED BY <2>2, <2>3 DEF PendingInOrder
<1>7. PipelinesDistinct' /\ RestIsClean'
  BY <1>1, <1>4, <1>5, DistinctKept DEF RestIsClean
<1>8. ClientAt'
  BY <1>1, <1>2 DEF ClientAt, Txns
<1>9. Stages'
  BY <1>1, <1>3 DEF Stages, StageAt, ClientAt
<1> QED BY <1>6, <1>7, <1>8, <1>9 DEF OInv

LEMMA PublishOrder == ASSUME IInv, OInv, SchedPublish PROVE OInv'
<1>. /\ PendingInOrder /\ PipelinesDistinct /\ ClientAt /\ Stages /\ RestIsClean
     /\ TypeOK
  BY DEF OInv, IInv
<1>1. /\ taken # NoTxn /\ taken' = NoTxn /\ current \in Puppets /\ taken \in Txns
      /\ sched' = [sched EXCEPT ![current] = Append(@, taken)]
      /\ UNCHANGED <<clientPc, next, pending, done, puppetPc, puppetTxn, events>>
  BY DEF SchedPublish, TypeOK, clientVars, puppetVars
<1>2. \A p \in Puppets : Pipeline(p)' = Pipeline(p)
  BY SchedPublishInv
<1>3. Oldest' = Oldest
  BY <1>1 DEF Oldest
<1>4. PendingInOrder' /\ PipelinesDistinct' /\ ClientAt' /\ RestIsClean'
  BY <1>1, <1>2, <1>3, DistinctKept DEF PendingInOrder, ClientAt, RestIsClean
<1>5. ASSUME NEW p \in Puppets PROVE StageAt(p)'
  <2>1. CASE p = current
    <3>1. RangeOf(sched'[p]) = RangeOf(sched[p]) \cup {taken}
      <4>1. sched[p] \in Seq(Txns) /\ sched'[p] = Append(sched[p], taken)
        BY <1>1, <2>1 DEF TypeOK
      <4> QED BY <1>1, <4>1, RangeAppend
    <3> QED BY <1>1, <3>1 DEF Stages, StageAt
  <2>2. CASE p # current
    <3>1. sched'[p] = sched[p]
      BY <1>1, <2>2 DEF TypeOK
    <3> QED BY <1>1, <3>1 DEF Stages, StageAt
  <2> QED BY <2>1, <2>2
<1>6. Stages'
  BY <1>1, <1>5 DEF Stages
<1> QED BY <1>4, <1>6 DEF OInv

LEMMA PollOrder ==
  ASSUME IInv, OInv, NEW q \in Puppets, PuppetPoll(q) PROVE OInv'
<1>. /\ PendingInOrder /\ PipelinesDistinct /\ ClientAt /\ Stages /\ RestIsClean
     /\ TypeOK
  BY DEF OInv, IInv
<1>1. /\ sched[q] # <<>> /\ sched[q] \in Seq(Txns)
      /\ sched' = [sched EXCEPT ![q] = Tail(@)]
      /\ puppetTxn' = [puppetTxn EXCEPT ![q] = Head(sched[q])]
      /\ puppetPc' = [puppetPc EXCEPT ![q] = "recv"]
      /\ UNCHANGED <<clientPc, next, pending, taken, done, events>>
  BY DEF PuppetPoll, TypeOK, clientVars, schedVars
<1>2. \A p \in Puppets : Pipeline(p)' = Pipeline(p)
  BY PuppetInv DEF PuppetStep
<1>3. Oldest' = Oldest
  BY <1>1 DEF Oldest
<1>4. PendingInOrder' /\ PipelinesDistinct' /\ ClientAt' /\ RestIsClean'
  BY <1>1, <1>2, <1>3, DistinctKept DEF PendingInOrder, ClientAt, RestIsClean
<1>5. ASSUME NEW p \in Puppets PROVE StageAt(p)'
  <2>1. CASE p = q
    <3>1. /\ Head(sched[q]) \in RangeOf(sched[q])
          /\ RangeOf(Tail(sched[q])) \subseteq RangeOf(sched[q])
      <4>1. Distinct(sched[q])
        BY OwnPlaces DEF PipelinesDistinct
      <4> QED BY <1>1, <4>1, DistinctTail
    <3>2. /\ sched'[q] = Tail(sched[q]) /\ puppetTxn'[q] = Head(sched[q])
          /\ puppetPc'[q] = "recv"
      BY <1>1 DEF TypeOK
    <3> QED BY <1>1, <2>1, <3>1, <3>2 DEF Stages, StageAt
  <2>2. CASE p # q
    <3>1. sched'[p] = sched[p] /\ puppetTxn'[p] = puppetTxn[p] /\ puppetPc'[p] = puppetPc[p]
      BY <1>1, <2>2 DEF TypeOK
    <3> QED BY <1>1, <3>1 DEF Stages, StageAt
  <2> QED BY <2>1, <2>2
<1>6. Stages'
  BY <1>1, <1>5 DEF Stages
<1> QED BY <1>4, <1>6 DEF OInv

\* The puppet logs the transaction it holds.
LEMMA HoldOrder ==
  ASSUME IInv, OInv, NEW q \in Puppets, PuppetRecv(q) \/ PuppetWorked(q) PROVE OInv'
<1>. /\ PendingInOrder /\ PipelinesDistinct /\ ClientAt /\ Stages /\ RestIsClean
     /\ TypeOK
  BY DEF OInv, IInv
<1>x. PICK x : x = puppetTxn[q]
  OBVIOUS
<1>1. /\ \/ /\ puppetPc[q] = "recv" /\ pmlog_record(x, "WORK_RECV")
            /\ puppetPc' = [puppetPc EXCEPT ![q] = "work"]
         \/ /\ puppetPc[q] = "work" /\ pmlog_record(x, "DONE")
            /\ puppetPc' = [puppetPc EXCEPT ![q] = "report"]
      /\ UNCHANGED <<clientPc, next, pending, taken, sched, done, puppetTxn>>
  BY <1>x DEF PuppetRecv, PuppetWorked, clientVars, schedVars
<1>2. \A p \in Puppets : Pipeline(p)' = Pipeline(p)
  BY PuppetInv DEF PuppetStep
<1>3. Oldest' = Oldest
  BY <1>1 DEF Oldest
<1>4. x \in Txns /\ x < Oldest /\ x # NoTxn /\ x \in RangeOf(Pipeline(q))
  <2>1. Holding(q)
    BY <1>1 DEF Holding
  <2>2. x # NoTxn
    BY <1>x, <2>1 DEF TypeOK
  <2>3. x \in RangeOf(Pipeline(q))
    BY <1>x, <2>2, PipelineRange
  <2> QED BY <1>x, <2>1, <2>2, <2>3, InPipeline
<1>5. \A t \in Txns : t # x => events'[t] = events[t]
  BY <1>1, <1>4, LogStep
<1>6. /\ Oldest \in Nat \ {0} /\ next \in Nat /\ Oldest <= next
      /\ RangeOf(pending) = Oldest..(next - 1) /\ RangeOf(pending) \subseteq Txns
  BY PendingRange DEF Oldest
<1>7. PendingInOrder' /\ PipelinesDistinct'
  BY <1>1, <1>2, <1>3, DistinctKept DEF PendingInOrder
<1>8. RestIsClean'
  BY <1>2, <1>3, <1>4, <1>5, RestKept
<1>9. \A t \in Txns : t >= Oldest => t # x
  BY <1>4, <1>6 DEF Txns
<1>10. ClientAt'
  <2>1. \A t \in Txns : t >= next => events'[t] = events[t]
    BY <1>5, <1>6, <1>9 DEF Txns
  <2>2. next \in Txns => next >= next
    BY <1>6
  <2>3. \A t \in Txns : t > next => t >= next
    BY <1>6 DEF Txns
  <2>4. clientPc \in {"log", "enq"} => next \in Txns
    BY DEF ClientAt
  <2> QED BY <1>1, <2>1, <2>2, <2>3, <2>4 DEF ClientAt
<1>11. ASSUME NEW p \in Puppets PROVE StageAt(p)'
  <2>1. CASE p = q
    <3>1. \A t \in RangeOf(done[q]) \cup RangeOf(sched[q]) : events'[t] = events[t]
      BY <1>x, <1>5, Places, InPipeline
    <3>2. CASE puppetPc[q] = "recv"
      <4>1. events'[x] = Append(events[x], "WORK_RECV") /\ puppetPc'[q] = "work"
        BY <1>1, <1>4, <3>2, LogStep DEF TypeOK
      <4>2. events[x] = Upto(2)
        BY <1>x, <3>2 DEF Stages, StageAt
      <4>3. events'[x] = Upto(3)
        BY <4>1, <4>2, UptoStep
      <4> QED BY <1>x, <1>1, <2>1, <3>1, <4>1, <4>3 DEF Stages, StageAt
    <3>3. CASE puppetPc[q] = "work"
      <4>1. events'[x] = Append(events[x], "DONE") /\ puppetPc'[q] = "report"
        BY <1>1, <1>4, <3>3, LogStep DEF TypeOK
      <4>2. events[x] = Upto(3)
        BY <1>x, <3>3 DEF Stages, StageAt
      <4>3. events'[x] = Upto(4)
        BY <4>1, <4>2, UptoStep
      <4> QED BY <1>x, <1>1, <2>1, <3>1, <4>1, <4>3 DEF Stages, StageAt
    <3> QED BY <1>1, <3>2, <3>3
  <2>2. CASE p # q
    <3>1. puppetPc'[p] = puppetPc[p]
      BY <1>1, <2>2 DEF TypeOK
    <3>2. x \notin RangeOf(done[p]) \cup RangeOf(sched[p]) /\ x # puppetTxn[p]
      BY <1>x, <1>4, <2>2, Places
    <3> QED BY <1>1, <1>5, <3>1, <3>2, StageKept DEF Stages
  <2> QED BY <2>1, <2>2
<1>12. Stages'
  <2>1. \A t \in RangeOf(pending) : t \in Txns /\ t # x
    BY <1>6, <1>9
  <2>2. taken # NoTxn => taken \in Txns /\ taken # x
    BY <1>x, Places, InPipeline
  <2> QED BY <1>1, <1>5, <1>11, <2>1, <2>2 DEF Stages
<1> QED BY <1>7, <1>8, <1>10, <1>12 DEF OInv

LEMMA ReportOrder ==
  ASSUME IInv, OInv, NEW q \in Puppets, PuppetReport(q) PROVE OInv'
<1>. /\ PendingInOrder /\ PipelinesDistinct /\ ClientAt /\ Stages /\ RestIsClean
     /\ TypeOK
  BY DEF OInv, IInv
<1>1. /\ puppetPc[q] = "report" /\ puppetTxn[q] \in Txns /\ done[q] \in Seq(Txns)
      /\ done' = [done EXCEPT ![q] = Append(@, puppetTxn[q])]
      /\ puppetTxn' = [puppetTxn EXCEPT ![q] = NoTxn]
      /\ puppetPc' = [puppetPc EXCEPT ![q] = "count"]
      /\ UNCHANGED <<clientPc, next, pending, taken, sched, events>>
  BY DEF PuppetReport, TypeOK, Holding, clientVars, schedVars
<1>2. \A p \in Puppets : Pipeline(p)' = Pipeline(p)
  BY PuppetInv DEF PuppetStep
<1>3. Oldest' = Oldest
  BY <1>1 DEF Oldest
<1>4. PendingInOrder' /\ PipelinesDistinct' /\ ClientAt' /\ RestIsClean'
  BY <1>1, <1>2, <1>3, DistinctKept DEF PendingInOrder, ClientAt, RestIsClean
<1>5. ASSUME NEW p \in Puppets PROVE StageAt(p)'
  <2>1. CASE p = q
    <3>1. /\ RangeOf(done'[q]) = RangeOf(done[q]) \cup {puppetTxn[q]}
          /\ puppetPc'[q] = "count"
      BY <1>1, RangeAppend DEF TypeOK
    <3> QED BY <1>1, <2>1, <3>1 DEF Stages, StageAt
  <2>2. CASE p # q
    <3>1. done'[p] = done[p] /\ puppetTxn'[p] = puppetTxn[p] /\ puppetPc'[p] = puppetPc[p]
      BY <1>1, <2>2 DEF TypeOK
    <3> QED BY <1>1, <3>1 DEF Stages, StageAt
  <2> QED BY <2>1, <2>2
<1>6. Stages'
  BY <1>1, <1>5 DEF Stages
<1> QED BY <1>4, <1>6 DEF OInv

LEMMA DrainDeqOrder == ASSUME IInv, OInv, SchedDrainDeq PROVE OInv'
<1>. /\ PendingInOrder /\ PipelinesDistinct /\ ClientAt /\ Stages /\ RestIsClean
     /\ TypeOK
  BY DEF OInv, IInv
<1>q. PICK q \in Puppets : q = drainAt
  BY DEF TypeOK
<1>x. PICK x : x = Head(done[q])
  OBVIOUS
<1>1. /\ done[q] # <<>> /\ done[q] \in Seq(Txns)
      /\ done' = [done EXCEPT ![q] = Tail(@)]
      /\ pmlog_record(x, "CLEANUP")
      /\ UNCHANGED <<clientPc, next, pending, taken, sched, puppetPc, puppetTxn>>
  BY <1>q, <1>x DEF SchedDrainDeq, TypeOK, clientVars, puppetVars
<1>2. /\ \A p \in Puppets : p # q => Pipeline(p)' = Pipeline(p)
      /\ Pipeline(q)' = Tail(Pipeline(q))
  BY <1>q, SchedDrainDeqInv
<1>3. Oldest' = Oldest
  BY <1>1 DEF Oldest
<1>4. /\ Distinct(Pipeline(q)) /\ Distinct(done[q]) /\ Pipeline(q) \in Seq(Txns)
      /\ Pipeline(q) # <<>> /\ Head(Pipeline(q)) = x
  BY <1>x, <1>1, OwnPlaces, PipelineType, PipelineHead DEF PipelinesDistinct
<1>5. /\ Distinct(Pipeline(q)') /\ x \notin RangeOf(Pipeline(q)')
      /\ RangeOf(Pipeline(q)) = RangeOf(Pipeline(q)') \cup {x}
      /\ x \notin RangeOf(Tail(done[q]))
      /\ RangeOf(done[q]) = RangeOf(Tail(done[q])) \cup {x}
  BY <1>x, <1>1, <1>2, <1>4, DistinctTail
<1>6. x \in Txns /\ x < Oldest /\ events[x] = Upto(4)
  BY <1>5, InPipeline DEF Stages, StageAt
<1>7. /\ events'[x] = Append(events[x], "CLEANUP")
      /\ \A t \in Txns : t # x => events'[t] = events[t]
  BY <1>1, <1>6, LogStep
<1>8. events'[x] = Upto(5)
  BY <1>6, <1>7, UptoStep
<1>9. PendingInOrder'
  BY <1>1, <1>3 DEF PendingInOrder
<1>10. PipelinesDistinct'
  <2>1. \A p \in Puppets : /\ RangeOf(Pipeline(p)') \subseteq RangeOf(Pipeline(p))
                           /\ Distinct(Pipeline(p)')
    BY <1>2, <1>5 DEF PipelinesDistinct
  <2>2. \A p, r \in Puppets :
          p # r => RangeOf(Pipeline(p)') \cap RangeOf(Pipeline(r)') = {}
    BY <2>1 DEF PipelinesDistinct
  <2>3. \A p \in Puppets : \A t \in RangeOf(Pipeline(p)') : t < Oldest'
    BY <1>3, <2>1 DEF PipelinesDistinct
  <2> QED BY <2>1, <2>2, <2>3 DEF PipelinesDistinct
<1>11. /\ Oldest \in Nat \ {0} /\ next \in Nat /\ Oldest <= next
       /\ RangeOf(pending) = Oldest..(next - 1) /\ RangeOf(pending) \subseteq Txns
  BY PendingRange DEF Oldest
<1>12. \A t \in Txns : t >= Oldest => t # x
  BY <1>6, <1>11 DEF Txns
<1>13. ClientAt'
  <2>1. \A t \in Txns : t >= next => events'[t] = events[t]
    BY <1>7, <1>11, <1>12 DEF Txns
  <2>2. next \in Txns => next >= next
    BY <1>11
  <2>3. \A t \in Txns : t > next => t >= next
    BY <1>11 DEF Txns
  <2>4. clientPc \in {"log", "enq"} => next \in Txns
    BY DEF ClientAt
  <2> QED BY <1>1, <2>1, <2>2, <2>3, <2>4 DEF ClientAt
<1>14. RestIsClean'
  <2> SUFFICES ASSUME NEW t \in Txns, t < Oldest,
                      \A p \in Puppets : t \notin RangeOf(Pipeline(p)')
               PROVE  events'[t] = Upto(5)
    BY <1>3 DEF RestIsClean
  <2>1. CASE t = x
    BY <1>8, <2>1
  <2>2. CASE t # x
    <3>1. \A p \in Puppets : t \notin RangeOf(Pipeline(p))
      BY <1>2, <1>5, <2>2
    <3> QED BY <1>7, <2>2, <3>1 DEF RestIsClean
  <2> QED BY <2>1, <2>2
<1>15. ASSUME NEW p \in Puppets PROVE StageAt(p)'
  <2>1. x \notin RangeOf(sched[p]) /\ (Holding(p) => x # puppetTxn[p])
    BY <1>5, Places
  <2>2. x \notin RangeOf(done'[p]) /\ RangeOf(done'[p]) \subseteq RangeOf(done[p])
    <3>1. CASE p = q
      BY <1>1, <1>5, <3>1 DEF TypeOK
    <3>2. CASE p # q
      <4>1. done'[p] = done[p]
        BY <1>1, <3>2 DEF TypeOK
      <4>2. x \notin RangeOf(done[p])
        BY <1>5, <3>2, Places
      <4> QED BY <4>1, <4>2
    <3> QED BY <3>1, <3>2
  <2>3. /\ \A t \in RangeOf(done[p]) \cup RangeOf(sched[p]) : t \in Txns
        /\ Holding(p) => puppetTxn[p] \in Txns
    BY InPipeline
  <2> QED BY <1>1, <1>7, <2>1, <2>2, <2>3 DEF Stages, StageAt, Holding
<1>16. Stages'
  <2>1. \A t \in RangeOf(pending) : t \in Txns /\ t # x
    BY <1>11, <1>12
  <2>2. taken # NoTxn => taken \in Txns /\ taken # x
    BY <1>5, Places, InPipeline
  <2> QED BY <1>1, <1>7, <1>15, <2>1, <2>2 DEF Stages
<1> QED BY <1>9, <1>10, <1>13, <1>14, <1>16 DEF OInv

LEMMA TakeOrder == ASSUME IInv, OInv, SchedTake PROVE OInv'
<1>. /\ PendingInOrder /\ PipelinesDistinct /\ ClientAt /\ Stages /\ RestIsClean
     /\ TypeOK
  BY DEF OInv, IInv
<1>c. PICK c \in Puppets : c = current
  BY DEF TypeOK
<1>x. PICK x : x = Head(pending)
  OBVIOUS
<1>1. /\ pending # <<>> /\ pending \in Seq(Txns)
      /\ taken' = x /\ pending' = Tail(pending)
      /\ pmlog_record(x, "SCHED_READY")
      /\ UNCHANGED <<clientPc, next, sched, done, puppetPc, puppetTxn>>
  BY <1>x DEF SchedTake, TypeOK, clientVars, puppetVars
<1>2. /\ \A p \in Puppets : p # c => Pipeline(p)' = Pipeline(p)
      /\ Pipeline(c)' = Append(Pipeline(c), x)
  BY <1>c, <1>x, SchedTakeInv
<1>3. /\ Oldest \in Nat \ {0} /\ next \in Nat /\ Oldest < next /\ x = Oldest
      /\ RangeOf(pending) = Oldest..(next - 1) /\ RangeOf(pending) \subseteq Txns
      /\ x \in Txns
  BY <1>x, <1>1, PendingRange
<1>4. /\ Len(pending') = Len(pending) - 1 /\ Len(pending) \in Nat \ {0}
      /\ \A i \in 1..Len(pending') : pending'[i] = pending[i + 1]
  BY <1>1, HeadTailProperties, EmptySeq
<1>5. Oldest' = Oldest + 1
  <2>1. Oldest' = next - Len(pending')
    BY <1>1 DEF Oldest
  <2> QED BY <1>3, <1>4, <2>1 DEF Oldest
<1>6. PendingInOrder'
  <2>1. ASSUME NEW i \in 1..Len(pending') PROVE pending'[i] = Oldest' - 1 + i
    <3>1. i + 1 \in 1..Len(pending) /\ pending'[i] = pending[i + 1]
      BY <1>4
    <3>2. pending[i + 1] = Oldest - 1 + (i + 1)
      BY <3>1 DEF PendingInOrder
    <3> QED BY <1>3, <1>5, <3>1, <3>2
  <2> QED BY <1>1, <1>3, <1>4, <2>1 DEF PendingInOrder
<1>7. /\ events'[x] = Append(events[x], "SCHED_READY")
      /\ \A t \in Txns : t # x => events'[t] = events[t]
  BY <1>1, <1>3, LogStep
<1>8. events'[x] = Upto(2)
  <2>1. x \in RangeOf(pending)
    BY <1>3
  <2>2. events[x] = Upto(1)
    BY <2>1 DEF Stages
  <2> QED BY <1>7, <2>2, UptoStep
<1>9. RangeOf(Pipeline(c)') = RangeOf(Pipeline(c)) \cup {x} /\ Pipeline(c) \in Seq(Txns)
  BY <1>2, <1>3, PipelineType, RangeAppend
<1>10. \A p \in Puppets : \A t \in RangeOf(Pipeline(p)) : t \in Txns /\ t < Oldest /\ t # x
  <2>1. \A p \in Puppets : \A t \in RangeOf(Pipeline(p)) : t \in Txns
    BY PipelineType, ElementOfSeq DEF RangeOf
  <2>2. \A t \in Txns : t < Oldest => t # x
    BY <1>3 DEF Txns
  <2> QED BY <2>1, <2>2 DEF PipelinesDistinct
<1>11. PipelinesDistinct'
  <2>1. \A p \in Puppets : RangeOf(Pipeline(p)') =
          RangeOf(Pipeline(p)) \cup IF p = c THEN {x} ELSE {}
    BY <1>2, <1>9
  <2>2. ASSUME NEW p \in Puppets PROVE Distinct(Pipeline(p)')
    <3>1. Distinct(Pipeline(p))
      BY DEF PipelinesDistinct
    <3>2. x \notin RangeOf(Pipeline(c))
      BY <1>10
    <3>3. Distinct(Append(Pipeline(c), x))
      <4>1. Distinct(Pipeline(c))
        BY DEF PipelinesDistinct
      <4> QED BY <1>3, <1>9, <3>2, <4>1, DistinctAppend
    <3> QED BY <1>2, <3>1, <3>3
  <2>3. \A p, r \in Puppets :
          p # r => RangeOf(Pipeline(p)') \cap RangeOf(Pipeline(r)') = {}
    BY <1>10, <2>1 DEF PipelinesDistinct
  <2>4. \A p \in Puppets : \A t \in RangeOf(Pipeline(p)') : t < Oldest'
    BY <1>3, <1>5, <1>10, <2>1 DEF Txns
  <2> QED BY <2>2, <2>3, <2>4 DEF PipelinesDistinct
<1>12. ClientAt'
  <2>1. \A t \in Txns : t >= next => events'[t] = events[t]
    BY <1>3, <1>7 DEF Txns
  <2>2. next \in Txns => next >= next
    BY <1>3
  <2>3. \A t \in Txns : t > next => t >= next
    BY <1>3 DEF Txns
  <2>4. clientPc \in {"log", "enq"} => next \in Txns
    BY DEF ClientAt
  <2> QED BY <1>1, <2>1, <2>2, <2>3, <2>4 DEF ClientAt
<1>13. RestIsClean'
  <2> SUFFICES ASSUME NEW t \in Txns, t < Oldest',
                      \A p \in Puppets : t \notin RangeOf(Pipeline(p)')
               PROVE  events'[t] = Upto(5)
    BY DEF RestIsClean
  <2>1. t # x /\ t < Oldest
    BY <1>3, <1>5, <1>9 DEF Txns
  <2>2. \A p \in Puppets : t \notin RangeOf(Pipeline(p))
    BY <1>2, <1>9
  <2> QED BY <1>7, <2>1, <2>2 DEF RestIsClean
<1>14. ASSUME NEW p \in Puppets PROVE StageAt(p)'
  <2>1. x \notin RangeOf(done[p]) \cup RangeOf(sched[p])
    BY <1>3, InPipeline
  <2>2. Holding(p) => x # puppetTxn[p]
    BY <1>3, InPipeline
  <2> QED BY <1>1, <1>7, <2>1, <2>2, StageKept DEF Stages
<1>15. Stages'
  <2>1. ASSUME NEW i \in 1..Len(pending')
        PROVE  /\ pending'[i] \in RangeOf(pending) /\ pending'[i] # x
               /\ pending'[i] \in Txns
    <3>1. i + 1 \in 1..Len(pending) /\ pending'[i] = pending[i + 1]
      BY <1>4
    <3>2. pending[i + 1] = Oldest - 1 + (i + 1)
      BY <3>1 DEF PendingInOrder
    <3>3. pending'[i] \in RangeOf(pending)
      BY <3>1 DEF RangeOf
    <3> QED BY <1>3, <3>1, <3>2, <3>3
  <2>2. \A t \in RangeOf(pending') : t \in RangeOf(pending) /\ t # x /\ t \in Txns
    BY <2>1 DEF RangeOf
  <2> QED BY <1>1, <1>7, <1>8, <1>14, <2>2 DEF Stages
<1> QED BY <1>6, <1>11, <1>12, <1>13, <1>15 DEF OInv

-----------------------------------------------------------------------------
(* The invariant.                                                          *)

LEMMA InitOrder == Init => OInv
<1> SUFFICES ASSUME Init PROVE OInv
  OBVIOUS
<1>1. pending = <<>> /\ next = 1 /\ Len(pending) = 0
  BY DEF Init
<1>2. \A p \in Puppets : Pipeline(p) = <<>> /\ RangeOf(Pipeline(p)) = {}
  BY DEF Init, Pipeline, OptSeq, Unpublished, RangeOf
<1>3. Oldest = 1
  BY <1>1 DEF Oldest
<1>4. PendingInOrder
  BY <1>1 DEF PendingInOrder
<1>5. PipelinesDistinct
  BY <1>2 DEF PipelinesDistinct, Distinct
<1>6. ClientAt
  BY TransactionsAssumption, UptoStep DEF Init, ClientAt, Txns
<1>7. Stages
  BY DEF Init, Stages, StageAt, RangeOf
<1>8. RestIsClean
  BY <1>3 DEF RestIsClean, Txns
<1> QED BY <1>4, <1>5, <1>6, <1>7, <1>8 DEF OInv

LEMMA NextOrder == IInv /\ OInv /\ [Next]_vars => OInv'
<1> SUFFICES ASSUME IInv, OInv, [Next]_vars PROVE OInv'
  OBVIOUS
<1>. TypeOK
  BY DEF IInv
<1>1. CASE ClientStep
  BY <1>1, ClientLogOrder, ClientEnqOrder DEF ClientStep
<1>2. CASE SchedStep
  <2>1. CASE SchedCheck \/ SchedDrainSkip \/ SchedDrainEnter \/ SchedGiveUp
    <3>1. UNCHANGED <<clientPc, next, pending, current, taken, sched, done, puppetPc,
                      puppetTxn, events>>
      BY <2>1 DEF SchedCheck, SchedDrainSkip, SchedDrainEnter, SchedGiveUp,
                  clientVars, puppetVars
    <3>2. \A p \in Puppets : Pipeline(p)' = Pipeline(p)
      BY <3>1 DEF Pipeline, Unpublished
    <3> QED BY <3>1, <3>2, IdleOrder
  <2> QED BY <1>2, <2>1, DrainDeqOrder, TakeOrder, PublishOrder DEF SchedStep
<1>3. ASSUME NEW q \in Puppets, PuppetStep(q) PROVE OInv'
  <2>1. CASE PuppetCheck(q) \/ PuppetPollEmpty(q) \/ PuppetCount(q)
    <3>1. UNCHANGED <<clientPc, next, pending, taken, sched, done, puppetTxn, events>>
      BY <2>1 DEF PuppetCheck, PuppetPollEmpty, PuppetCount, clientVars, schedVars
    <3>2. \A p \in Puppets : Pipeline(p)' = Pipeline(p)
      BY <1>3, PuppetInv
    <3>3. \E pc \in {"check", "deq", "exited"} : puppetPc' = [puppetPc EXCEPT ![q] = pc]
      BY <2>1 DEF PuppetCheck, PuppetPollEmpty, PuppetCount
    <3>4. \A p \in Puppets : puppetPc'[p] \in {"recv", "work", "report"}
                               => puppetPc'[p] = puppetPc[p]
      BY <3>3 DEF TypeOK
    <3> QED BY <3>1, <3>2, <3>4, IdleOrder
  <2> QED BY <1>3, <2>1, PollOrder, HoldOrder, ReportOrder DEF PuppetStep
<1>4. CASE MainLoop \/ MainShutdown
  <2>1. UNCHANGED <<clientPc, next, pending, current, taken, sched, done, puppetPc,
                    puppetTxn, events>>
    BY <1>4 DEF MainLoop, MainShutdown, MainSample, MainNoProgress, MainJudge,
                MainWake, MainStop, MainFree, MainJoin, MainExit, clientVars,
                schedVars, puppetVars
  <2>2. \A p \in Puppets : Pipeline(p)' = Pipeline(p)
    BY <2>1 DEF Pipeline, Unpublished
  <2> QED BY <2>1, <2>2, IdleOrder
<1>5. CASE UNCHANGED vars
  <2>1. UNCHANGED <<clientPc, next, pending, current, taken, sched, done, puppetPc,
                    puppetTxn, events>>
    BY <1>5 DEF vars, clientVars, schedVars, puppetVars
  <2>2. \A p \in Puppets : Pipeline(p)' = Pipeline(p)
    BY <2>1 DEF Pipeline, Unpublished
  <2> QED BY <2>1, <2>2, IdleOrder
<1> QED BY <1>1, <1>2, <1>3, <1>4, <1>5 DEF Next, Terminated

\* The invariant about places and logs holds in every reachable state.
THEOREM OrderInvariant == Spec => []OInv
<1>1. IInv /\ OInv /\ [Next]_vars => (IInv /\ OInv)'
  BY NextIInv, NextOrder
<1>2. Init => IInv /\ OInv
  BY InitIInv, InitOrder
<1> QED BY <1>1, <1>2, PTL DEF Spec

\* Every transaction's events are a beginning of its life.
LEMMA AtSomeStage ==
  ASSUME TypeOK, OInv, NEW t \in Txns
  PROVE  \E n \in 0..5 : events[t] = Upto(n)
<1>. PendingInOrder /\ PipelinesDistinct /\ ClientAt /\ Stages /\ RestIsClean
  BY DEF OInv
<1>0. 0 \in 0..5 /\ 1 \in 0..5 /\ 2 \in 0..5 /\ 3 \in 0..5 /\ 4 \in 0..5 /\ 5 \in 0..5
  OBVIOUS
<1>1. RangeOf(pending) = Oldest..(next - 1) /\ Oldest \in Nat /\ next \in Nat /\ t \in Nat
  BY PendingRange DEF Txns
<1>2. CASE t > next
  BY <1>0, <1>2 DEF ClientAt
<1>3. CASE t = next
  BY <1>0, <1>3 DEF ClientAt, TypeOK
<1>4. CASE t < next /\ t >= Oldest
  BY <1>0, <1>1, <1>4 DEF Stages
<1>5. CASE t < Oldest /\ \A p \in Puppets : t \notin RangeOf(Pipeline(p))
  BY <1>0, <1>5 DEF RestIsClean
<1>6. ASSUME NEW p \in Puppets, t \in RangeOf(Pipeline(p))
      PROVE  \E n \in 0..5 : events[t] = Upto(n)
  <2>1. t \in RangeOf(done[p]) \/ (t = puppetTxn[p] /\ t # NoTxn)
        \/ t \in RangeOf(sched[p]) \/ t \in RangeOf(Unpublished(p))
    BY <1>6, PipelineRange
  <2>2. CASE t \in RangeOf(Unpublished(p))
    <3>1. (IF p = current THEN taken ELSE NoTxn) \in Txns \cup {NoTxn}
      BY DEF TypeOK
    <3>2. RangeOf(Unpublished(p)) = {IF p = current THEN taken ELSE NoTxn} \ {NoTxn}
      BY <3>1, OptSeqType DEF Unpublished
    <3>3. t = taken /\ taken # NoTxn
      BY <2>2, <3>2
    <3> QED BY <1>0, <3>3 DEF Stages
  <2>3. CASE t = puppetTxn[p] /\ t # NoTxn
    <3>1. puppetPc[p] \in {"recv", "work", "report"}
      BY <2>3 DEF TypeOK, Holding
    <3> QED BY <1>0, <2>3, <3>1 DEF Stages, StageAt
  <2> QED BY <1>0, <2>1, <2>2, <2>3 DEF Stages, StageAt
<1> QED BY <1>1, <1>2, <1>3, <1>4, <1>5, <1>6

\* The events of a transaction are recorded in the order of its life.
THEOREM EventsInOrder == Spec => []LogOrder
<1>1. IInv /\ OInv => LogOrder
  <2> SUFFICES ASSUME IInv, OInv, NEW t \in Txns
               PROVE  events[t] = SubSeq(Life, 1, Len(events[t]))
    BY DEF LogOrder, Life
  <2>1. PICK n \in 0..5 : events[t] = Upto(n)
    BY AtSomeStage DEF IInv
  <2>2. Len(Upto(n)) = n
    BY UptoType
  <2> QED BY <2>1, <2>2 DEF Upto
<1> QED BY <1>1, PipelineInvariant, OrderInvariant, PTL

-----------------------------------------------------------------------------
(* Conflicting transactions in submission order.                           *)

\* A record adds its event and nothing else.
LEMMA LoggedGrows ==
  ASSUME TypeOK, NEW x \in Txns, NEW k \in Kinds, pmlog_record(x, k)
  PROVE  \A t \in Txns : \A kind :
           Logged(t, kind)' <=> Logged(t, kind) \/ (t = x /\ kind = k)
<1>1. /\ events'[x] = Append(events[x], k)
      /\ \A t \in Txns : t # x => events'[t] = events[t]
  BY LogStep
<1>2. RangeOf(Append(events[x], k)) = RangeOf(events[x]) \cup {k}
  BY RangeAppend DEF TypeOK
<1> QED BY <1>1, <1>2 DEF Logged

\* Only SchedTake logs SCHED_READY.
LEMMA StepLogs ==
  ASSUME TypeOK, OInv, [Next]_vars
  PROVE  \/ events' = events
         \/ SchedTake
         \/ \E x \in Txns : \E k \in {"SUBMIT", "WORK_RECV", "DONE", "CLEANUP"} :
              pmlog_record(x, k)
<1>1. CASE ClientStep
  BY <1>1 DEF ClientStep, ClientLog, ClientEnq, OInv, ClientAt
<1>2. CASE SchedStep
  <2>1. CASE SchedDrainDeq
    <3>1. drainAt \in Puppets /\ done[drainAt] # <<>> /\ done[drainAt] \in Seq(Txns)
          /\ pmlog_record(Head(done[drainAt]), "CLEANUP")
      BY <2>1 DEF SchedDrainDeq, TypeOK
    <3>2. Head(done[drainAt]) \in Txns
      BY <3>1, HeadTailProperties
    <3> QED BY <3>1, <3>2
  <2> QED BY <1>2, <2>1 DEF SchedStep, SchedCheck, SchedDrainSkip, SchedDrainEnter,
                            SchedGiveUp, SchedPublish
<1>3. ASSUME NEW q \in Puppets, PuppetStep(q)
      PROVE  events' = events \/ \E x \in Txns : \E k \in {"WORK_RECV", "DONE"} :
                                   pmlog_record(x, k)
  <2>1. Holding(q) => puppetTxn[q] \in Txns
    BY DEF TypeOK
  <2> QED BY <1>3, <2>1 DEF PuppetStep, PuppetCheck, PuppetPollEmpty, PuppetPoll,
             PuppetRecv, PuppetWorked, PuppetReport, PuppetCount, Holding
<1>4. CASE MainLoop \/ MainShutdown
  BY <1>4 DEF MainLoop, MainShutdown, MainSample, MainNoProgress, MainJudge,
              MainWake, MainStop, MainFree, MainJoin, MainExit
<1>5. CASE UNCHANGED vars
  BY <1>5 DEF vars
<1> QED BY <1>1, <1>2, <1>3, <1>4, <1>5 DEF Next, Terminated

\* When the scheduler takes a transaction, an older one that conflicts with it
\* is neither pending nor active any more: it has been cleaned up.
LEMMA TakenAfterConflicts ==
  ASSUME IInv, OInv, SchedTake, NEW t \in Txns, t < Head(pending),
         check_txn_conflict(t, Head(pending))
  PROVE  events[t] = Upto(5)
<1>. TypeOK /\ PendingInOrder /\ PipelinesDistinct /\ RestIsClean
  BY DEF IInv, OInv
<1>x. PICK x : x = Head(pending)
  OBVIOUS
<1>1. /\ pending # <<>> /\ ~ conflicts_with_active(x) /\ ~ freed
  BY <1>x, SchedTakeInv DEF SchedTake
<1>2. x = Oldest /\ x \in Txns /\ t < Oldest
  BY <1>x, <1>1, PendingRange, HeadTailProperties DEF TypeOK
<1>3. \A p \in Puppets : active[p] = Pipeline(p)
  BY <1>1 DEF IInv, PipelineIsActive
<1>4. check_txn_conflict(x, t)
  BY <1>x, <1>2, ConflictSymmetric
<1>5. \A p \in Puppets : t \notin RangeOf(Pipeline(p))
  BY <1>1, <1>3, <1>4 DEF conflicts_with_active
<1> QED BY <1>2, <1>5 DEF RestIsClean

LEMMA NextConflictOrder ==
  IInv /\ OInv /\ ConflictOrder /\ [Next]_vars => ConflictOrder'
<1> SUFFICES ASSUME IInv, OInv, ConflictOrder, [Next]_vars,
                    NEW t \in Txns, NEW u \in Txns, t < u, check_txn_conflict(t, u),
                    Logged(u, "SCHED_READY")'
             PROVE  Logged(t, "CLEANUP")'
  BY DEF ConflictOrder
<1>. TypeOK
  BY DEF IInv
<1>1. CASE events' = events
  BY <1>1 DEF ConflictOrder, Logged
<1>2. CASE SchedTake
  <2>x. PICK x : x = Head(pending)
    OBVIOUS
  <2>1. x \in Txns /\ pmlog_record(x, "SCHED_READY")
    BY <1>2, <2>x, HeadTailProperties DEF SchedTake, TypeOK
  <2>2. \A v \in Txns : \A kind :
          Logged(v, kind)' <=> Logged(v, kind) \/ (v = x /\ kind = "SCHED_READY")
    BY <2>1, LoggedGrows DEF Kinds
  <2>3. CASE u = x
    <3>1. events[t] = Upto(5)
      BY <1>2, <2>x, <2>3, TakenAfterConflicts
    <3>2. Logged(t, "CLEANUP")
      BY <3>1, UptoHas DEF Logged
    <3> QED BY <2>2, <3>2
  <2>4. CASE u # x
    BY <2>2, <2>4 DEF ConflictOrder
  <2> QED BY <2>3, <2>4
<1>3. ASSUME NEW x \in Txns, NEW k \in {"SUBMIT", "WORK_RECV", "DONE", "CLEANUP"},
             pmlog_record(x, k)
      PROVE  Logged(t, "CLEANUP")'
  <2>1. \A v \in Txns : \A kind :
          Logged(v, kind)' <=> Logged(v, kind) \/ (v = x /\ kind = k)
    BY <1>3, LoggedGrows DEF Kinds
  <2> QED BY <2>1 DEF ConflictOrder
<1> QED BY <1>1, <1>2, <1>3, StepLogs

\* A transaction is not taken before every older conflicting one is cleaned up.
THEOREM ConflictsInOrder == Spec => []ConflictOrder
<1>1. Init => ConflictOrder
  BY DEF Init, ConflictOrder, Logged, RangeOf
<1> QED BY <1>1, NextConflictOrder, PipelineInvariant, OrderInvariant, PTL DEF Spec

-----------------------------------------------------------------------------
(* The counters and the end.  Every transaction a puppet has reported is   *)
(* credited to that puppet; main's sum never exceeds the number of         *)
(* transactions credited to the puppets it has looked at.                  *)

Reported(t) == Logged(t, "DONE") /\ \A p \in Puppets : puppetTxn[p] # t

Uncounted(p) == IF puppetPc[p] = "count" THEN 1 ELSE 0

Credit(f) ==
  /\ \A p, q \in Puppets : p # q => f[p] \cap f[q] = {}
  /\ \A p \in Puppets : \A t \in f[p] : Reported(t)
  /\ \A p \in Puppets : completed[p] + Uncounted(p) <= Cardinality(f[p])

Sampled(f) ==
  mainPc = "sample" =>
    \E S \in SUBSET Txns :
      /\ sum <= Cardinality(S)
      /\ \A t \in S : \E p \in Puppets : p < sampleAt /\ t \in f[p]

CreditInv == \E f \in [Puppets -> SUBSET Txns] : Credit(f) /\ Sampled(f)

EnoughReported ==
  mainPc = "judge" =>
    \E S \in SUBSET Txns : sum <= Cardinality(S) /\ \A t \in S : Reported(t)

Endgame ==
  /\ mainPc \in {"sample", "judge", "sleep"} => ~ freed /\ ~ success
  /\ mainPc \in {"stop", "joinSched", "join"} => success
  /\ freed => success
  /\ success => \A t \in Txns : Reported(t)

EInv == CreditInv /\ EnoughReported /\ Endgame

LEMMA TxnsFinite ==
  /\ IsFiniteSet(Txns) /\ Cardinality(Txns) = NumTxns
  /\ \A S \in SUBSET Txns : /\ IsFiniteSet(S) /\ Cardinality(S) \in Nat
                            /\ Cardinality(S) <= NumTxns
                            /\ Cardinality(S) = NumTxns => S = Txns
<1>1. NumTxns \in Nat /\ NumTxns \in Int /\ 1 \in Int
  BY TransactionsAssumption
<1>2. IsFiniteSet(1..NumTxns)
      /\ Cardinality(1..NumTxns) = IF 1 > NumTxns THEN 0 ELSE NumTxns - 1 + 1
  BY <1>1, FS_Interval
<1>3. IsFiniteSet(Txns) /\ Cardinality(Txns) = NumTxns
  BY <1>1, <1>2 DEF Txns
<1>4. ASSUME NEW S \in SUBSET Txns
      PROVE  /\ IsFiniteSet(S) /\ Cardinality(S) \in Nat
             /\ Cardinality(S) <= NumTxns
             /\ Cardinality(S) = NumTxns => S = Txns
  BY <1>3, FS_Subset, FS_CardinalityType
<1> QED BY <1>3, <1>4

\* What has been recorded stays recorded.
LEMMA LoggedStays ==
  ASSUME TypeOK, OInv, [Next]_vars, NEW t \in Txns, NEW kind, Logged(t, kind)
  PROVE  Logged(t, kind)'
<1>1. CASE events' = events
  BY <1>1 DEF Logged
<1>2. ASSUME NEW x \in Txns, NEW k \in Kinds, pmlog_record(x, k) PROVE Logged(t, kind)'
  BY <1>2, LoggedGrows
<1>3. CASE SchedTake
  <2>1. Head(pending) \in Txns /\ pmlog_record(Head(pending), "SCHED_READY")
    BY <1>3, HeadTailProperties DEF SchedTake, TypeOK
  <2> QED BY <1>2, <2>1 DEF Kinds
<1> QED BY <1>1, <1>2, <1>3, StepLogs DEF Kinds

\* Where a transaction with its DONE recorded can no longer be.
LEMMA DoneNotAhead ==
  ASSUME TypeOK, OInv, NEW t \in Txns, Logged(t, "DONE")
  PROVE  /\ t \notin RangeOf(pending) /\ t # taken
         /\ \A p \in Puppets : t \notin RangeOf(sched[p])
         /\ t # next
<1>1. \A n \in 0..5 : events[t] = Upto(n) => n >= 4
  BY UptoHas DEF Logged
<1>2. events[t] # Upto(0) /\ events[t] # Upto(1) /\ events[t] # Upto(2)
  BY <1>1
<1>3. t # NoTxn
  BY NoTxnNotTxn
<1>4. t \notin RangeOf(pending) /\ (taken # NoTxn => t # taken)
  BY <1>2 DEF OInv, Stages
<1>5. \A p \in Puppets : t \notin RangeOf(sched[p])
  BY <1>2 DEF OInv, Stages, StageAt
<1>6. ASSUME t = next PROVE FALSE
  <2>1. clientPc = "log" \/ clientPc = "enq"
    BY <1>6 DEF OInv, ClientAt, TypeOK
  <2> QED BY <1>2, <1>6, <2>1 DEF OInv, ClientAt
<1> QED BY <1>3, <1>4, <1>5, <1>6

LEMMA ReportedStays ==
  ASSUME IInv, OInv, [Next]_vars, NEW t \in Txns, Reported(t)
  PROVE  Reported(t)'
<1>. TypeOK
  BY DEF IInv
<1>1. Logged(t, "DONE")'
  BY LoggedStays DEF Reported
<1>2. ASSUME NEW p \in Puppets PROVE puppetTxn'[p] # t
  <2>1. CASE puppetTxn'[p] = puppetTxn[p]
    BY <2>1 DEF Reported
  <2>2. ASSUME NEW q \in Puppets, PuppetPoll(q) PROVE puppetTxn'[p] # t
    <3>1. /\ sched[q] # <<>> /\ sched[q] \in Seq(Txns)
          /\ puppetTxn' = [puppetTxn EXCEPT ![q] = Head(sched[q])]
      BY <2>2 DEF PuppetPoll, TypeOK
    <3>2. Head(sched[q]) \in RangeOf(sched[q])
      <4>1. Head(sched[q]) = sched[q][1] /\ 1 \in 1..Len(sched[q])
        BY <3>1, EmptySeq
      <4> QED BY <4>1 DEF RangeOf
    <3>3. Head(sched[q]) # t
      BY <3>2, DoneNotAhead DEF Reported
    <3> QED BY <3>1, <3>3 DEF Reported, TypeOK
  <2>3. ASSUME NEW q \in Puppets, PuppetReport(q) PROVE puppetTxn'[p] # t
    BY <2>3, NoTxnNotTxn DEF PuppetReport, Reported, TypeOK
  <2>4. \/ puppetTxn' = puppetTxn
        \/ \E q \in Puppets : PuppetPoll(q) \/ PuppetReport(q)
    BY DEF Next, ClientStep, ClientLog, ClientEnq, SchedStep, SchedCheck,
           SchedDrainSkip, SchedDrainEnter, SchedDrainDeq, SchedGiveUp, SchedTake,
           SchedPublish, PuppetStep, PuppetCheck, PuppetPollEmpty, PuppetRecv,
           PuppetWorked, PuppetCount, MainLoop, MainShutdown, MainSample,
           MainNoProgress, MainJudge, MainWake, MainStop, MainFree, MainJoin,
           MainExit, Terminated, vars, puppetVars
  <2> QED BY <2>1, <2>2, <2>3, <2>4
<1> QED BY <1>1, <1>2 DEF Reported

\* The steps that touch neither a counter nor main's sum.
CreditIdle ==
  /\ UNCHANGED <<completed, sum, sampleAt, mainPc>>
  /\ \A p \in Puppets : Uncounted(p)' = Uncounted(p)

LEMMA IdleCredit ==
  ASSUME IInv, OInv, [Next]_vars, CreditInv, CreditIdle
  PROVE  CreditInv'
<1>1. PICK f \in [Puppets -> SUBSET Txns] : Credit(f) /\ Sampled(f)
  BY DEF CreditInv
<1>2. \A p \in Puppets : \A t \in f[p] : Reported(t)'
  BY <1>1, ReportedStays DEF Credit
<1>3. Credit(f)'
  BY <1>1, <1>2 DEF Credit, CreditIdle
<1>4. Sampled(f)'
  BY <1>1 DEF Sampled, CreditIdle
<1> QED BY <1>3, <1>4 DEF CreditInv

\* A puppet that reports its transaction is credited with it.
LEMMA ReportCredit ==
  ASSUME IInv, OInv, CreditInv, NEW q \in Puppets, PuppetReport(q)
  PROVE  CreditInv'
<1>. TypeOK /\ [Next]_vars /\ PipelinesDistinct
  BY DEF IInv, OInv, Next, PuppetStep
<1>1. PICK f \in [Puppets -> SUBSET Txns] : Credit(f) /\ Sampled(f)
  BY DEF CreditInv
<1>x. PICK x : x = puppetTxn[q]
  OBVIOUS
<1>2. /\ x \in Txns /\ x # NoTxn /\ puppetPc[q] = "report"
      /\ puppetTxn' = [puppetTxn EXCEPT ![q] = NoTxn]
      /\ puppetPc' = [puppetPc EXCEPT ![q] = "count"]
      /\ UNCHANGED <<completed, sum, sampleAt, mainPc, events>>
  BY <1>x, NoTxnNotTxn DEF PuppetReport, TypeOK, Holding, mainVars
<1>3. \A p \in Puppets : x \notin f[p]
  BY <1>1, <1>x DEF Credit, Reported
<1>4. Logged(x, "DONE")
  <2>1. events[x] = Upto(4)
    BY <1>2, <1>x DEF OInv, Stages, StageAt
  <2> QED BY <2>1, UptoHas DEF Logged
<1>5. \A p \in Puppets : p # q => puppetTxn[p] # x
  BY <1>2, <1>x, Places
<1>6. Reported(x)'
  BY <1>2, <1>4, <1>5 DEF Reported, Logged, TypeOK
<1>7. PICK g \in [Puppets -> SUBSET Txns] : g = [f EXCEPT ![q] = @ \cup {x}]
  BY <1>2
<1>8. /\ g[q] = f[q] \cup {x}
      /\ \A p \in Puppets : p # q => g[p] = f[p]
      /\ \A p \in Puppets : f[p] \subseteq g[p]
  BY <1>7
<1>9. /\ Cardinality(g[q]) = Cardinality(f[q]) + 1
      /\ \A p \in Puppets : Cardinality(f[p]) \in Nat
  BY <1>3, <1>8, TxnsFinite, FS_AddElement
<1>10. \A p, r \in Puppets : p # r => g[p] \cap g[r] = {}
  BY <1>1, <1>3, <1>8 DEF Credit
<1>11. \A p \in Puppets : \A t \in g[p] : Reported(t)'
  <2>1. \A p \in Puppets : \A t \in f[p] : Reported(t)'
    BY <1>1, ReportedStays DEF Credit
  <2> QED BY <1>6, <1>8, <2>1
<1>12. ASSUME NEW p \in Puppets
       PROVE  completed'[p] + Uncounted(p)' <= Cardinality(g[p])
  <2>1. completed[p] \in Nat /\ completed'[p] = completed[p]
    BY <1>2 DEF TypeOK
  <2>2. completed[p] + Uncounted(p) <= Cardinality(f[p])
    BY <1>1 DEF Credit
  <2>3. CASE p = q
    <3>1. Uncounted(p) = 0 /\ Uncounted(p)' = 1
      BY <1>2, <2>3 DEF Uncounted, TypeOK
    <3> QED BY <1>9, <2>1, <2>2, <2>3, <3>1
  <2>4. CASE p # q
    <3>1. Uncounted(p)' = Uncounted(p)
      BY <1>2, <2>4 DEF Uncounted, TypeOK
    <3> QED BY <1>8, <2>1, <2>2, <2>4, <3>1
  <2> QED BY <2>3, <2>4
<1>13. Credit(g)'
  BY <1>10, <1>11, <1>12 DEF Credit
<1>14. Sampled(g)'
  <2> SUFFICES ASSUME mainPc = "sample"
               PROVE  \E S \in SUBSET Txns :
                        /\ sum <= Cardinality(S)
                        /\ \A t \in S : \E p \in Puppets : p < sampleAt /\ t \in g[p]
    BY <1>2 DEF Sampled
  <2>1. PICK S \in SUBSET Txns :
               /\ sum <= Cardinality(S)
               /\ \A t \in S : \E p \in Puppets : p < sampleAt /\ t \in f[p]
    BY <1>1 DEF Sampled
  <2> QED BY <1>8, <2>1
<1> QED BY <1>13, <1>14 DEF CreditInv

\* Then it counts it.
LEMMA CountCredit ==
  ASSUME IInv, OInv, CreditInv, NEW q \in Puppets, PuppetCount(q)
  PROVE  CreditInv'
<1>. TypeOK /\ [Next]_vars
  BY DEF IInv, Next, PuppetStep
<1>1. PICK f \in [Puppets -> SUBSET Txns] : Credit(f) /\ Sampled(f)
  BY DEF CreditInv
<1>2. /\ puppetPc[q] = "count"
      /\ puppetPc' = [puppetPc EXCEPT ![q] = "check"]
      /\ completed' = [completed EXCEPT ![q] = @ + 1]
      /\ UNCHANGED <<sum, sampleAt, mainPc>>
  BY DEF PuppetCount, mainVars
<1>3. \A p \in Puppets : \A t \in f[p] : Reported(t)'
  BY <1>1, ReportedStays DEF Credit
<1>4. ASSUME NEW p \in Puppets
      PROVE  completed'[p] + Uncounted(p)' = completed[p] + Uncounted(p)
  <2>1. completed[p] \in Nat
    BY DEF TypeOK
  <2>2. CASE p = q
    BY <1>2, <2>1, <2>2 DEF Uncounted, TypeOK
  <2>3. CASE p # q
    BY <1>2, <2>3 DEF Uncounted, TypeOK
  <2> QED BY <2>2, <2>3
<1>5. Credit(f)'
  BY <1>1, <1>3, <1>4 DEF Credit
<1>6. Sampled(f)'
  BY <1>1, <1>2 DEF Sampled
<1> QED BY <1>5, <1>6 DEF CreditInv

\* main adds a puppet's counter to its sum, and the last one ends the round.
LEMMA SampleCredit ==
  ASSUME IInv, OInv, CreditInv, MainSample
  PROVE  CreditInv' /\ EnoughReported'
<1>. TypeOK /\ [Next]_vars
  BY DEF IInv, Next, MainLoop
<1>1. PICK f \in [Puppets -> SUBSET Txns] : Credit(f) /\ Sampled(f)
  BY DEF CreditInv
<1>2. /\ mainPc = "sample" /\ sampleAt \in Puppets
      /\ sum' = sum + completed[sampleAt]
      /\ mainPc' = "sample" => sampleAt' = sampleAt + 1
      /\ UNCHANGED <<puppetPc, completed>>
  BY DEF MainSample, TypeOK, puppetVars
<1>3. \A p \in Puppets : \A t \in f[p] : Reported(t)'
  BY <1>1, ReportedStays DEF Credit
<1>4. Credit(f)'
  BY <1>1, <1>2, <1>3 DEF Credit, Uncounted
<1>5. PICK S \in SUBSET Txns :
             /\ sum <= Cardinality(S)
             /\ \A t \in S : \E p \in Puppets : p < sampleAt /\ t \in f[p]
  BY <1>1, <1>2 DEF Sampled
<1>6. PICK T \in SUBSET Txns : T = S \cup f[sampleAt]
  BY <1>2
<1>7. sum' <= Cardinality(T)
  <2>1. S \cap f[sampleAt] = {}
    <3> SUFFICES ASSUME NEW t \in S, t \in f[sampleAt] PROVE FALSE
      OBVIOUS
    <3>1. PICK p \in Puppets : p < sampleAt /\ t \in f[p]
      BY <1>5
    <3>2. p # sampleAt
      BY <1>2, <3>1, SwAssumption DEF Puppets
    <3> QED BY <1>1, <1>2, <3>1, <3>2 DEF Credit
  <2>2. f[sampleAt] \in SUBSET Txns
    BY <1>2
  <2>3. /\ IsFiniteSet(S) /\ IsFiniteSet(f[sampleAt])
        /\ Cardinality(S) \in Nat /\ Cardinality(f[sampleAt]) \in Nat
    BY <2>2, TxnsFinite
  <2>4. Cardinality(S \cap f[sampleAt]) = 0
    BY <2>1, FS_EmptySet
  <2>5. Cardinality(T) = Cardinality(S) + Cardinality(f[sampleAt])
    <3>x. PICK F : F = f[sampleAt]
      OBVIOUS
    <3>1. Cardinality(S \cup F) = Cardinality(S) + Cardinality(F) - Cardinality(S \cap F)
      BY <2>3, <3>x, FS_Union
    <3> QED BY <1>6, <2>3, <2>4, <3>x, <3>1
  <2>7. completed[sampleAt] \in Nat /\ sum \in Nat
    BY <1>2 DEF TypeOK
  <2>8. completed[sampleAt] + Uncounted(sampleAt) <= Cardinality(f[sampleAt])
    BY <1>1, <1>2 DEF Credit
  <2>9. Uncounted(sampleAt) \in {0, 1}
    BY DEF Uncounted
  <2>6. completed[sampleAt] <= Cardinality(f[sampleAt])
    BY <2>3, <2>7, <2>8, <2>9
  <2> QED BY <1>2, <1>5, <2>3, <2>5, <2>6, <2>7
<1>8. Sampled(f)'
  <2> SUFFICES ASSUME mainPc' = "sample"
               PROVE  \E U \in SUBSET Txns :
                        /\ sum' <= Cardinality(U)
                        /\ \A t \in U : \E p \in Puppets : p < sampleAt' /\ t \in f[p]
    BY DEF Sampled
  <2>1. \A p \in Puppets : p < sampleAt \/ p = sampleAt => p < sampleAt'
    BY <1>2, SwAssumption DEF Puppets
  <2>2. \A t \in T : \E p \in Puppets : p < sampleAt' /\ t \in f[p]
    BY <1>2, <1>5, <1>6, <2>1
  <2> QED BY <1>7, <2>2
<1>9. \A t \in T : Reported(t)'
  BY <1>2, <1>3, <1>5, <1>6
<1>10. EnoughReported'
  BY <1>7, <1>9 DEF EnoughReported
<1> QED BY <1>4, <1>8, <1>10 DEF CreditInv

\* After its sleep main starts again from nothing.
LEMMA WakeCredit ==
  ASSUME IInv, OInv, CreditInv, MainWake
  PROVE  CreditInv'
<1>. TypeOK /\ [Next]_vars
  BY DEF IInv, Next, MainLoop
<1>1. PICK f \in [Puppets -> SUBSET Txns] : Credit(f) /\ Sampled(f)
  BY DEF CreditInv
<1>2. sum' = 0 /\ UNCHANGED <<puppetPc, completed>>
  BY DEF MainWake, puppetVars
<1>3. \A p \in Puppets : \A t \in f[p] : Reported(t)'
  BY <1>1, ReportedStays DEF Credit
<1>4. Credit(f)'
  BY <1>1, <1>2, <1>3 DEF Credit, Uncounted
<1>5. Sampled(f)'
  <2>1. {} \in SUBSET Txns /\ sum' <= Cardinality({})
    BY <1>2, FS_EmptySet
  <2> QED BY <2>1 DEF Sampled
<1> QED BY <1>4, <1>5 DEF CreditInv

\* Outside the progress loop there is no sum to account for.
LEMMA AwayCredit ==
  ASSUME IInv, OInv, [Next]_vars, CreditInv, mainPc' # "sample",
         UNCHANGED <<completed, puppetPc>>
  PROVE  CreditInv'
<1>1. PICK f \in [Puppets -> SUBSET Txns] : Credit(f) /\ Sampled(f)
  BY DEF CreditInv
<1>2. \A p \in Puppets : \A t \in f[p] : Reported(t)'
  BY <1>1, ReportedStays DEF Credit
<1>3. Credit(f)'
  BY <1>1, <1>2 DEF Credit, Uncounted
<1>4. Sampled(f)'
  BY DEF Sampled
<1> QED BY <1>3, <1>4 DEF CreditInv

LEMMA NextCredit ==
  ASSUME IInv, OInv, CreditInv, [Next]_vars
  PROVE  CreditInv'
<1>. TypeOK
  BY DEF IInv
<1>1. CASE ClientStep \/ SchedStep \/ UNCHANGED vars
  <2>1. UNCHANGED <<completed, sum, sampleAt, mainPc, puppetPc>>
    BY <1>1 DEF ClientStep, ClientLog, ClientEnq, SchedStep, SchedCheck,
           SchedDrainSkip, SchedDrainEnter, SchedDrainDeq, SchedGiveUp, SchedTake,
           SchedPublish, vars, puppetVars, mainVars
  <2> QED BY <2>1, IdleCredit DEF CreditIdle, Uncounted
<1>2. ASSUME NEW q \in Puppets, PuppetStep(q) PROVE CreditInv'
  <2>1. ASSUME PuppetCheck(q) \/ PuppetPollEmpty(q) \/ PuppetPoll(q) \/ PuppetRecv(q)
               \/ PuppetWorked(q)
        PROVE  CreditInv'
    <3>1. /\ UNCHANGED <<completed, sum, sampleAt, mainPc>>
          /\ puppetPc[q] # "count"
          /\ \E pc \in {"check", "deq", "recv", "work", "report", "exited"} :
               puppetPc' = [puppetPc EXCEPT ![q] = pc]
      BY <2>1 DEF PuppetCheck, PuppetPollEmpty, PuppetPoll, PuppetRecv,
                  PuppetWorked, mainVars
    <3>2. \A p \in Puppets : puppetPc'[p] = "count" <=> puppetPc[p] = "count"
      BY <3>1 DEF TypeOK
    <3> QED BY <3>1, <3>2, IdleCredit DEF CreditIdle, Uncounted
  <2> QED BY <1>2, <2>1, ReportCredit, CountCredit DEF PuppetStep
<1>3. CASE MainLoop \/ MainShutdown
  <2>1. CASE MainNoProgress \/ MainJudge \/ MainShutdown
    <3>1. mainPc' # "sample" /\ UNCHANGED <<completed, puppetPc>>
      BY <2>1 DEF MainNoProgress, MainJudge, MainShutdown, MainStop, MainFree,
                  MainJoin, MainExit, puppetVars
    <3> QED BY <3>1, AwayCredit
  <2> QED BY <1>3, <2>1, SampleCredit, WakeCredit DEF MainLoop
<1> QED BY <1>1, <1>2, <1>3 DEF Next, Terminated

LEMMA NextEnough ==
  ASSUME IInv, OInv, CreditInv, EnoughReported, [Next]_vars
  PROVE  EnoughReported'
<1>1. CASE MainSample
  BY <1>1, SampleCredit
<1>2. CASE ~ MainSample /\ mainPc' = "judge"
  <2>1. mainPc = "judge" /\ sum' = sum
    BY <1>2 DEF Next, ClientStep, ClientLog, ClientEnq, SchedStep, SchedCheck,
           SchedDrainSkip, SchedDrainEnter, SchedDrainDeq, SchedGiveUp, SchedTake,
           SchedPublish, PuppetStep, PuppetCheck, PuppetPollEmpty, PuppetPoll,
           PuppetRecv, PuppetWorked, PuppetReport, PuppetCount, MainLoop,
           MainShutdown, MainNoProgress, MainJudge, MainWake, MainStop, MainFree,
           MainJoin, MainExit, Terminated, vars, mainVars
  <2>2. PICK S \in SUBSET Txns : sum <= Cardinality(S) /\ \A t \in S : Reported(t)
    BY <2>1 DEF EnoughReported
  <2>3. \A t \in S : Reported(t)'
    BY <2>2, ReportedStays
  <2> QED BY <2>1, <2>2, <2>3 DEF EnoughReported
<1>3. CASE mainPc' # "judge"
  BY <1>3 DEF EnoughReported
<1> QED BY <1>1, <1>2, <1>3

LEMMA NextEndgame ==
  ASSUME IInv, OInv, EnoughReported, Endgame, [Next]_vars
  PROVE  Endgame'
<1>. TypeOK
  BY DEF IInv
<1>1. CASE UNCHANGED <<mainPc, freed, success>>
  BY <1>1, ReportedStays DEF Endgame
<1>2. CASE MainJudge
  <2>1. /\ mainPc = "judge" /\ UNCHANGED freed
        /\ success' = (sum = NumTxns)
        /\ mainPc' = IF sum = NumTxns THEN "stop" ELSE "sleep"
    BY <1>2 DEF MainJudge
  <2>2. PICK S \in SUBSET Txns : sum <= Cardinality(S) /\ \A t \in S : Reported(t)
    BY <2>1 DEF EnoughReported
  <2>3. sum = NumTxns => S = Txns
    <3>1. Cardinality(S) \in Nat /\ Cardinality(S) <= NumTxns /\ NumTxns \in Nat
          /\ (Cardinality(S) = NumTxns => S = Txns)
      BY TxnsFinite, TransactionsAssumption
    <3> QED BY <2>2, <3>1
  <2>4. sum = NumTxns => \A t \in Txns : Reported(t)'
    BY <2>2, <2>3, ReportedStays
  <2> QED BY <2>1, <2>4 DEF Endgame
<1>3. CASE MainSample \/ MainNoProgress \/ MainWake
  BY <1>3, ReportedStays DEF MainSample, MainNoProgress, MainWake, Endgame
<1>4. CASE MainShutdown
  BY <1>4, ReportedStays DEF MainShutdown, MainStop, MainFree, MainJoin, MainExit,
                             Endgame
<1>5. \/ UNCHANGED <<mainPc, freed, success>>
      \/ MainLoop \/ MainShutdown
  BY DEF Next, ClientStep, ClientLog, ClientEnq, SchedStep, SchedCheck,
         SchedDrainSkip, SchedDrainEnter, SchedDrainDeq, SchedGiveUp, SchedTake,
         SchedPublish, PuppetStep, PuppetCheck, PuppetPollEmpty, PuppetPoll,
         PuppetRecv, PuppetWorked, PuppetReport, PuppetCount, Terminated, vars,
         mainVars
<1> QED BY <1>1, <1>2, <1>3, <1>4, <1>5 DEF MainLoop

LEMMA InitEnd == Init => EInv
<1> SUFFICES ASSUME Init PROVE EInv
  OBVIOUS
<1>1. PICK f \in [Puppets -> SUBSET Txns] : f = [p \in Puppets |-> {}]
  OBVIOUS
<1>2. \A p \in Puppets : f[p] = {} /\ completed[p] = 0 /\ Uncounted(p) = 0
  BY <1>1 DEF Init, Uncounted
<1>3. Cardinality({}) = 0
  BY FS_EmptySet
<1>4. Credit(f)
  <2>1. \A p \in Puppets : completed[p] + Uncounted(p) <= Cardinality(f[p])
    BY <1>2, <1>3
  <2>2. \A p \in Puppets : \A t \in f[p] : Reported(t)
    BY <1>2
  <2> QED BY <1>2, <2>1, <2>2 DEF Credit
<1>5. Sampled(f)
  <2>1. {} \in SUBSET Txns /\ sum <= Cardinality({})
    BY <1>3 DEF Init
  <2> QED BY <2>1 DEF Sampled
<1>6. EnoughReported /\ Endgame
  BY DEF Init, EnoughReported, Endgame
<1> QED BY <1>4, <1>5, <1>6 DEF EInv, CreditInv

\* The counters never run ahead of what has been reported, so main takes the
\* graceful path only when everything has been.
THEOREM EndInvariant == Spec => []EInv
<1>1. IInv /\ OInv /\ EInv /\ [Next]_vars => (IInv /\ OInv /\ EInv)'
  BY NextIInv, NextOrder, NextCredit, NextEnough, NextEndgame DEF EInv
<1>2. Init => IInv /\ OInv /\ EInv
  BY InitIInv, InitOrder, InitEnd
<1> QED BY <1>1, <1>2, PTL DEF Spec

\* When everything has been reported the client is through and no transaction
\* is with a puppet or on its way to one.
LEMMA AllReported ==
  ASSUME TypeOK, OInv, \A t \in Txns : Reported(t)
  PROVE  clientPc = "exited" /\ InFlight = {}
<1>1. next \notin Txns
  BY DoneNotAhead DEF Reported
<1>2. clientPc = "exited"
  BY <1>1 DEF OInv, ClientAt
<1>3. taken = NoTxn
  BY DoneNotAhead DEF Reported, TypeOK
<1>4. ASSUME NEW p \in Puppets, puppetTxn[p] # NoTxn PROVE FALSE
  <2>1. puppetTxn[p] \in Txns
    BY <1>4 DEF TypeOK
  <2> QED BY <2>1 DEF Reported
<1>5. ASSUME NEW p \in Puppets PROVE RangeOf(sched[p]) = {}
  <2>1. \A t \in RangeOf(sched[p]) : t \in Txns
    BY ElementOfSeq DEF TypeOK, RangeOf
  <2> QED BY <2>1, DoneNotAhead DEF Reported
<1> QED BY <1>2, <1>3, <1>4, <1>5 DEF InFlight

\* main reports success only when every transaction has been executed and
\* reported, although it adds up the counters while they change.
THEOREM SuccessAfterAll == Spec => []SuccessIsComplete
<1>1. IInv /\ OInv /\ EInv => SuccessIsComplete
  <2> SUFFICES ASSUME IInv, OInv, EInv, success
               PROVE  /\ clientPc = "exited" /\ InFlight = {}
                      /\ \A t \in Txns : Logged(t, "DONE")
    BY DEF SuccessIsComplete
  <2>1. \A t \in Txns : Reported(t)
    BY DEF EInv, Endgame
  <2> QED BY <2>1, AllReported DEF IInv, Reported
<1> QED BY <1>1, PipelineInvariant, OrderInvariant, EndInvariant, PTL

\* No thread touches a buffer that pmhw_shutdown has freed.
THEOREM FreedStaysUntouched == Spec => []FreedQueuesUntouched
<1>1. IInv /\ OInv /\ EInv => FreedQueuesUntouched
  <2> SUFFICES ASSUME IInv, OInv, EInv, freed
               PROVE  /\ schedPc = "exited"
                      /\ clientPc # "enq"
                      /\ \A p \in Puppets : /\ puppetPc[p] = "deq" => sched[p] = <<>>
                                            /\ puppetPc[p] # "report"
    BY DEF FreedQueuesUntouched
  <2>. TypeOK
    BY DEF IInv
  <2>1. schedPc = "exited"
    BY DEF IInv, FreedAfterJoin
  <2>2. \A t \in Txns : Reported(t)
    BY DEF EInv, Endgame
  <2>3. clientPc = "exited" /\ InFlight = {}
    BY <2>2, AllReported
  <2>4. ASSUME NEW p \in Puppets PROVE sched[p] = <<>> /\ puppetPc[p] # "report"
    <3>1. puppetTxn[p] = NoTxn
      BY <2>3 DEF InFlight
    <3>2. puppetPc[p] # "report"
      BY <3>1 DEF TypeOK, Holding
    <3>3. ASSUME sched[p] # <<>> PROVE FALSE
      <4>1. sched[p] \in Seq(Txns) /\ 1 \in 1..Len(sched[p])
        BY <3>3, EmptySeq DEF TypeOK
      <4>2. sched[p][1] \in RangeOf(sched[p]) /\ sched[p][1] \in Txns
        BY <4>1, ElementOfSeq DEF RangeOf
      <4> QED BY <2>3, <4>2, NoTxnNotTxn DEF InFlight
    <3> QED BY <3>2, <3>3
  <2> QED BY <2>1, <2>3, <2>4
<1> QED BY <1>1, PipelineInvariant, OrderInvariant, EndInvariant, PTL

-----------------------------------------------------------------------------
(* The refinement.  ClientEnq is Submit, SchedTake is Start, PuppetWorked  *)
(* is Finish; every other step moves a transaction between places that     *)
(* mean the same to TxnScheduling.                                         *)

LEMMA InFlightIs ==
  \A t : t \in InFlight <=>
    /\ t # NoTxn
    /\ \/ t = taken
       \/ \E p \in Puppets : t \in RangeOf(sched[p]) \/ t = puppetTxn[p]
BY DEF InFlight

\* Where a transaction in flight can be, and that it has been submitted.
LEMMA AbsType ==
  ASSUME TypeOK, OInv
  PROVE  /\ absWaiting = Oldest..(next - 1) /\ absWaiting \subseteq 1..(next - 1)
         /\ InFlight \subseteq 1..(Oldest - 1)
         /\ InFlight \subseteq UNION {RangeOf(Pipeline(p)) : p \in Puppets}
         /\ absRunning \subseteq InFlight
         /\ Oldest \in 1..next /\ next \in Nat
<1>. PendingInOrder /\ PipelinesDistinct
  BY DEF OInv
<1>1. RangeOf(pending) = Oldest..(next - 1) /\ Oldest \in Nat \ {0} /\ next \in Nat
      /\ Len(pending) \in Nat
  BY PendingRange
<1>2. ASSUME NEW t \in InFlight PROVE t \in Txns /\ t < Oldest
  <2>1. t = taken \/ \E p \in Puppets : t \in RangeOf(sched[p]) \/ t = puppetTxn[p]
    BY InFlightIs
  <2>2. t # NoTxn
    BY InFlightIs
  <2> QED BY <2>1, <2>2, InPipeline DEF TypeOK
<1>3. ASSUME NEW t \in InFlight PROVE \E p \in Puppets : t \in RangeOf(Pipeline(p))
  <2>1. t = taken \/ \E p \in Puppets : t \in RangeOf(sched[p]) \/ t = puppetTxn[p]
    BY InFlightIs
  <2>2. t # NoTxn
    BY InFlightIs
  <2>3. RangeOf(Unpublished(current)) = {taken} \ {NoTxn} /\ current \in Puppets
    BY OptSeqType DEF Unpublished, TypeOK
  <2> QED BY <2>1, <2>2, <2>3, PipelineRange
<1>4. \A t \in InFlight : t \in 1..(Oldest - 1)
  BY <1>1, <1>2 DEF Txns
<1>5. Oldest \in 1..next
  BY <1>1 DEF Oldest
<1> QED BY <1>1, <1>3, <1>4, <1>5 DEF absWaiting, absRunning

\* A step that leaves the places' meaning alone is a stutter.
LEMMA AbsStutter ==
  ASSUME pending' = pending, next' = next, InFlight' = InFlight,
         \A t \in InFlight :
           (\A p \in Puppets : puppetPc[p] = "report" => puppetTxn[p] # t)'
             <=> (\A p \in Puppets : puppetPc[p] = "report" => puppetTxn[p] # t)
  PROVE  UNCHANGED Abs!avars
<1>1. absWaiting' = absWaiting
  BY DEF absWaiting
<1>2. absRunning' = absRunning
  BY DEF absRunning
<1>3. absFinished' = absFinished
  BY <1>1, <1>2 DEF absFinished
<1> QED BY <1>1, <1>2, <1>3 DEF Abs!avars

LEMMA EnqIsSubmit ==
  ASSUME IInv, OInv, ClientEnq
  PROVE  next \in Abs!Txns /\ Abs!Submit(next)
<1>. TypeOK
  BY DEF IInv
<1>1. /\ next \in Txns /\ next' = next + 1 /\ pending' = Append(pending, next)
      /\ UNCHANGED <<taken, sched, puppetPc, puppetTxn>>
  BY DEF ClientEnq, TypeOK, schedVars, puppetVars
<1>2. absWaiting' = absWaiting \cup {next}
  BY <1>1, RangeAppend DEF absWaiting, TypeOK
<1>3. absRunning' = absRunning
  BY <1>1 DEF absRunning, InFlight
<1>4. /\ absWaiting \subseteq 1..(next - 1) /\ absRunning \subseteq 1..(next - 1)
      /\ next \in Nat
  BY AbsType
<1>5. absWaiting \cup absRunning \cup absFinished = 1..(next - 1)
  BY <1>4 DEF absFinished
<1>6. absFinished' = absFinished
  BY <1>1, <1>2, <1>3, <1>4 DEF absFinished
<1> QED BY <1>1, <1>2, <1>3, <1>5, <1>6 DEF Abs!Submit, Abs!Txns, Txns

LEMMA TakeIsStart ==
  ASSUME IInv, OInv, SchedTake
  PROVE  \E x \in Abs!Txns : Abs!Start(x)
<1>. TypeOK /\ PendingInOrder
  BY DEF IInv, OInv
<1>x. PICK x : x = Head(pending)
  OBVIOUS
<1>1. /\ pending # <<>> /\ pending \in Seq(Txns) /\ pending' = Tail(pending)
      /\ ~ conflicts_with_active(x) /\ taken' = x /\ taken = NoTxn /\ ~ freed
      /\ UNCHANGED <<next, sched, puppetPc, puppetTxn>>
  BY <1>x, SchedTakeInv DEF SchedTake, TypeOK, clientVars, puppetVars
<1>2. x = Oldest /\ Oldest < next /\ x \in Txns
  BY <1>x, <1>1, PendingRange, HeadTailProperties
<1>3. /\ absWaiting = Oldest..(next - 1)
      /\ InFlight \subseteq 1..(Oldest - 1)
      /\ InFlight \subseteq UNION {RangeOf(Pipeline(p)) : p \in Puppets}
      /\ absRunning \subseteq InFlight
      /\ Oldest \in 1..next /\ next \in Nat
  BY AbsType
<1>4. absWaiting' = absWaiting \ {x}
  <2>1. Len(pending) \in Nat /\ Len(pending) >= 1 /\ Len(Tail(pending)) = Len(pending) - 1
        /\ \A i \in 1..Len(Tail(pending)) : Tail(pending)[i] = pending[i + 1]
    BY <1>1, HeadTailProperties, EmptySeq, LenProperties
  <2>2. \A i \in 1..Len(pending) : pending[i] = Oldest - 1 + i
    BY DEF PendingInOrder
  <2>3. \A i \in 1..Len(Tail(pending)) :
           Tail(pending)[i] = Oldest + i /\ Oldest + i \in (Oldest + 1)..(next - 1)
    BY <1>3, <2>1, <2>2 DEF Oldest
  <2>4. \A t \in (Oldest + 1)..(next - 1) :
           t - Oldest \in 1..Len(Tail(pending)) /\ Oldest + (t - Oldest) = t
    BY <1>3, <2>1 DEF Oldest
  <2>5. RangeOf(Tail(pending)) = (Oldest + 1)..(next - 1)
    BY ZenonT(30), <2>3, <2>4 DEF RangeOf
  <2>6. (Oldest..(next - 1)) \ {Oldest} = (Oldest + 1)..(next - 1)
    BY <1>3
  <2> QED BY <1>1, <1>2, <1>3, <2>5, <2>6 DEF absWaiting
<1>5. InFlight' = InFlight \cup {x}
  <2>1. x # NoTxn
    BY <1>2, NoTxnNotTxn
  <2> QED BY <1>1, <2>1 DEF InFlight
<1>6. \A p \in Puppets : puppetPc[p] = "report" => puppetTxn[p] # x
  <2>1. \A p \in Puppets : puppetPc[p] = "report" => puppetTxn[p] \in InFlight
    BY InFlightIs DEF TypeOK, Holding
  <2> QED BY <1>2, <1>3, <2>1
<1>7. absRunning' = absRunning \cup {x}
  BY <1>1, <1>5, <1>6 DEF absRunning
<1>8. absFinished' = absFinished
  BY <1>1, <1>2, <1>3, <1>4, <1>7 DEF absFinished
<1>9. \A u \in absRunning : ~ check_txn_conflict(x, u)
  <2>1. \A p \in Puppets : active[p] = Pipeline(p)
    BY <1>1 DEF IInv, PipelineIsActive
  <2> QED BY <1>1, <1>3, <2>1 DEF conflicts_with_active
<1>10. x \in absWaiting /\ \A u \in absWaiting : x <= u
  BY <1>2, <1>3
<1> QED BY <1>2, <1>4, <1>7, <1>8, <1>9, <1>10
        DEF Abs!Start, Abs!Txns, Txns, Abs!check_txn_conflict, check_txn_conflict

LEMMA WorkedIsFinish ==
  ASSUME IInv, OInv, NEW q \in Puppets, PuppetWorked(q)
  PROVE  \E x \in Abs!Txns : Abs!Finish(x)
<1>. TypeOK /\ PipelinesDistinct
  BY DEF IInv, OInv
<1>x. PICK x : x = puppetTxn[q]
  OBVIOUS
<1>1. /\ x \in Txns /\ x # NoTxn /\ puppetPc[q] = "work"
      /\ puppetPc' = [puppetPc EXCEPT ![q] = "report"]
      /\ UNCHANGED <<pending, next, taken, sched, puppetTxn>>
  BY <1>x, NoTxnNotTxn DEF PuppetWorked, TypeOK, Holding, clientVars, schedVars
<1>2. /\ absWaiting = Oldest..(next - 1)
      /\ InFlight \subseteq 1..(Oldest - 1)
      /\ absRunning \subseteq InFlight
      /\ Oldest \in 1..next /\ next \in Nat
  BY AbsType
<1>3. x \in InFlight
  BY <1>1, <1>x, InFlightIs
<1>4. \A p \in Puppets : p # q => puppetTxn[p] # x
  BY <1>1, <1>x, Places
<1>5. x \in absRunning
  BY <1>1, <1>3, <1>4 DEF absRunning
<1>6. InFlight' = InFlight /\ absWaiting' = absWaiting
  BY <1>1 DEF InFlight, absWaiting
<1>7. \A p \in Puppets : puppetPc'[p] = "report" <=> puppetPc[p] = "report" \/ p = q
  BY <1>1 DEF TypeOK
<1>8. absRunning' = absRunning \ {x}
  BY <1>1, <1>x, <1>6, <1>7 DEF absRunning
<1>9. absFinished' = absFinished \cup {x}
  BY <1>1, <1>2, <1>3, <1>6, <1>8 DEF absFinished
<1> QED BY <1>1, <1>5, <1>6, <1>8, <1>9 DEF Abs!Finish, Abs!Txns, Txns

LEMMA PublishIsStutter ==
  ASSUME IInv, OInv, SchedPublish
  PROVE  UNCHANGED Abs!avars
<1>. TypeOK
  BY DEF IInv
<1>1. /\ taken \in Txns /\ taken' = NoTxn /\ current \in Puppets
      /\ sched' = [sched EXCEPT ![current] = Append(@, taken)]
      /\ UNCHANGED <<pending, next, puppetPc, puppetTxn>>
  <2>1. taken # NoTxn /\ taken \in Txns \cup {NoTxn} /\ current \in Puppets
    BY DEF SchedPublish, TypeOK
  <2> QED BY <2>1 DEF SchedPublish, clientVars, puppetVars
<1>2. RangeOf(Append(sched[current], taken)) = RangeOf(sched[current]) \cup {taken}
  <2>1. sched[current] \in Seq(Txns)
    BY <1>1 DEF TypeOK
  <2> QED BY <1>1, <2>1, RangeAppend
<1>3. /\ RangeOf(sched'[current]) = RangeOf(sched[current]) \cup {taken}
      /\ \A p \in Puppets : p # current => sched'[p] = sched[p]
  BY <1>1, <1>2 DEF TypeOK
<1>4. \A t : t \in InFlight' <=>
        /\ t # NoTxn
        /\ \/ t = taken'
           \/ \E p \in Puppets : t \in RangeOf(sched'[p]) \/ t = puppetTxn'[p]
  BY DEF InFlight
<1>5. \A t : t \in InFlight' <=> t \in InFlight
  BY <1>1, <1>3, <1>4, InFlightIs
<1>6. InFlight' = InFlight
  BY <1>5
<1> QED BY <1>1, <1>6, AbsStutter

LEMMA PollIsStutter ==
  ASSUME IInv, OInv, NEW q \in Puppets, PuppetPoll(q)
  PROVE  UNCHANGED Abs!avars
<1>. TypeOK
  BY DEF IInv
<1>x. PICK x : x = Head(sched[q])
  OBVIOUS
<1>1. /\ sched[q] # <<>> /\ sched[q] \in Seq(Txns) /\ puppetPc[q] = "deq"
      /\ puppetTxn' = [puppetTxn EXCEPT ![q] = x]
      /\ sched' = [sched EXCEPT ![q] = Tail(@)]
      /\ puppetPc' = [puppetPc EXCEPT ![q] = "recv"]
      /\ UNCHANGED <<pending, next, taken>>
  BY <1>x DEF PuppetPoll, TypeOK, clientVars, schedVars
<1>2. puppetTxn[q] = NoTxn
  BY <1>1 DEF TypeOK, Holding
<1>3. RangeOf(sched[q]) = {x} \cup RangeOf(Tail(sched[q])) /\ x \in Txns
  <2>1. /\ x \in Txns /\ Tail(sched[q]) \in Seq(Txns)
        /\ sched[q] = <<x>> \o Tail(sched[q])
    BY <1>1, <1>x, HeadTailProperties, HeadAndTail
  <2>2. <<x>> \in Seq(Txns) /\ RangeOf(<<x>>) = {x}
    BY <2>1 DEF RangeOf
  <2>3. RangeOf(<<x>> \o Tail(sched[q])) = RangeOf(<<x>>) \cup RangeOf(Tail(sched[q]))
    <3>1. PICK y \in Seq(Txns) : y = Tail(sched[q])
      BY <2>1
    <3>2. PICK z \in Seq(Txns) : z = <<x>>
      BY <2>2
    <3>3. RangeOf(z \o y) = RangeOf(z) \cup RangeOf(y)
      BY RangeConcat
    <3> QED BY <3>1, <3>2, <3>3
  <2> QED BY <2>1, <2>2, <2>3
<1>4. /\ sched'[q] = Tail(sched[q]) /\ puppetTxn'[q] = x
      /\ \A p \in Puppets : p # q => sched'[p] = sched[p] /\ puppetTxn'[p] = puppetTxn[p]
  BY <1>1 DEF TypeOK
<1>5. \A t : t \in InFlight' <=>
        /\ t # NoTxn
        /\ \/ t = taken'
           \/ \E p \in Puppets : t \in RangeOf(sched'[p]) \/ t = puppetTxn'[p]
  BY DEF InFlight
<1>6. \A t : t \in InFlight' <=> t \in InFlight
  BY <1>1, <1>2, <1>3, <1>4, <1>5, InFlightIs
<1>7. InFlight' = InFlight
  BY <1>6
<1>8. \A p \in Puppets : puppetPc'[p] = "report" <=> puppetPc[p] = "report" /\ p # q
  BY <1>1 DEF TypeOK
<1> QED BY <1>1, <1>4, <1>7, <1>8, AbsStutter

LEMMA ReportIsStutter ==
  ASSUME IInv, OInv, NEW q \in Puppets, PuppetReport(q)
  PROVE  UNCHANGED Abs!avars
<1>. TypeOK /\ PipelinesDistinct
  BY DEF IInv, OInv
<1>x. PICK x : x = puppetTxn[q]
  OBVIOUS
<1>1. /\ x \in Txns /\ x # NoTxn /\ puppetPc[q] = "report"
      /\ puppetTxn' = [puppetTxn EXCEPT ![q] = NoTxn]
      /\ puppetPc' = [puppetPc EXCEPT ![q] = "count"]
      /\ UNCHANGED <<pending, next, taken, sched>>
  BY <1>x, NoTxnNotTxn DEF PuppetReport, TypeOK, Holding, clientVars, schedVars
<1>2. /\ puppetTxn'[q] = NoTxn /\ puppetPc'[q] = "count"
      /\ \A p \in Puppets : p # q => puppetTxn'[p] = puppetTxn[p]
                                     /\ puppetPc'[p] = puppetPc[p]
  BY <1>1 DEF TypeOK
<1>3. \A t : t \in InFlight' <=>
        /\ t # NoTxn
        /\ \/ t = taken'
           \/ \E p \in Puppets : t \in RangeOf(sched'[p]) \/ t = puppetTxn'[p]
  BY DEF InFlight
<1>4. /\ x # taken /\ \A p \in Puppets : x \notin RangeOf(sched[p])
      /\ \A p \in Puppets : p # q => puppetTxn[p] # x
  BY <1>1, <1>x, Places
<1>5. \A t : t \in InFlight' <=> t \in InFlight /\ t # x
  BY <1>1, <1>x, <1>2, <1>3, <1>4, InFlightIs
<1>6. absRunning' = absRunning
  BY <1>1, <1>x, <1>2, <1>5 DEF absRunning
<1>7. absWaiting' = absWaiting
  BY <1>1 DEF absWaiting
<1>8. absFinished' = absFinished
  BY <1>1, <1>6, <1>7 DEF absFinished
<1> QED BY <1>6, <1>7, <1>8 DEF Abs!avars

LEMMA NextAbs ==
  ASSUME IInv, OInv, [Next]_vars
  PROVE  [Abs!ANext]_(Abs!avars)
<1>. TypeOK
  BY DEF IInv
<1>1. CASE ClientStep
  <2>1. CASE ClientLog
    BY <2>1, AbsStutter DEF ClientLog, InFlight, schedVars, puppetVars
  <2> QED BY <1>1, <2>1, EnqIsSubmit DEF ClientStep, Abs!ANext
<1>2. CASE SchedStep
  <2>1. CASE SchedCheck \/ SchedDrainSkip \/ SchedDrainEnter \/ SchedDrainDeq
             \/ SchedGiveUp
    <3>1. UNCHANGED <<pending, next, taken, sched, puppetPc, puppetTxn>>
      BY <2>1 DEF SchedCheck, SchedDrainSkip, SchedDrainEnter, SchedDrainDeq,
                  SchedGiveUp, clientVars, puppetVars
    <3> QED BY <3>1, AbsStutter DEF InFlight
  <2> QED BY <1>2, <2>1, TakeIsStart, PublishIsStutter DEF SchedStep, Abs!ANext
<1>3. ASSUME NEW q \in Puppets, PuppetStep(q) PROVE [Abs!ANext]_(Abs!avars)
  <2>1. CASE PuppetCheck(q) \/ PuppetPollEmpty(q) \/ PuppetRecv(q) \/ PuppetCount(q)
    <3>1. /\ UNCHANGED <<pending, next, taken, sched, puppetTxn>>
          /\ puppetPc[q] # "report"
          /\ \E pc \in {"check", "deq", "work", "exited"} :
               puppetPc' = [puppetPc EXCEPT ![q] = pc]
      BY <2>1 DEF PuppetCheck, PuppetPollEmpty, PuppetRecv, PuppetCount, clientVars,
                  schedVars
    <3>2. \A p \in Puppets : puppetPc'[p] = "report" <=> puppetPc[p] = "report"
      BY <3>1 DEF TypeOK
    <3>3. InFlight' = InFlight
      BY <3>1 DEF InFlight
    <3> QED BY <3>1, <3>2, <3>3, AbsStutter
  <2> QED BY <1>3, <2>1, PollIsStutter, WorkedIsFinish, ReportIsStutter
          DEF PuppetStep, Abs!ANext
<1>4. CASE MainLoop \/ MainShutdown \/ UNCHANGED vars
  <2>1. UNCHANGED <<pending, next, taken, sched, puppetPc, puppetTxn>>
    BY <1>4 DEF MainLoop, MainShutdown, MainSample, MainNoProgress, MainJudge,
                MainWake, MainStop, MainFree, MainJoin, MainExit, vars, clientVars,
                schedVars, puppetVars
  <2> QED BY <2>1, AbsStutter DEF InFlight
<1> QED BY <1>1, <1>2, <1>3, <1>4 DEF Next, Terminated

LEMMA InitAbs == Init => Abs!AInit
<1> SUFFICES ASSUME Init PROVE Abs!AInit
  OBVIOUS
<1>1. absWaiting = {} /\ InFlight = {}
  BY DEF Init, absWaiting, InFlight, RangeOf
<1>2. 1..(next - 1) = {}
  BY DEF Init
<1> QED BY <1>1, <1>2 DEF Abs!AInit, absRunning, absFinished

\* The four threads and their queues implement TxnScheduling.
THEOREM Refinement == Spec => ImplementsScheduling
<1>1. Init => Abs!AInit
  BY InitAbs
<1>2. IInv /\ OInv /\ [Next]_vars => [Abs!ANext]_(Abs!avars)
  BY NextAbs
<1> QED BY <1>1, <1>2, PipelineInvariant, OrderInvariant, PTL
        DEF Spec, ImplementsScheduling, Abs!AbstractSpec
=============================================================================
