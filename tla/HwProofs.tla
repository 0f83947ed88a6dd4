------------------------------ MODULE HwProofs ------------------------------
(***************************************************************************)
(* The hardware scheduler's safety, for every workload, number of puppets, *)
(* buffer size and duration of a summary's operation.                      *)
(***************************************************************************)
EXTENDS HwProperties, SequenceTheorems, FiniteSetTheorems, WellFoundedInduction,
        TLAPS

\* What travels through the executor is a transaction of a puppet.
ExecutorTyped ==
  /\ schedFF \in Seq(Message) /\ doneFF \in Seq(Message)
  /\ puppetQ \in [Puppets -> Seq(Txns)]
  /\ working \in [Puppets -> Txns \cup {Ex!NoTxn}]
  /\ donePuppet \in Puppets \cup {Ex!NoPuppet}

\* The grant of the arbiter is what makes the messages of the executor typed.
HType == TypeOK /\ ExecutorTyped /\ ArbRightPuppet /\ LookaheadFits

-----------------------------------------------------------------------------
(* Queues.                                                                 *)

LEMMA HeadTail ==
  ASSUME NEW S, NEW s \in Seq(S), s # <<>>
  PROVE  /\ Head(s) \in S /\ Tail(s) \in Seq(S)
         /\ Len(s) \in Nat \ {0} /\ Len(Tail(s)) = Len(s) - 1
         /\ RangeOf(s) = {Head(s)} \cup RangeOf(Tail(s))
<1>1. /\ Head(s) \in S /\ Tail(s) \in Seq(S)
      /\ Len(s) \in Nat \ {0} /\ Len(Tail(s)) = Len(s) - 1
      /\ Head(s) = s[1]
      /\ \A i \in 1..Len(Tail(s)) : Tail(s)[i] = s[i + 1]
  BY HeadTailProperties, EmptySeq, LenProperties
<1>2. RangeOf(s) \subseteq {Head(s)} \cup RangeOf(Tail(s))
  <2> SUFFICES ASSUME NEW i \in 1..Len(s), i # 1
               PROVE  s[i] \in RangeOf(Tail(s))
    BY <1>1 DEF RangeOf
  <2>1. i - 1 \in 1..Len(Tail(s)) /\ Tail(s)[i - 1] = s[i]
    BY <1>1
  <2> QED BY <2>1 DEF RangeOf
<1>3. \A i \in 1..Len(Tail(s)) : i + 1 \in 1..Len(s) /\ Tail(s)[i] = s[i + 1]
  BY <1>1
<1>4. {Head(s)} \cup RangeOf(Tail(s)) \subseteq RangeOf(s)
  BY <1>1, <1>3 DEF RangeOf
<1> QED BY <1>1, <1>2, <1>4

LEMMA Appended ==
  ASSUME NEW S, NEW s \in Seq(S), NEW e \in S
  PROVE  /\ Append(s, e) \in Seq(S) /\ Append(s, e) # <<>>
         /\ Len(s) \in Nat /\ Len(Append(s, e)) = Len(s) + 1
         /\ s # <<>> => Head(Append(s, e)) = Head(s)
         /\ s = <<>> => Head(Append(s, e)) = e
         /\ RangeOf(Append(s, e)) = RangeOf(s) \cup {e}
<1>1. /\ Append(s, e) \in Seq(S)
      /\ Len(s) \in Nat /\ Len(Append(s, e)) = Len(s) + 1
      /\ \A i \in 1..Len(s) : Append(s, e)[i] = s[i]
      /\ Append(s, e)[Len(s) + 1] = e
  BY AppendProperties, LenProperties
<1>2. Append(s, e) # <<>>
  BY <1>1, EmptySeq
<1>3. Head(Append(s, e)) = Append(s, e)[1] /\ (s # <<>> => Head(s) = s[1])
  BY <1>1, <1>2, EmptySeq
<1>4. s # <<>> => Len(s) > 0
  BY <1>1, EmptySeq
<1>5. s = <<>> => Len(s) = 0
  BY EmptySeq
<1>6. RangeOf(Append(s, e)) = RangeOf(s) \cup {e}
  BY <1>1 DEF RangeOf
<1> QED BY <1>1, <1>2, <1>3, <1>4, <1>5, <1>6

-----------------------------------------------------------------------------
(* Types.                                                                  *)

LEMMA SubmitType == HType /\ Submit => HType'
<1> SUFFICES ASSUME HType, Submit PROVE HType'
  OBVIOUS
<1> USE DEF HType
<1>1. /\ next \in Txns /\ next' = next + 1 /\ inputQ' = Append(inputQ, next)
      /\ Len(inputQ) < InputBufferSize
      /\ UNCHANGED <<state, lookaheadVars, summaryVars, shadowQ, schedQ, workDoneQ,
                     puppetTxns, fsmVars, walkVars, execVars, age>>
  BY DEF Submit, transactions_put
<1>2. inputQ' \in Seq(Txns) /\ Len(inputQ') <= InputBufferSize
  <2>1. inputQ' \in Seq(Txns) /\ Len(inputQ) \in Nat /\ Len(inputQ') = Len(inputQ) + 1
    BY <1>1, Appended DEF TypeOK
  <2> QED BY <1>1, <2>1, PuppetmasterAssumption
<1>3. next' \in 1..(NumTxns + 1)
  BY <1>1, TransactionsAssumption DEF Txns
<1>4. TypeOK'
  BY <1>1, <1>2, <1>3 DEF TypeOK, lookaheadVars, summaryVars, fsmVars, walkVars
<1>5. ExecutorTyped' /\ ArbRightPuppet' /\ LookaheadFits'
  BY <1>1 DEF ExecutorTyped, ArbRightPuppet, LookaheadFits, execVars, lookaheadVars
<1> QED BY <1>4, <1>5

LEMMA DrainInputType ==
  ASSUME HType, drainInput, UNCHANGED <<execVars, next, age>>
  PROVE  HType'
<1> USE DEF HType
<1>1. /\ Len(lookaheadBuffer) < LookaheadBufferSize
      /\ UNCHANGED <<state, summaryVars, shadowQ, schedQ, workDoneQ, puppetTxns,
                     fsmVars, walkVars, execVars, next, age>>
  BY DEF drainInput
<1>2. /\ inputQ \in Seq(Txns) /\ lookaheadBuffer \in Seq(Txns)
      /\ lookaheadReinsert \in Seq(Txns)
  BY DEF TypeOK
<1>3. /\ inputQ' \in Seq(Txns) /\ Len(inputQ') <= InputBufferSize
      /\ lookaheadBuffer' \in Seq(Txns) /\ lookaheadReinsert' \in Seq(Txns)
      /\ lookaheadBuffer' # <<>>
      /\ Len(lookaheadBuffer') + Len(lookaheadReinsert') <= LookaheadBufferSize
  <2>1. CASE /\ lookaheadReinsert # <<>>
             /\ lookaheadBuffer' = Append(lookaheadBuffer, Head(lookaheadReinsert))
             /\ lookaheadReinsert' = Tail(lookaheadReinsert) /\ UNCHANGED inputQ
    <3>1. /\ Head(lookaheadReinsert) \in Txns /\ lookaheadReinsert' \in Seq(Txns)
          /\ Len(lookaheadReinsert) \in Nat
          /\ Len(lookaheadReinsert') = Len(lookaheadReinsert) - 1
      BY <1>2, <2>1, HeadTail
    <3>2. /\ lookaheadBuffer' \in Seq(Txns) /\ lookaheadBuffer' # <<>>
          /\ Len(lookaheadBuffer) \in Nat
          /\ Len(lookaheadBuffer') = Len(lookaheadBuffer) + 1
      BY <1>2, <2>1, <3>1, Appended
    <3>3. Len(lookaheadBuffer') + Len(lookaheadReinsert') <= LookaheadBufferSize
      BY <3>1, <3>2, PuppetmasterAssumption DEF LookaheadFits
    <3> QED BY <2>1, <3>1, <3>2, <3>3 DEF TypeOK
  <2>2. CASE /\ lookaheadReinsert = <<>> /\ inputQ # <<>>
             /\ lookaheadBuffer' = Append(lookaheadBuffer, Head(inputQ))
             /\ inputQ' = Tail(inputQ) /\ UNCHANGED lookaheadReinsert
    <3>1. /\ Head(inputQ) \in Txns /\ inputQ' \in Seq(Txns)
          /\ Len(inputQ) \in Nat /\ Len(inputQ') = Len(inputQ) - 1
      BY <1>2, <2>2, HeadTail
    <3>2. /\ lookaheadBuffer' \in Seq(Txns) /\ lookaheadBuffer' # <<>>
          /\ Len(lookaheadBuffer) \in Nat
          /\ Len(lookaheadBuffer') = Len(lookaheadBuffer) + 1
      BY <1>2, <2>2, <3>1, Appended
    <3>3. Len(lookaheadReinsert') = 0
      BY <2>2, EmptySeq
    <3>4. Len(lookaheadBuffer') + Len(lookaheadReinsert') <= LookaheadBufferSize
      BY <1>1, <3>2, <3>3, PuppetmasterAssumption
    <3>5. Len(inputQ') <= InputBufferSize
      BY <3>1, PuppetmasterAssumption DEF TypeOK
    <3> QED BY <1>2, <2>2, <3>1, <3>2, <3>4, <3>5
  <2> QED BY <2>1, <2>2 DEF drainInput, FromReinsert
<1>4. TypeOK'
  BY <1>1, <1>3 DEF TypeOK, summaryVars, fsmVars, walkVars
<1>5. ExecutorTyped' /\ ArbRightPuppet' /\ LookaheadFits'
  BY <1>1, <1>3 DEF ExecutorTyped, ArbRightPuppet, LookaheadFits, execVars
<1> QED BY <1>4, <1>5

LEMMA TicksType == \A t : CheckTicks(t) \subseteq 0..OpTicks /\ OpTicks \in 0..OpTicks
                                                            /\ 0 \in 0..OpTicks
BY PuppetmasterAssumption DEF CheckTicks

LEMMA CheckType ==
  ASSUME HType, drainLookahead \/ CheckResult, UNCHANGED <<execVars, next, age>>
  PROVE  HType'
<1> USE DEF HType
<1>1. CASE drainLookahead
  <2>1. /\ lookaheadBuffer # <<>> /\ mainBusy' \in 0..OpTicks /\ fsm' = "check"
        /\ UNCHANGED <<state, inputQ, lookaheadVars, main, shadow, shadowBusy, shadowQ,
                       schedQ, workDoneQ, puppetTxns, isCompat, lookaheadFailCount,
                       walkVars, execVars, next, age>>
    BY <1>1, TicksType DEF drainLookahead
  <2> QED BY <2>1 DEF TypeOK, ExecutorTyped, ArbRightPuppet, LookaheadFits, execVars,
                      lookaheadVars, walkVars
<1>2. CASE CheckResult
  <2>1. /\ fsm = "check" /\ fsm' = "act" /\ isCompat' \in BOOLEAN
        /\ UNCHANGED <<state, inputQ, lookaheadVars, summaryVars, shadowQ,
                       schedQ, workDoneQ, puppetTxns, lookaheadFailCount,
                       walkVars, execVars, next, age>>
    BY <1>2 DEF CheckResult, Compatible
  <2> QED BY <2>1 DEF TypeOK, ExecutorTyped, ArbRightPuppet, LookaheadFits, execVars,
                      lookaheadVars, summaryVars, walkVars
<1> QED BY <1>1, <1>2

\* Either outcome of a check takes the transaction out of the buffer.
LEMMA ScheduleType ==
  ASSUME HType, NEW p \in Puppets, Schedule(p), UNCHANGED <<execVars, next, age>>
  PROVE  HType'
<1> USE DEF HType
<1>x. PICK x : x = Head(lookaheadBuffer)
  OBVIOUS
<1>1. /\ lookaheadBuffer \in Seq(Txns) /\ lookaheadBuffer # <<>>
      /\ Len(shadowQ) < ShadowQSize
      /\ lookaheadBuffer' = Tail(lookaheadBuffer)
      /\ main' = main \cup {x} /\ mainBusy' = OpTicks
      /\ shadowQ' = Append(shadowQ, x)
      /\ schedQ' = Append(schedQ, [txnId |-> x, puppetId |-> p])
      /\ puppetTxns' = [puppetTxns EXCEPT ![p] = Append(@, x)]
      /\ lookaheadFailCount' = 0 /\ fsm' = "idle"
      /\ UNCHANGED <<state, inputQ, lookaheadReinsert, shadow, shadowBusy, workDoneQ,
                     isCompat, walkVars, execVars, next, age>>
  BY <1>x DEF Schedule, ScheduleWith, TypeOK
<1>2. /\ x \in Txns /\ lookaheadBuffer' \in Seq(Txns) /\ Len(lookaheadBuffer) \in Nat
      /\ Len(lookaheadBuffer') = Len(lookaheadBuffer) - 1
  BY <1>x, <1>1, HeadTail
<1>3. shadowQ' \in Seq(Txns) /\ Len(shadowQ') <= ShadowQSize
  <2>1. shadowQ' \in Seq(Txns) /\ Len(shadowQ) \in Nat
        /\ Len(shadowQ') = Len(shadowQ) + 1
    BY <1>1, <1>2, Appended DEF TypeOK
  <2> QED BY <1>1, <2>1 DEF ShadowQSize
<1>4. schedQ' \in Seq(Message)
  <2>1. [txnId |-> x, puppetId |-> p] \in Message
    BY <1>2 DEF Message
  <2> QED BY <1>1, <2>1, Appended DEF TypeOK
<1>5. puppetTxns' \in [Puppets -> Seq(Txns)]
  <2>1. Append(puppetTxns[p], x) \in Seq(Txns)
    BY <1>2, Appended DEF TypeOK
  <2> QED BY <1>1, <2>1 DEF TypeOK
<1>6. main' \subseteq Txns /\ mainBusy' \in 0..OpTicks
      /\ lookaheadFailCount' \in 0..(FailCountSize - 1)
  BY <1>1, <1>2, TicksType, PuppetmasterAssumption DEF TypeOK
<1>7. TypeOK'
  BY <1>1, <1>2, <1>3, <1>4, <1>5, <1>6 DEF TypeOK, walkVars
<1>8. LookaheadFits'
  <2>1. Len(lookaheadReinsert) \in Nat /\ lookaheadReinsert' = lookaheadReinsert
    BY <1>1, LenProperties DEF TypeOK
  <2> QED BY <1>2, <2>1, PuppetmasterAssumption DEF LookaheadFits
<1>9. ExecutorTyped' /\ ArbRightPuppet'
  BY <1>1 DEF ExecutorTyped, ArbRightPuppet, execVars
<1> QED BY <1>7, <1>8, <1>9

LEMMA ReinsertType ==
  ASSUME HType, Reinsert, UNCHANGED <<execVars, next, age>>
  PROVE  HType'
<1> USE DEF HType
<1>x. PICK x : x = Head(lookaheadBuffer)
  OBVIOUS
<1>1. /\ lookaheadBuffer \in Seq(Txns) /\ lookaheadBuffer # <<>>
      /\ lookaheadReinsert' = Append(lookaheadReinsert, x)
      /\ lookaheadBuffer' = Tail(lookaheadBuffer)
      /\ lookaheadFailCount' = Failed /\ fsm' = "idle"
      /\ UNCHANGED <<state, inputQ, summaryVars, shadowQ, schedQ, workDoneQ,
                     puppetTxns, isCompat, walkVars, execVars, next, age>>
  BY <1>x DEF Reinsert, TypeOK
<1>2. /\ x \in Txns /\ lookaheadBuffer' \in Seq(Txns) /\ Len(lookaheadBuffer) \in Nat
      /\ Len(lookaheadBuffer') = Len(lookaheadBuffer) - 1
  BY <1>x, <1>1, HeadTail
<1>3. /\ lookaheadReinsert' \in Seq(Txns) /\ Len(lookaheadReinsert) \in Nat
      /\ Len(lookaheadReinsert') = Len(lookaheadReinsert) + 1
  BY <1>1, <1>2, Appended DEF TypeOK
<1>4. lookaheadFailCount' \in 0..(FailCountSize - 1)
  <2>1. lookaheadFailCount + 1 \in Nat /\ FailCountSize \in Nat \ {0}
    BY PuppetmasterAssumption DEF TypeOK
  <2> QED BY <1>1, <2>1 DEF Failed
<1>5. TypeOK'
  BY <1>1, <1>2, <1>3, <1>4 DEF TypeOK, walkVars, summaryVars
<1>6. LookaheadFits'
  BY <1>2, <1>3, PuppetmasterAssumption DEF LookaheadFits
<1>7. ExecutorTyped' /\ ArbRightPuppet'
  BY <1>1 DEF ExecutorTyped, ArbRightPuppet, execVars
<1> QED BY <1>5, <1>6, <1>7

\* recordedActiveTxnSize is never written, so the walk never finds an entry.
LEMMA NeverValid == TypeOK => ~ EntryValid
<1> SUFFICES ASSUME TypeOK, EntryValid PROVE FALSE
  OBVIOUS
<1>1. shadowEntryIndex < recordedActiveTxnSize[shadowPuppetIndex]
  BY DEF EntryValid
<1>2. recordedActiveTxnSize[shadowPuppetIndex] = 0
  BY DEF recordedActiveTxnSize, TypeOK
<1>3. shadowEntryIndex \in Nat
  BY PuppetmasterAssumption DEF TypeOK
<1> QED BY <1>1, <1>2, <1>3

\* A summary becomes free and nothing else happens, as far as types go.
LEMMA SummaryType ==
  ASSUME HType, shadowUpdateNew \/ shadowUpdateExisting \/ switchDone \/ Tick,
         UNCHANGED <<execVars, next, age>>
  PROVE  HType'
<1> USE DEF HType
<1>1. UNCHANGED <<inputQ, lookaheadVars, main, schedQ, workDoneQ, puppetTxns, fsmVars,
                  execVars, next, age>>
  BY DEF shadowUpdateNew, shadowUpdateExisting, switchDone, Tick, summaryVars
<1>2. ExecutorTyped' /\ ArbRightPuppet' /\ LookaheadFits'
  BY <1>1 DEF ExecutorTyped, ArbRightPuppet, LookaheadFits, execVars, lookaheadVars
<1>3. /\ state' \in {"Normal", "Switching"}
      /\ shadow' \subseteq Txns
      /\ mainBusy' \in 0..OpTicks /\ shadowBusy' \in 0..OpTicks
      /\ shadowQ' \in Seq(Txns) /\ Len(shadowQ') <= ShadowQSize
      /\ shadowPuppetIndex' \in Puppets /\ shadowEntryIndex' \in 0..ActivePerPuppet
      /\ shadowComplete' \in BOOLEAN
  <2>1. CASE shadowUpdateNew
    <3>1. /\ shadowQ # <<>> /\ shadowQ \in Seq(Txns)
          /\ shadow' = shadow \cup {Head(shadowQ)} /\ shadowBusy' = OpTicks
          /\ shadowQ' = Tail(shadowQ)
          /\ UNCHANGED <<state, mainBusy, walkVars>>
      BY <2>1 DEF shadowUpdateNew, shadowUpdateNewReady, TypeOK
    <3>2. /\ Head(shadowQ) \in Txns /\ shadowQ' \in Seq(Txns) /\ Len(shadowQ) \in Nat
          /\ Len(shadowQ') = Len(shadowQ) - 1
      BY <3>1, HeadTail
    <3>3. Len(shadowQ') <= ShadowQSize
      BY <3>2 DEF TypeOK, ShadowQSize
    <3> QED BY <3>1, <3>2, <3>3, TicksType DEF TypeOK, walkVars
  <2>2. CASE shadowUpdateExisting
    <3>1. ~ EntryValid
      BY NeverValid
    <3>2. /\ shadow' = shadow /\ shadowBusy' = shadowBusy
          /\ shadowEntryIndex' = 0
          /\ shadowPuppetIndex' = IF shadowPuppetIndex < NumPuppets - 1
                                  THEN shadowPuppetIndex + 1 ELSE 0
          /\ shadowComplete' \in BOOLEAN
          /\ UNCHANGED <<state, mainBusy, shadowQ>>
      BY <2>2, <3>1 DEF shadowUpdateExisting
    <3>3. shadowPuppetIndex' \in Puppets /\ 0 \in 0..ActivePerPuppet
      BY <3>2, PuppetmasterAssumption DEF TypeOK, Puppets
    <3> QED BY <3>2, <3>3 DEF TypeOK
  <2>3. CASE switchDone
    <3>1. 0 \in Puppets /\ 0 \in 0..ActivePerPuppet
      BY PuppetmasterAssumption DEF Puppets
    <3> QED BY <2>3, <3>1 DEF switchDone, TypeOK, summaryVars
  <2>4. CASE Tick
    <3>1. mainBusy' \in 0..OpTicks /\ shadowBusy' \in 0..OpTicks
      BY <2>4, PuppetmasterAssumption DEF Tick, TypeOK
    <3> QED BY <2>4, <3>1 DEF Tick, TypeOK, walkVars
  <2> QED BY <2>1, <2>2, <2>3, <2>4
<1>4. TypeOK'
  BY <1>1, <1>3 DEF TypeOK, lookaheadVars, fsmVars
<1> QED BY <1>2, <1>4

LEMMA RefreshType == HType /\ Refresh => HType'
<1> SUFFICES ASSUME HType, Refresh PROVE HType'
  OBVIOUS
<1> USE DEF HType
<1>1. /\ main' = shadow /\ shadow' = {}
      /\ mainBusy' = OpTicks /\ shadowBusy' = OpTicks
      /\ lookaheadFailCount' = 0 /\ state' = "Switching"
      /\ UNCHANGED <<inputQ, lookaheadVars, shadowQ, schedQ, workDoneQ, puppetTxns,
                     fsm, isCompat, walkVars, execVars, next>>
  BY DEF Refresh, startRefresh
<1>2. age' \in [Txns -> 0..2]
  <2>1. \A t \in Txns : IF t \in Active /\ age[t] < 2 THEN age[t] + 1 \in 0..2
                                                      ELSE age[t] \in 0..2
    BY DEF TypeOK
  <2> QED BY <2>1 DEF Refresh
<1>3. mainBusy' \in 0..OpTicks /\ shadowBusy' \in 0..OpTicks
      /\ lookaheadFailCount' \in 0..(FailCountSize - 1)
  BY <1>1, TicksType, PuppetmasterAssumption
<1>4. TypeOK'
  BY <1>1, <1>2, <1>3 DEF TypeOK, lookaheadVars, walkVars
<1>5. ExecutorTyped' /\ ArbRightPuppet' /\ LookaheadFits'
  BY <1>1 DEF ExecutorTyped, ArbRightPuppet, LookaheadFits, execVars, lookaheadVars
<1> QED BY <1>4, <1>5

LEMMA ClearType ==
  ASSUME HType, clearWorkDone, UNCHANGED <<execVars, next, age>>
  PROVE  HType'
<1> USE DEF HType
<1>p. PICK p : p = Head(workDoneQ).puppetId
  OBVIOUS
<1>1. /\ workDoneQ # <<>> /\ workDoneQ \in Seq(Message)
      /\ puppetTxns[p] # <<>>
      /\ puppetTxns' = [puppetTxns EXCEPT ![p] = Tail(@)]
      /\ workDoneQ' = Tail(workDoneQ)
      /\ UNCHANGED <<state, inputQ, lookaheadVars, summaryVars, shadowQ, schedQ,
                     fsmVars, walkVars, execVars, next, age>>
  BY <1>p DEF clearWorkDone, Cleared, TypeOK
<1>2. Head(workDoneQ) \in Message /\ workDoneQ' \in Seq(Message)
  BY <1>1, HeadTail
<1>3. p \in Puppets
  BY <1>p, <1>2 DEF Message
<1>4. puppetTxns[p] \in Seq(Txns)
  BY <1>3 DEF TypeOK
<1>5. Tail(puppetTxns[p]) \in Seq(Txns)
  BY <1>1, <1>4, HeadTail
<1>6. puppetTxns' \in [Puppets -> Seq(Txns)]
  BY <1>1, <1>5 DEF TypeOK
<1>7. TypeOK'
  BY <1>1, <1>2, <1>6 DEF TypeOK, lookaheadVars, summaryVars, fsmVars, walkVars
<1>8. ExecutorTyped' /\ ArbRightPuppet' /\ LookaheadFits'
  BY <1>1 DEF ExecutorTyped, ArbRightPuppet, LookaheadFits, execVars, lookaheadVars
<1> QED BY <1>7, <1>8

LEMMA ConnectType == HType /\ (ConnectScheduled \/ ConnectWorkDone) => HType'
<1> SUFFICES ASSUME HType, ConnectScheduled \/ ConnectWorkDone PROVE HType'
  OBVIOUS
<1> USE DEF HType
<1>1. CASE ConnectScheduled
  <2>1. /\ schedQ # <<>> /\ schedQ \in Seq(Message)
        /\ schedQ' = Tail(schedQ) /\ schedFF' = <<Head(schedQ)>>
        /\ UNCHANGED <<state, inputQ, lookaheadVars, summaryVars, shadowQ, workDoneQ,
                 puppetTxns, fsmVars, walkVars, doneFF, puppetQ, working, donePuppet,
                 next, age>>
    BY <1>1 DEF ConnectScheduled, scheduled_get, Ex!request_put, TypeOK
  <2>2. Head(schedQ) \in Message /\ schedQ' \in Seq(Message)
    BY <2>1, HeadTail
  <2>3. schedFF' \in Seq(Message)
    BY <2>1, <2>2
  <2>4. TypeOK'
    BY <2>1, <2>2 DEF TypeOK, lookaheadVars, summaryVars, fsmVars, walkVars
  <2> QED BY <2>1, <2>3, <2>4
          DEF ExecutorTyped, ArbRightPuppet, LookaheadFits, lookaheadVars
<1>2. CASE ConnectWorkDone
  <2>1. /\ doneFF # <<>> /\ doneFF \in Seq(Message) /\ workDoneQ \in Seq(Message)
        /\ workDoneQ' = Append(workDoneQ, Head(doneFF)) /\ doneFF' = <<>>
        /\ UNCHANGED <<state, inputQ, lookaheadVars, summaryVars, shadowQ, schedQ,
                 puppetTxns, fsmVars, walkVars, schedFF, puppetQ, working, donePuppet,
                 next, age>>
    BY <1>2 DEF ConnectWorkDone, workDone_put, Ex!response_get, TypeOK, ExecutorTyped
  <2>2. Head(doneFF) \in Message
    BY <2>1, HeadTail
  <2>3. workDoneQ' \in Seq(Message) /\ doneFF' \in Seq(Message)
    BY <2>1, <2>2, Appended
  <2>4. TypeOK'
    BY <2>1, <2>3 DEF TypeOK, lookaheadVars, summaryVars, fsmVars, walkVars
  <2> QED BY <2>1, <2>3, <2>4
          DEF ExecutorTyped, ArbRightPuppet, LookaheadFits, lookaheadVars
<1> QED BY <1>1, <1>2

LEMMA FanoutType ==
  ASSUME HType, Ex!fanout, UNCHANGED <<pmVars, next, age>>
  PROVE  HType'
<1> USE DEF HType
<1>m. PICK m : m = Head(schedFF)
  OBVIOUS
<1>1. /\ schedFF # <<>> /\ schedFF \in Seq(Message)
      /\ puppetQ' = [puppetQ EXCEPT ![m.puppetId] = Append(@, m.txnId)]
      /\ schedFF' = <<>> /\ UNCHANGED <<doneFF, working, donePuppet, pmVars, next, age>>
  BY <1>m DEF Ex!fanout, ExecutorTyped
<1>2. m \in Message
  BY <1>m, <1>1, HeadTail
<1>3. m.puppetId \in Puppets /\ m.txnId \in Txns
  BY <1>2 DEF Message
<1>4. puppetQ' \in [Puppets -> Seq(Txns)] /\ schedFF' \in Seq(Message)
  <2>1. Append(puppetQ[m.puppetId], m.txnId) \in Seq(Txns)
    BY <1>3, Appended DEF ExecutorTyped
  <2>2. puppetQ' \in [Puppets -> Seq(Txns)]
    BY <1>1, <2>1 DEF ExecutorTyped
  <2>3. <<>> \in Seq(Message)
    OBVIOUS
  <2> QED BY <1>1, <2>2, <2>3
<1>5. TypeOK' /\ LookaheadFits'
  BY <1>1 DEF TypeOK, LookaheadFits, pmVars, lookaheadVars, summaryVars, fsmVars, walkVars
<1>6. ExecutorTyped' /\ ArbRightPuppet'
  BY <1>1, <1>4 DEF ExecutorTyped, ArbRightPuppet
<1> QED BY <1>5, <1>6

\* The puppet that is reported, if any, and those that start their work.
Reports == donePuppet # Ex!NoPuppet /\ doneFF = <<>>
Reporter == IF Reports THEN donePuppet ELSE Ex!NoPuppet

LEMMA CycleType ==
  ASSUME HType, Ex!executorCycle, UNCHANGED <<pmVars, next, age>>
  PROVE  HType'
<1> USE DEF HType
<1>1. PICK start \in SUBSET {p \in Ex!Puppets : puppetQ[p] # <<>>} :
        /\ doneFF' = IF Reports THEN <<[txnId |-> working[Reporter],
                                        puppetId |-> Reporter]>>
                                ELSE doneFF
        /\ working' = Ex!Worked(Reporter, start)
        /\ puppetQ' = [p \in Ex!Puppets |-> IF p \in start THEN Tail(puppetQ[p])
                                                           ELSE puppetQ[p]]
        /\ donePuppet' \in {Ex!NoPuppet} \cup Ex!Done(Reporter, start)
        /\ UNCHANGED schedFF
  BY DEF Ex!executorCycle, Reports, Reporter
<1>2. Ex!Puppets = Puppets /\ Ex!NoPuppet \notin Puppets
  BY DEF Ex!Puppets, Puppets, Ex!NoPuppet
<1>3. \A p \in start : p \in Puppets /\ puppetQ[p] # <<>> /\ puppetQ[p] \in Seq(Txns)
  BY <1>1, <1>2 DEF ExecutorTyped
<1>4. \A p \in start : Head(puppetQ[p]) \in Txns /\ Tail(puppetQ[p]) \in Seq(Txns)
  BY <1>3, HeadTail
<1>5. working' = [p \in Puppets |-> IF p \in start THEN Head(puppetQ[p])
                                    ELSE IF p = Reporter THEN Ex!NoTxn ELSE working[p]]
  BY <1>1, <1>2 DEF Ex!Worked
<1>6. working' \in [Puppets -> Txns \cup {Ex!NoTxn}]
  BY <1>4, <1>5 DEF ExecutorTyped
<1>7. puppetQ' \in [Puppets -> Seq(Txns)]
  BY <1>1, <1>2, <1>4 DEF ExecutorTyped
<1>8. Ex!Done(Reporter, start) = {p \in Puppets : working'[p] # Ex!NoTxn}
  BY <1>1, <1>2 DEF Ex!Done
<1>9. donePuppet' \in Puppets \cup {Ex!NoPuppet} /\ ArbRightPuppet'
  BY <1>1, <1>8 DEF ArbRightPuppet
<1>10. doneFF' \in Seq(Message)
  <2>1. CASE Reports
    <3>1. Reporter \in Puppets /\ working[Reporter] \in Txns
      BY <2>1 DEF Reports, Reporter, ExecutorTyped, ArbRightPuppet
    <3>2. [txnId |-> working[Reporter], puppetId |-> Reporter] \in Message
      BY <3>1 DEF Message
    <3> QED BY <1>1, <2>1, <3>2
  <2>2. CASE ~ Reports
    BY <1>1, <2>2 DEF ExecutorTyped
  <2> QED BY <2>1, <2>2
<1>11. TypeOK' /\ LookaheadFits'
  BY DEF TypeOK, LookaheadFits, pmVars, lookaheadVars, summaryVars, fsmVars, walkVars
<1>12. ExecutorTyped'
  BY <1>1, <1>6, <1>7, <1>9, <1>10 DEF ExecutorTyped
<1> QED BY <1>9, <1>11, <1>12

LEMMA InitType == Init => HType
<1> SUFFICES ASSUME Init PROVE HType
  OBVIOUS
<1>1. TypeOK
  <2>1. 0 \in Puppets /\ 0 \in 0..ActivePerPuppet /\ 0 \in 0..(FailCountSize - 1)
        /\ InputBufferSize >= 0 /\ next \in 1..(NumTxns + 1)
    BY PuppetmasterAssumption, TransactionsAssumption DEF Puppets, Init
  <2> QED BY <2>1, TicksType DEF Init, PmInit, TypeOK, ShadowQSize
<1>2. ExecutorTyped /\ ArbRightPuppet
  BY DEF Init, Ex!ExecInit, ExecutorTyped, ArbRightPuppet, Ex!Puppets, Puppets
<1>3. LookaheadFits
  BY PuppetmasterAssumption DEF Init, PmInit, LookaheadFits
<1> QED BY <1>1, <1>2, <1>3 DEF HType

LEMMA NextType == HType /\ [Next]_vars => HType'
<1> SUFFICES ASSUME HType, [Next]_vars PROVE HType'
  OBVIOUS
<1>1. CASE Puppetmaster
  BY <1>1, DrainInputType, CheckType, ScheduleType, ReinsertType, SummaryType, ClearType
     DEF Puppetmaster, PmRule, LookaheadRule, SummaryRule
<1>2. CASE Executor
  BY <1>2, FanoutType, CycleType DEF Executor
<1>3. CASE UNCHANGED vars
  BY <1>3 DEF vars, HType, TypeOK, ExecutorTyped, ArbRightPuppet, LookaheadFits, pmVars,
              execVars, lookaheadVars, summaryVars, fsmVars, walkVars
<1> QED BY <1>1, <1>2, <1>3, SubmitType, RefreshType, ConnectType DEF Next

\* Types, the arbiter's grant and the room in the lookahead, together
\* inductive.
THEOREM HTypeInvariant == Spec => []HType
BY InitType, NextType, PTL DEF Spec

\* Every variable of the hardware model has its type.
THEOREM TypeInvariant == Spec => []TypeOK
BY HTypeInvariant, PTL DEF HType

\* A transaction found incompatible can always be put back.
THEOREM LookaheadNeverFull == Spec => []LookaheadFits
BY HTypeInvariant, PTL DEF HType

\* The registered grant of the executor's arbiter is never stale.
THEOREM ArbiterIsRight == Spec => []ArbRightPuppet
BY HTypeInvariant, PTL DEF HType

-----------------------------------------------------------------------------
(* The summaries.  What is in the shadow summary, or on its way to it, is  *)
(* in the main one.                                                        *)

\* A transaction's addition to the shadow summary begins when its addition to
\* the main one does, so both are over when the main summary is free again.
SummaryTiming ==
  /\ shadowBusy <= mainBusy
  /\ shadowQ # <<>> => Len(shadowQ) = 1 /\ shadowBusy = 0 /\ mainBusy = OpTicks

ShadowInMain == shadow \cup RangeOf(shadowQ) \subseteq main

SInv == SummaryTiming /\ ShadowInMain /\ StillCompatible

\* Whatever needs the main summary free finds nothing in shadowQ.
LEMMA FreeIsDrained ==
  ASSUME HType, SInv, MainFree
  PROVE  mainBusy = 0 /\ shadowBusy = 0 /\ shadowQ = <<>> /\ RangeOf(shadowQ) = {}
<1>1. mainBusy = 0 /\ mainBusy # OpTicks /\ shadowBusy \in Nat
  BY PuppetmasterAssumption DEF MainFree, HType, TypeOK
<1>2. shadowBusy = 0 /\ shadowQ = <<>>
  BY <1>1 DEF SInv, SummaryTiming
<1> QED BY <1>1, <1>2 DEF RangeOf

\* The steps that leave the summaries, and the transaction looked at, alone.
LEMMA SummaryKept ==
  ASSUME HType, SInv,
         UNCHANGED <<summaryVars, shadowQ, fsm, isCompat>>,
         fsm = "act" => Head(lookaheadBuffer') = Head(lookaheadBuffer)
  PROVE  SInv'
<1>1. SummaryTiming' /\ ShadowInMain'
  BY DEF SInv, SummaryTiming, ShadowInMain, summaryVars
<1>2. StillCompatible'
  BY DEF SInv, StillCompatible, summaryVars, Compatible
<1> QED BY <1>1, <1>2 DEF SInv

LEMMA LookaheadSummary ==
  ASSUME HType, SInv, drainLookahead \/ CheckResult \/ Reinsert
  PROVE  SInv'
<1>1. CASE drainLookahead
  <2>1. /\ MainFree /\ mainBusy' \in 0..OpTicks /\ fsm' = "check"
        /\ UNCHANGED <<main, shadow, shadowBusy, shadowQ>>
    BY <1>1, TicksType DEF drainLookahead
  <2>2. SummaryTiming'
    BY <2>1, FreeIsDrained DEF SummaryTiming
  <2> QED BY <2>1, <2>2 DEF SInv, ShadowInMain, StillCompatible
<1>2. CASE CheckResult
  <2>1. /\ isCompat' = Compatible(Head(lookaheadBuffer), main)
        /\ UNCHANGED <<main, shadow, mainBusy, shadowBusy, shadowQ, lookaheadBuffer>>
    BY <1>2 DEF CheckResult, summaryVars, lookaheadVars
  <2>2. StillCompatible'
    BY <2>1 DEF StillCompatible, Compatible
  <2> QED BY <2>1, <2>2 DEF SInv, SummaryTiming, ShadowInMain
<1>3. CASE Reinsert
  <2>1. fsm' = "idle" /\ UNCHANGED <<main, shadow, mainBusy, shadowBusy, shadowQ>>
    BY <1>3 DEF Reinsert, summaryVars
  <2> QED BY <2>1 DEF SInv, SummaryTiming, ShadowInMain, StillCompatible
<1> QED BY <1>1, <1>2, <1>3

LEMMA ScheduleSummary ==
  ASSUME HType, SInv, NEW p \in Puppets, Schedule(p)
  PROVE  SInv'
<1>x. PICK x : x = Head(lookaheadBuffer)
  OBVIOUS
<1>1. /\ lookaheadBuffer \in Seq(Txns) /\ lookaheadBuffer # <<>> /\ MainFree
      /\ main' = main \cup {x} /\ mainBusy' = OpTicks
      /\ shadowQ' = Append(shadowQ, x) /\ fsm' = "idle"
      /\ UNCHANGED <<shadow, shadowBusy>>
  BY <1>x DEF Schedule, ScheduleWith, HType, TypeOK
<1>2. x \in Txns
  BY <1>x, <1>1, HeadTail
<1>3. shadowBusy = 0 /\ shadowQ = <<>>
  BY <1>1, FreeIsDrained
<1>4. Len(shadowQ') = 1 /\ RangeOf(shadowQ') = {x}
  BY <1>1, <1>3 DEF RangeOf
<1>5. SummaryTiming'
  BY <1>1, <1>3, <1>4, PuppetmasterAssumption DEF SummaryTiming
<1>6. ShadowInMain'
  BY <1>1, <1>4 DEF ShadowInMain, SInv
<1>7. StillCompatible'
  BY <1>1 DEF StillCompatible
<1> QED BY <1>5, <1>6, <1>7 DEF SInv

LEMMA UpdateSummary ==
  ASSUME HType, SInv, shadowUpdateNew \/ shadowUpdateExisting \/ switchDone \/ Tick
  PROVE  SInv'
<1>1. CASE shadowUpdateNew
  <2>1. /\ shadowQ # <<>> /\ shadowQ \in Seq(Txns)
        /\ shadow' = shadow \cup {Head(shadowQ)} /\ shadowBusy' = OpTicks
        /\ shadowQ' = Tail(shadowQ)
        /\ UNCHANGED <<main, mainBusy, fsm, isCompat, lookaheadBuffer>>
    BY <1>1 DEF shadowUpdateNew, shadowUpdateNewReady, HType, TypeOK, fsmVars,
                lookaheadVars
  <2>2. /\ RangeOf(shadowQ) = {Head(shadowQ)} \cup RangeOf(shadowQ')
        /\ shadowQ' \in Seq(Txns) /\ Len(shadowQ') = Len(shadowQ) - 1
    BY <2>1, HeadTail
  <2>3. mainBusy = OpTicks /\ Len(shadowQ) = 1
    BY <2>1 DEF SInv, SummaryTiming
  <2>4. shadowQ' = <<>>
    BY <2>2, <2>3, EmptySeq
  <2>5. SummaryTiming'
    BY <2>1, <2>3, <2>4, PuppetmasterAssumption DEF SummaryTiming
  <2>6. ShadowInMain'
    BY <2>1, <2>2 DEF ShadowInMain, SInv
  <2>7. StillCompatible'
    BY <2>1 DEF StillCompatible, SInv, Compatible
  <2> QED BY <2>5, <2>6, <2>7 DEF SInv
<1>2. CASE shadowUpdateExisting
  <2>1. UNCHANGED <<summaryVars, shadowQ, fsm, isCompat, lookaheadBuffer>>
    BY <1>2, NeverValid DEF shadowUpdateExisting, HType, fsmVars, lookaheadVars,
                            summaryVars
  <2> QED BY <2>1, SummaryKept
<1>3. CASE switchDone
  <2>1. UNCHANGED <<summaryVars, shadowQ, fsm, isCompat, lookaheadBuffer>>
    BY <1>3 DEF switchDone, fsmVars, lookaheadVars
  <2> QED BY <2>1, SummaryKept
<1>4. CASE Tick
  <2>1. /\ mainBusy + shadowBusy > 0 /\ ~ shadowUpdateNewReady
        /\ mainBusy' = IF mainBusy = 0 THEN 0 ELSE mainBusy - 1
        /\ shadowBusy' = IF shadowBusy = 0 THEN 0 ELSE shadowBusy - 1
        /\ UNCHANGED <<main, shadow, shadowQ, fsm, isCompat, lookaheadBuffer>>
    BY <1>4 DEF Tick, fsmVars, lookaheadVars
  <2>2. shadowQ = <<>>
    <3> SUFFICES ASSUME shadowQ # <<>> PROVE FALSE
      OBVIOUS
    <3>1. shadowBusy = 0 /\ mainBusy = OpTicks
      BY DEF SInv, SummaryTiming
    <3>2. ~ startRefreshReady
      BY <3>1, PuppetmasterAssumption DEF startRefreshReady, MainFree
    <3> QED BY <2>1, <3>1, <3>2 DEF shadowUpdateNewReady, ShadowFree
  <2>3. shadowBusy' <= mainBusy'
    <3>1. mainBusy \in Nat /\ shadowBusy \in Nat /\ shadowBusy <= mainBusy
      BY PuppetmasterAssumption DEF SInv, SummaryTiming, HType, TypeOK
    <3> QED BY <2>1, <3>1
  <2>4. SummaryTiming'
    BY <2>1, <2>2, <2>3 DEF SummaryTiming
  <2>5. ShadowInMain' /\ StillCompatible'
    BY <2>1 DEF ShadowInMain, StillCompatible, SInv, Compatible
  <2> QED BY <2>4, <2>5 DEF SInv
<1> QED BY <1>1, <1>2, <1>3, <1>4

\* The refresh replaces the main summary by a smaller one.
LEMMA RefreshSummary ==
  ASSUME HType, SInv, startRefresh
  PROVE  SInv'
<1>1. /\ MainFree /\ main' = shadow /\ shadow' = {}
      /\ mainBusy' = OpTicks /\ shadowBusy' = OpTicks
      /\ UNCHANGED <<shadowQ, fsm, isCompat, lookaheadBuffer>>
  BY DEF startRefresh, startRefreshReady, lookaheadVars
<1>2. shadowQ = <<>> /\ RangeOf(shadowQ) = {}
  BY <1>1, FreeIsDrained
<1>3. SummaryTiming'
  BY <1>1, <1>2, PuppetmasterAssumption DEF SummaryTiming
<1>4. ShadowInMain'
  BY <1>1, <1>2 DEF ShadowInMain, RangeOf
<1>5. StillCompatible'
  BY <1>1 DEF StillCompatible, SInv, ShadowInMain, Compatible
<1> QED BY <1>3, <1>4, <1>5 DEF SInv

LEMMA InitSummary == Init => SInv
<1> SUFFICES ASSUME Init PROVE SInv
  OBVIOUS
<1>1. shadowQ = <<>> /\ shadow = {} /\ main = {} /\ mainBusy = OpTicks
      /\ shadowBusy = OpTicks /\ fsm = "idle"
  BY DEF Init, PmInit
<1>2. RangeOf(shadowQ) = {}
  BY <1>1 DEF RangeOf
<1> QED BY <1>1, <1>2, PuppetmasterAssumption
        DEF SInv, SummaryTiming, ShadowInMain, StillCompatible

LEMMA NextSummary == HType /\ SInv /\ [Next]_vars => SInv'
<1> SUFFICES ASSUME HType, SInv, [Next]_vars PROVE SInv'
  OBVIOUS
<1>1. CASE drainInput
  <2>1. /\ UNCHANGED <<summaryVars, shadowQ, fsm, isCompat>>
        /\ \E x : lookaheadBuffer' = Append(lookaheadBuffer, x) /\ x \in Txns
    <3>1. /\ lookaheadReinsert # <<>> => Head(lookaheadReinsert) \in Txns
          /\ inputQ # <<>> => Head(inputQ) \in Txns
      BY HeadTail DEF HType, TypeOK
    <3> QED BY <1>1, <3>1 DEF drainInput, FromReinsert, fsmVars
  <2>2. fsm = "act" => lookaheadBuffer # <<>> /\ lookaheadBuffer \in Seq(Txns)
    BY DEF HType, TypeOK
  <2>3. fsm = "act" => Head(lookaheadBuffer') = Head(lookaheadBuffer)
    BY <2>1, <2>2, Appended
  <2> QED BY <2>1, <2>3, SummaryKept
<1>2. CASE Submit \/ clearWorkDone \/ ConnectScheduled \/ ConnectWorkDone \/ Executor
           \/ UNCHANGED vars
  <2>1. UNCHANGED <<summaryVars, shadowQ, fsm, isCompat, lookaheadBuffer>>
    BY <1>2 DEF Submit, transactions_put, clearWorkDone, ConnectScheduled, scheduled_get,
                ConnectWorkDone, workDone_put, Executor, vars, pmVars, fsmVars,
                lookaheadVars
  <2> QED BY <2>1, SummaryKept
<1>3. CASE Puppetmaster
  BY <1>1, <1>2, <1>3, LookaheadSummary, ScheduleSummary, UpdateSummary
     DEF Puppetmaster, PmRule, LookaheadRule, SummaryRule
<1>4. CASE Refresh
  BY <1>4, RefreshSummary DEF Refresh
<1> QED BY <1>2, <1>3, <1>4 DEF Next

\* What is in the shadow summary, or on its way to it, is in the main one, and
\* an answer that is not acted on yet still holds.
THEOREM SummaryInvariant == Spec => []SInv
<1>1. HType /\ SInv /\ [Next]_vars => (HType /\ SInv)'
  BY NextType, NextSummary
<1>2. Init => HType /\ SInv
  BY InitType, InitSummary
<1> QED BY <1>1, <1>2, PTL DEF Spec

\* A transaction found compatible still is when it is scheduled, whatever
\* refresh has begun since.
THEOREM AnswerStaysRight == Spec => []StillCompatible
BY SummaryInvariant, PTL DEF SInv

-----------------------------------------------------------------------------
(* Each transaction is in one place.                                       *)

Distinct(s) == \A i, j \in 1..Len(s) : s[i] = s[j] => i = j

Waiting == RangeOf(inputQ) \cup RangeOf(lookaheadReinsert) \cup RangeOf(lookaheadBuffer)

WaitingOnce ==
  /\ Distinct(inputQ) /\ Distinct(lookaheadReinsert) /\ Distinct(lookaheadBuffer)
  /\ RangeOf(inputQ) \cap RangeOf(lookaheadReinsert) = {}
  /\ RangeOf(inputQ) \cap RangeOf(lookaheadBuffer) = {}
  /\ RangeOf(lookaheadReinsert) \cap RangeOf(lookaheadBuffer) = {}

ActiveOnce ==
  /\ \A p \in Puppets : Distinct(puppetTxns[p])
  /\ \A p, q \in Puppets :
       p # q => RangeOf(puppetTxns[p]) \cap RangeOf(puppetTxns[q]) = {}

PInv ==
  /\ WaitingOnce /\ ActiveOnce
  /\ Waiting \cap Active = {}
  /\ \A t \in Waiting \cup Active : t < next

LEMMA DistinctTail ==
  ASSUME NEW S, NEW s \in Seq(S), s # <<>>, Distinct(s)
  PROVE  /\ Distinct(Tail(s)) /\ Head(s) \notin RangeOf(Tail(s))
         /\ RangeOf(Tail(s)) = RangeOf(s) \ {Head(s)} /\ Head(s) \in RangeOf(s)
<1>1. /\ Len(s) \in Nat \ {0} /\ Len(Tail(s)) = Len(s) - 1 /\ Head(s) = s[1]
      /\ \A i \in 1..Len(Tail(s)) : Tail(s)[i] = s[i + 1] /\ i + 1 \in 1..Len(s)
      /\ 1 \in 1..Len(s)
  BY HeadTailProperties, EmptySeq, LenProperties
<1>2. ASSUME NEW i \in 1..Len(Tail(s)), NEW j \in 1..Len(Tail(s)),
             Tail(s)[i] = Tail(s)[j]
      PROVE  i = j
  <2>1. i + 1 = j + 1
    BY <1>1, <1>2 DEF Distinct
  <2> QED BY <2>1
<1>3. ASSUME NEW i \in 1..Len(Tail(s)), Tail(s)[i] = Head(s) PROVE FALSE
  <2>1. i + 1 = 1
    BY <1>1, <1>3 DEF Distinct
  <2> QED BY <2>1
<1>4. Distinct(Tail(s)) /\ Head(s) \notin RangeOf(Tail(s))
  BY <1>2, <1>3 DEF Distinct, RangeOf
<1>5. RangeOf(s) = {Head(s)} \cup RangeOf(Tail(s))
  BY HeadTail
<1> QED BY <1>4, <1>5

LEMMA DistinctAppend ==
  ASSUME NEW S, NEW s \in Seq(S), NEW e \in S, Distinct(s), e \notin RangeOf(s)
  PROVE  Distinct(Append(s, e))
<1>1. /\ Len(s) \in Nat /\ Len(Append(s, e)) = Len(s) + 1
      /\ \A i \in 1..Len(s) : Append(s, e)[i] = s[i]
      /\ Append(s, e)[Len(s) + 1] = e
  BY AppendProperties, LenProperties
<1>2. \A i \in 1..Len(s) : s[i] # e
  BY DEF RangeOf
<1> QED BY <1>1, <1>2 DEF Distinct

LEMMA DistinctConcat ==
  ASSUME NEW S, NEW s \in Seq(S), NEW t \in Seq(S), Distinct(s), Distinct(t),
         RangeOf(s) \cap RangeOf(t) = {}
  PROVE  /\ s \o t \in Seq(S) /\ Distinct(s \o t)
         /\ RangeOf(s \o t) = RangeOf(s) \cup RangeOf(t)
<1>1. /\ s \o t \in Seq(S)
      /\ Len(s \o t) = Len(s) + Len(t) /\ Len(s) \in Nat /\ Len(t) \in Nat
      /\ \A i \in 1..(Len(s) + Len(t)) :
           (s \o t)[i] = IF i <= Len(s) THEN s[i] ELSE t[i - Len(s)]
  BY ConcatProperties, LenProperties
<1>2. \A i \in 1..Len(s) : i \in 1..Len(s \o t) /\ (s \o t)[i] = s[i]
  BY <1>1
<1>3. \A i \in 1..Len(t) : Len(s) + i \in 1..Len(s \o t)
                            /\ (s \o t)[Len(s) + i] = t[i]
  BY <1>1
<1>4. \A i \in 1..Len(s \o t) : i \in 1..Len(s) \/ (i - Len(s) \in 1..Len(t)
                                      /\ (s \o t)[i] = t[i - Len(s)])
  BY <1>1
<1>5. RangeOf(s \o t) = RangeOf(s) \cup RangeOf(t)
  <2>1. RangeOf(s) \cup RangeOf(t) \subseteq RangeOf(s \o t)
    BY <1>2, <1>3 DEF RangeOf
  <2>2. RangeOf(s \o t) \subseteq RangeOf(s) \cup RangeOf(t)
    BY <1>2, <1>4 DEF RangeOf
  <2> QED BY <2>1, <2>2
<1>6. \A i \in 1..Len(s), j \in 1..Len(t) : s[i] # t[j]
  BY DEF RangeOf
<1>7. ASSUME NEW i \in 1..Len(s \o t), NEW j \in 1..Len(s \o t),
             (s \o t)[i] = (s \o t)[j]
      PROVE  i = j
  <2>1. CASE i \in 1..Len(s) /\ j \in 1..Len(s)
    BY <1>2, <1>7, <2>1 DEF Distinct
  <2>2. CASE i \notin 1..Len(s) /\ j \notin 1..Len(s)
    <3>1. i - Len(s) = j - Len(s)
      BY <1>4, <1>7, <2>2 DEF Distinct
    <3> QED BY <1>1, <3>1
  <2>3. ~ (i \in 1..Len(s) /\ j \notin 1..Len(s))
    BY <1>2, <1>4, <1>6, <1>7
  <2>4. ~ (i \notin 1..Len(s) /\ j \in 1..Len(s))
    BY <1>2, <1>4, <1>6, <1>7
  <2> QED BY <2>1, <2>2, <2>3, <2>4
<1> QED BY <1>1, <1>5, <1>7 DEF Distinct

\* The head of one queue moves to the end of another.
LEMMA MoveHead ==
  ASSUME NEW S, NEW s \in Seq(S), NEW t \in Seq(S), s # <<>>, Distinct(s), Distinct(t),
         Head(s) \notin RangeOf(t)
  PROVE  /\ Head(s) \in S /\ Head(s) \in RangeOf(s)
         /\ Distinct(Tail(s)) /\ Distinct(Append(t, Head(s)))
         /\ RangeOf(Tail(s)) = RangeOf(s) \ {Head(s)}
         /\ RangeOf(Append(t, Head(s))) = RangeOf(t) \cup {Head(s)}
<1>1. /\ Distinct(Tail(s)) /\ Head(s) \notin RangeOf(Tail(s))
      /\ RangeOf(Tail(s)) = RangeOf(s) \ {Head(s)} /\ Head(s) \in RangeOf(s)
  BY DistinctTail
<1>x. PICK x \in S : x = Head(s)
  BY HeadTail
<1>2. Distinct(Append(t, x)) /\ RangeOf(Append(t, x)) = RangeOf(t) \cup {x}
  BY <1>x, DistinctAppend, Appended
<1> QED BY <1>1, <1>x, <1>2

LEMMA ActiveIs ==
  \A t : t \in Active <=> \E p \in Puppets : t \in RangeOf(puppetTxns[p])
BY DEF Active, RangeOf

LEMMA PlacesType == HType => Waiting \subseteq Txns /\ Active \subseteq Txns
<1> SUFFICES ASSUME HType PROVE Waiting \subseteq Txns /\ Active \subseteq Txns
  OBVIOUS
<1>1. ASSUME NEW s \in Seq(Txns) PROVE RangeOf(s) \subseteq Txns
  BY ElementOfSeq DEF RangeOf
<1>2. Waiting \subseteq Txns
  BY <1>1 DEF HType, TypeOK, Waiting
<1>3. \A p \in Puppets : RangeOf(puppetTxns[p]) \subseteq Txns
  BY <1>1 DEF HType, TypeOK
<1>4. Active \subseteq Txns
  BY <1>3, ActiveIs
<1> QED BY <1>2, <1>4

LEMMA PlacesKept ==
  ASSUME UNCHANGED <<inputQ, lookaheadReinsert, lookaheadBuffer, puppetTxns>>
  PROVE  /\ Waiting' = Waiting /\ Active' = Active
         /\ WaitingOnce => WaitingOnce'
         /\ ActiveOnce => ActiveOnce'
BY DEF Waiting, Active, WaitingOnce, ActiveOnce

\* A transaction moves within the lookahead.
LEMMA MoveKeeps ==
  ASSUME PInv, WaitingOnce', Waiting' = Waiting, UNCHANGED <<puppetTxns, next>>
  PROVE  PInv' /\ Active' = Active
<1>1. Active' = Active
  BY DEF Active
<1>2. ActiveOnce'
  BY DEF PInv, ActiveOnce
<1> QED BY <1>1, <1>2 DEF PInv

LEMMA SubmitPlace ==
  ASSUME HType, PInv, Submit
  PROVE  PInv' /\ Waiting' = Waiting \cup {next} /\ Active' = Active
<1>1. /\ next \in Txns /\ inputQ \in Seq(Txns)
      /\ next' = next + 1 /\ inputQ' = Append(inputQ, next)
      /\ UNCHANGED <<lookaheadReinsert, lookaheadBuffer, puppetTxns>>
  BY DEF Submit, transactions_put, HType, TypeOK, lookaheadVars
<1>2. next \notin Waiting \cup Active /\ next \in Nat
  BY <1>1 DEF PInv, Txns
<1>3. Distinct(inputQ') /\ RangeOf(inputQ') = RangeOf(inputQ) \cup {next}
  BY <1>1, <1>2, DistinctAppend, Appended DEF PInv, WaitingOnce, Waiting
<1>4. Waiting' = Waiting \cup {next} /\ Active' = Active
  BY <1>1, <1>3 DEF Waiting, Active
<1>5. WaitingOnce'
  BY <1>1, <1>2, <1>3 DEF PInv, WaitingOnce, Waiting
<1>6. ActiveOnce'
  BY <1>1 DEF PInv, ActiveOnce
<1>7. \A t \in Waiting' \cup Active' : t < next'
  <2>1. \A t \in Waiting \cup Active : t \in Nat
    <3>1. \A t \in Waiting \cup Active : t \in Txns
      BY PlacesType
    <3> QED BY <3>1 DEF Txns
  <2> QED BY <1>1, <1>2, <1>4, <2>1 DEF PInv
<1> QED BY <1>2, <1>4, <1>5, <1>6, <1>7 DEF PInv

LEMMA DrainPlace ==
  ASSUME HType, PInv, drainInput, next' = next
  PROVE  PInv' /\ Waiting' = Waiting /\ Active' = Active
<1>1. /\ inputQ \in Seq(Txns) /\ lookaheadReinsert \in Seq(Txns)
      /\ lookaheadBuffer \in Seq(Txns) /\ WaitingOnce
      /\ UNCHANGED puppetTxns
  BY DEF drainInput, HType, TypeOK, PInv
<1>2. CASE /\ lookaheadReinsert # <<>>
           /\ lookaheadBuffer' = Append(lookaheadBuffer, Head(lookaheadReinsert))
           /\ lookaheadReinsert' = Tail(lookaheadReinsert) /\ UNCHANGED inputQ
  <2>x. PICK x : x = Head(lookaheadReinsert)
    OBVIOUS
  <2>0. x \in RangeOf(lookaheadReinsert)
    BY <1>1, <1>2, <2>x, HeadTail
  <2>1. /\ x \in Txns /\ x \in RangeOf(lookaheadReinsert)
        /\ Distinct(lookaheadReinsert') /\ Distinct(lookaheadBuffer')
        /\ RangeOf(lookaheadReinsert') = RangeOf(lookaheadReinsert) \ {x}
        /\ RangeOf(lookaheadBuffer') = RangeOf(lookaheadBuffer) \cup {x}
    BY <1>1, <1>2, <2>x, <2>0, MoveHead DEF WaitingOnce
  <2>2. WaitingOnce' /\ Waiting' = Waiting
    BY <1>1, <1>2, <2>1 DEF WaitingOnce, Waiting
  <2> QED BY <1>1, <2>2, MoveKeeps
<1>3. CASE /\ inputQ # <<>>
           /\ lookaheadBuffer' = Append(lookaheadBuffer, Head(inputQ))
           /\ inputQ' = Tail(inputQ) /\ UNCHANGED lookaheadReinsert
  <2>x. PICK x : x = Head(inputQ)
    OBVIOUS
  <2>0. x \in RangeOf(inputQ)
    BY <1>1, <1>3, <2>x, HeadTail
  <2>1. /\ x \in Txns /\ x \in RangeOf(inputQ)
        /\ Distinct(inputQ') /\ Distinct(lookaheadBuffer')
        /\ RangeOf(inputQ') = RangeOf(inputQ) \ {x}
        /\ RangeOf(lookaheadBuffer') = RangeOf(lookaheadBuffer) \cup {x}
    BY <1>1, <1>3, <2>x, <2>0, MoveHead DEF WaitingOnce
  <2>2. WaitingOnce' /\ Waiting' = Waiting
    BY <1>1, <1>3, <2>1 DEF WaitingOnce, Waiting
  <2> QED BY <1>1, <2>2, MoveKeeps
<1> QED BY <1>2, <1>3 DEF drainInput, FromReinsert

LEMMA ReinsertPlace ==
  ASSUME HType, PInv, Reinsert, next' = next
  PROVE  PInv' /\ Waiting' = Waiting /\ Active' = Active
<1>1. /\ lookaheadReinsert \in Seq(Txns) /\ lookaheadBuffer \in Seq(Txns)
      /\ lookaheadBuffer # <<>> /\ WaitingOnce
      /\ lookaheadReinsert' = Append(lookaheadReinsert, Head(lookaheadBuffer))
      /\ lookaheadBuffer' = Tail(lookaheadBuffer)
      /\ UNCHANGED <<inputQ, puppetTxns>>
  BY DEF Reinsert, HType, TypeOK, PInv
<1>x. PICK x : x = Head(lookaheadBuffer)
  OBVIOUS
<1>2. x \in RangeOf(lookaheadBuffer)
  BY <1>1, <1>x, HeadTail
<1>3. /\ x \in Txns
      /\ Distinct(lookaheadReinsert') /\ Distinct(lookaheadBuffer')
      /\ RangeOf(lookaheadReinsert') = RangeOf(lookaheadReinsert) \cup {x}
      /\ RangeOf(lookaheadBuffer') = RangeOf(lookaheadBuffer) \ {x}
  BY <1>1, <1>x, <1>2, MoveHead DEF WaitingOnce
<1>4. WaitingOnce' /\ Waiting' = Waiting
  BY <1>1, <1>2, <1>3 DEF WaitingOnce, Waiting
<1> QED BY <1>1, <1>4, MoveKeeps

LEMMA SchedulePlace ==
  ASSUME HType, PInv, NEW p \in Puppets, Schedule(p), next' = next
  PROVE  /\ PInv' /\ Head(lookaheadBuffer) \in Waiting
         /\ Waiting' = Waiting \ {Head(lookaheadBuffer)}
         /\ Active' = Active \cup {Head(lookaheadBuffer)}
<1>x. PICK x : x = Head(lookaheadBuffer)
  OBVIOUS
<1>1. /\ lookaheadBuffer \in Seq(Txns) /\ lookaheadBuffer # <<>>
      /\ puppetTxns[p] \in Seq(Txns) /\ puppetTxns \in [Puppets -> Seq(Txns)]
      /\ WaitingOnce /\ ActiveOnce
      /\ lookaheadBuffer' = Tail(lookaheadBuffer)
      /\ puppetTxns' = [puppetTxns EXCEPT ![p] = Append(@, x)]
      /\ UNCHANGED <<inputQ, lookaheadReinsert>>
  BY <1>x DEF Schedule, ScheduleWith, HType, TypeOK, PInv
<1>2. x \in RangeOf(lookaheadBuffer) /\ x \in Waiting /\ x \notin Active
  <2>1. x \in RangeOf(lookaheadBuffer)
    BY <1>1, <1>x, HeadTail
  <2> QED BY <2>1 DEF Waiting, PInv
<1>3. \A q \in Puppets : x \notin RangeOf(puppetTxns[q])
  BY <1>2, ActiveIs
<1>4. /\ puppetTxns'[p] = Append(puppetTxns[p], x)
      /\ \A q \in Puppets : q # p => puppetTxns'[q] = puppetTxns[q]
  BY <1>1
<1>5. /\ Distinct(lookaheadBuffer') /\ Distinct(puppetTxns'[p])
      /\ RangeOf(lookaheadBuffer') = RangeOf(lookaheadBuffer) \ {x}
      /\ RangeOf(puppetTxns'[p]) = RangeOf(puppetTxns[p]) \cup {x}
  BY <1>1, <1>x, <1>3, <1>4, MoveHead DEF WaitingOnce, ActiveOnce
<1>6. WaitingOnce' /\ Waiting' = Waiting \ {x}
  BY <1>1, <1>2, <1>5 DEF WaitingOnce, Waiting
<1>7. ActiveOnce'
  <2>1. \A q \in Puppets : Distinct(puppetTxns'[q])
    BY <1>1, <1>4, <1>5 DEF ActiveOnce
  <2>2. \A q, r \in Puppets :
          q # r => RangeOf(puppetTxns'[q]) \cap RangeOf(puppetTxns'[r]) = {}
    BY <1>1, <1>3, <1>4, <1>5 DEF ActiveOnce
  <2> QED BY <2>1, <2>2 DEF ActiveOnce
<1>8. Active' = Active \cup {x}
  <2>1. \A t : t \in Active' <=> \E q \in Puppets : t \in RangeOf(puppetTxns'[q])
    BY DEF Active, RangeOf
  <2>2. \A t : t \in Active' <=> t \in Active \/ t = x
    BY <1>4, <1>5, <2>1, ActiveIs
  <2> QED BY <2>2
<1>9. PInv'
  BY <1>2, <1>6, <1>7, <1>8 DEF PInv
<1> QED BY <1>x, <1>2, <1>6, <1>8, <1>9

LEMMA ClearPlace ==
  ASSUME HType, PInv, clearWorkDone, next' = next
  PROVE  PInv' /\ Waiting' = Waiting /\ Active' \subseteq Active
<1>p. PICK p : p = Head(workDoneQ).puppetId
  OBVIOUS
<1>1. /\ workDoneQ # <<>> /\ workDoneQ \in Seq(Message)
      /\ puppetTxns[p] # <<>> /\ puppetTxns \in [Puppets -> Seq(Txns)]
      /\ puppetTxns' = [puppetTxns EXCEPT ![p] = Tail(@)]
      /\ UNCHANGED <<inputQ, lookaheadReinsert, lookaheadBuffer>>
  BY <1>p DEF clearWorkDone, Cleared, HType, TypeOK, lookaheadVars
<1>2. p \in Puppets
  <2>1. Head(workDoneQ) \in Message
    BY <1>1, HeadTail
  <2> QED BY <1>p, <2>1 DEF Message
<1>3. /\ puppetTxns'[p] = Tail(puppetTxns[p])
      /\ \A q \in Puppets : q # p => puppetTxns'[q] = puppetTxns[q]
      /\ puppetTxns[p] \in Seq(Txns)
  BY <1>1, <1>2
<1>4. Distinct(puppetTxns'[p]) /\ RangeOf(puppetTxns'[p]) \subseteq RangeOf(puppetTxns[p])
  BY <1>1, <1>2, <1>3, DistinctTail DEF PInv, ActiveOnce
<1>5. \A q \in Puppets : RangeOf(puppetTxns'[q]) \subseteq RangeOf(puppetTxns[q])
  BY <1>3, <1>4
<1>6. ActiveOnce'
  <2>1. \A q \in Puppets : Distinct(puppetTxns'[q])
    BY <1>3, <1>4 DEF PInv, ActiveOnce
  <2>2. \A q, r \in Puppets :
          q # r => RangeOf(puppetTxns'[q]) \cap RangeOf(puppetTxns'[r]) = {}
    BY <1>5 DEF PInv, ActiveOnce
  <2> QED BY <2>1, <2>2 DEF ActiveOnce
<1>7. Active' \subseteq Active
  <2>1. \A t : t \in Active' <=> \E q \in Puppets : t \in RangeOf(puppetTxns'[q])
    BY DEF Active, RangeOf
  <2> QED BY <1>5, <2>1, ActiveIs
<1>8. Waiting' = Waiting /\ WaitingOnce'
  BY <1>1 DEF Waiting, WaitingOnce, PInv
<1> QED BY <1>6, <1>7, <1>8 DEF PInv

\* The other steps of Puppetmaster.
OtherRule == drainLookahead \/ CheckResult \/ SummaryRule

LEMMA OtherPlace ==
  ASSUME OtherRule \/ startRefresh \/ scheduled_get \/ (\E m : workDone_put(m))
         \/ UNCHANGED pmVars
  PROVE  UNCHANGED <<inputQ, lookaheadReinsert, lookaheadBuffer, puppetTxns>>
BY DEF OtherRule, drainLookahead, CheckResult, SummaryRule, shadowUpdateNew,
       shadowUpdateExisting, switchDone, Tick, startRefresh, scheduled_get,
       workDone_put, pmVars, lookaheadVars

LEMMA NextPlace == HType /\ PInv /\ [Next]_vars => PInv'
<1> SUFFICES ASSUME HType, PInv, [Next]_vars PROVE PInv'
  OBVIOUS
<1>1. CASE /\ UNCHANGED <<inputQ, lookaheadReinsert, lookaheadBuffer, puppetTxns>>
           /\ next' = next
  BY <1>1, PlacesKept DEF PInv
<1>2. CASE Puppetmaster
  <2>1. next' = next
    BY <1>2 DEF Puppetmaster
  <2>2. CASE OtherRule
    BY <1>1, <2>1, <2>2, OtherPlace
  <2>3. CASE drainInput
    BY <2>1, <2>3, DrainPlace
  <2>4. CASE Reinsert
    BY <2>1, <2>4, ReinsertPlace
  <2>5. CASE clearWorkDone
    BY <2>1, <2>5, ClearPlace
  <2>6. ASSUME NEW p \in Puppets, Schedule(p) PROVE PInv'
    BY <2>1, <2>6, SchedulePlace
  <2> QED BY <1>2, <2>2, <2>3, <2>4, <2>5, <2>6
          DEF Puppetmaster, PmRule, LookaheadRule, OtherRule
<1>3. CASE Refresh \/ Executor \/ ConnectScheduled \/ ConnectWorkDone \/ UNCHANGED vars
  BY <1>1, <1>3, OtherPlace DEF Refresh, Executor, ConnectScheduled, ConnectWorkDone, vars
<1>4. CASE Submit
  BY <1>4, SubmitPlace
<1> QED BY <1>2, <1>3, <1>4 DEF Next

LEMMA InitPlace == Init => PInv
<1> SUFFICES ASSUME Init PROVE PInv
  OBVIOUS
<1>1. /\ inputQ = <<>> /\ lookaheadReinsert = <<>> /\ lookaheadBuffer = <<>>
      /\ \A p \in Puppets : puppetTxns[p] = <<>>
  BY DEF Init, PmInit
<1>2. Waiting = {} /\ Active = {}
  BY <1>1, ActiveIs DEF Waiting, RangeOf
<1>3. WaitingOnce /\ ActiveOnce
  BY <1>1 DEF WaitingOnce, ActiveOnce, Distinct, RangeOf
<1> QED BY <1>2, <1>3 DEF PInv

\* A transaction waits in one place, or is on one puppet's list, once.
THEOREM PlaceInvariant == Spec => []PInv
<1>1. HType /\ PInv /\ [Next]_vars => (HType /\ PInv)'
  BY NextType, NextPlace
<1>2. Init => HType /\ PInv
  BY InitType, InitPlace
<1> QED BY <1>1, <1>2, PTL DEF Spec

\* A sequence without repetition has as many elements as places.
LEMMA DistinctCardinality ==
  ASSUME NEW S, NEW s \in Seq(S), Distinct(s)
  PROVE  IsFiniteSet(RangeOf(s)) /\ Cardinality(RangeOf(s)) = Len(s)
<1>1. Len(s) \in Nat /\ s \in [1..Len(s) -> S]
  BY LenProperties
<1>2. IsFiniteSet(1..Len(s)) /\ Cardinality(1..Len(s)) = Len(s)
  <2>1. 1 \in Int /\ Len(s) \in Int
    BY <1>1
  <2>2. IsFiniteSet(1..Len(s))
        /\ Cardinality(1..Len(s)) = IF 1 > Len(s) THEN 0 ELSE Len(s) - 1 + 1
    BY <2>1, FS_Interval
  <2> QED BY <1>1, <2>2
<1>3. s \in Bijection(1..Len(s), RangeOf(s))
  <2>1. s \in [1..Len(s) -> RangeOf(s)]
    BY <1>1 DEF RangeOf
  <2>2. \A i, j \in 1..Len(s) : s[i] = s[j] => i = j
    BY DEF Distinct
  <2>3. \A e \in RangeOf(s) : \E i \in 1..Len(s) : s[i] = e
    BY DEF RangeOf
  <2> QED BY <2>1, <2>2, <2>3 DEF Bijection, Injection, Surjection, IsInjective
<1>4. ExistsBijection(1..Len(s), RangeOf(s))
  BY <1>3 DEF ExistsBijection
<1> QED BY <1>2, <1>4, FS_Bijection

\* A transaction is in one place and is not scheduled twice.
THEOREM NoneIsTwice == Spec => []NoneTwice
<1>1. HType /\ PInv => NoneTwice
  <2> SUFFICES ASSUME HType, PInv PROVE NoneTwice
    OBVIOUS
  <2>1. /\ inputQ \in Seq(Txns) /\ lookaheadReinsert \in Seq(Txns)
        /\ lookaheadBuffer \in Seq(Txns) /\ puppetTxns \in [Puppets -> Seq(Txns)]
    BY DEF HType, TypeOK
  <2> DEFINE a == inputQ \o lookaheadReinsert
  <2>2. /\ a \in Seq(Txns) /\ Distinct(a)
        /\ RangeOf(a) = RangeOf(inputQ) \cup RangeOf(lookaheadReinsert)
    BY <2>1, DistinctConcat DEF PInv, WaitingOnce
  <2>3. /\ Places \in Seq(Txns) /\ Distinct(Places)
        /\ RangeOf(Places) = Waiting
    <3> HIDE DEF a
    <3>1. RangeOf(a) \cap RangeOf(lookaheadBuffer) = {} /\ Distinct(lookaheadBuffer)
      BY <2>2 DEF PInv, WaitingOnce
    <3>2. /\ a \o lookaheadBuffer \in Seq(Txns) /\ Distinct(a \o lookaheadBuffer)
          /\ RangeOf(a \o lookaheadBuffer) = RangeOf(a) \cup RangeOf(lookaheadBuffer)
      BY <2>1, <2>2, <3>1, DistinctConcat
    <3> QED BY <2>2, <3>2 DEF Places, Waiting, a
  <2>4. Cardinality(RangeOf(Places)) = Len(Places)
    BY <2>3, DistinctCardinality
  <2>5. ASSUME NEW p \in Puppets, NEW q \in Puppets, NEW i \in 1..Len(puppetTxns[p]),
               NEW j \in 1..Len(puppetTxns[q]), puppetTxns[p][i] = puppetTxns[q][j]
        PROVE  p = q /\ i = j
    <3>1. puppetTxns[p][i] \in RangeOf(puppetTxns[p])
          /\ puppetTxns[q][j] \in RangeOf(puppetTxns[q])
      BY DEF RangeOf
    <3>2. p = q
      BY <2>5, <3>1 DEF PInv, ActiveOnce
    <3> QED BY <2>5, <3>2 DEF PInv, ActiveOnce, Distinct
  <2> QED BY <2>3, <2>4, <2>5 DEF NoneTwice, PInv
<1> QED BY <1>1, HTypeInvariant, PlaceInvariant, PTL

-----------------------------------------------------------------------------
(* How long a scheduled transaction is covered.                            *)

\* The first refresh finds a transaction in the shadow summary, the second in
\* the main one.
Ages ==
  /\ \A t \in Txns : t \in Waiting \/ t >= next => age[t] = 0
  /\ \A t \in Active : /\ age[t] = 0 => t \in shadow \cup RangeOf(shadowQ)
                       /\ age[t] = 1 => t \in main

\* Steps that add no active transaction and take none out of a summary.
LEMMA AgesKept ==
  ASSUME Ages, age' = age, Active' \subseteq Active,
         \A t \in Txns : t \in Waiting' \/ t >= next' => t \in Waiting \/ t >= next,
         main \subseteq main',
         shadow \cup RangeOf(shadowQ) \subseteq shadow' \cup RangeOf(shadowQ')
  PROVE  Ages'
BY DEF Ages

LEMMA ScheduleAges ==
  ASSUME HType, PInv, Ages, NEW p \in Puppets, Schedule(p), UNCHANGED <<next, age>>
  PROVE  Ages'
<1>x. PICK x : x = Head(lookaheadBuffer)
  OBVIOUS
<1>1. /\ lookaheadBuffer \in Seq(Txns) /\ lookaheadBuffer # <<>>
      /\ shadowQ \in Seq(Txns)
      /\ main' = main \cup {x} /\ shadowQ' = Append(shadowQ, x)
      /\ shadow' = shadow
  BY <1>x DEF Schedule, ScheduleWith, HType, TypeOK
<1>2. x \in Waiting /\ Waiting' = Waiting \ {x} /\ Active' = Active \cup {x}
  BY <1>x, SchedulePlace
<1>3. x \in Txns
  BY <1>2, PlacesType
<1>4. RangeOf(shadowQ') = RangeOf(shadowQ) \cup {x}
  BY <1>1, <1>3, Appended
<1>5. age'[x] = 0
  BY <1>2, <1>3 DEF Ages
<1> QED BY <1>1, <1>2, <1>4, <1>5 DEF Ages

LEMMA RefreshAges ==
  ASSUME HType, SInv, PInv, Ages, Refresh
  PROVE  Ages'
<1>1. /\ MainFree /\ main' = shadow /\ shadow' = {} /\ next' = next
      /\ UNCHANGED <<inputQ, lookaheadReinsert, lookaheadBuffer, puppetTxns>>
      /\ age' = [t \in Txns |-> IF t \in Active /\ age[t] < 2 THEN age[t] + 1
                                                              ELSE age[t]]
  BY DEF Refresh, startRefresh, startRefreshReady, lookaheadVars
<1>2. Waiting' = Waiting /\ Active' = Active
  BY <1>1, PlacesKept
<1>3. RangeOf(shadowQ) = {}
  BY <1>1, FreeIsDrained
<1>4. Waiting \subseteq Txns /\ Active \subseteq Txns /\ Txns \subseteq Nat
      /\ \A t \in Active : t < next
  BY PlacesType DEF PInv, Txns
<1>5. ASSUME NEW t \in Txns, t \in Waiting \/ t >= next PROVE age'[t] = 0
  <2>1. t \notin Active
    <3>1. t \in Nat /\ next \in Nat
      BY <1>4 DEF HType, TypeOK
    <3> QED BY <1>4, <1>5, <3>1 DEF PInv
  <2> QED BY <1>1, <1>5, <2>1 DEF Ages
<1>6. ASSUME NEW t \in Active PROVE age'[t] # 0 /\ (age'[t] = 1 => t \in main')
  <2>1. age[t] \in 0..2 /\ t \in Txns
    BY <1>4 DEF HType, TypeOK
  <2>2. age'[t] = IF age[t] < 2 THEN age[t] + 1 ELSE age[t]
    BY <1>1, <2>1
  <2>3. age'[t] = 1 => age[t] = 0
    BY <2>1, <2>2
  <2> QED BY <1>1, <1>3, <2>1, <2>2, <2>3 DEF Ages
<1> QED BY <1>1, <1>2, <1>5, <1>6 DEF Ages

LEMMA RuleAges ==
  ASSUME HType, PInv, Ages, Puppetmaster
  PROVE  Ages'
<1>. PmRule /\ next' = next /\ age' = age
  BY DEF Puppetmaster
<1>1. CASE drainInput \/ Reinsert \/ clearWorkDone
  <2>1. Waiting' = Waiting /\ Active' \subseteq Active
    BY <1>1, DrainPlace, ReinsertPlace, ClearPlace
  <2>2. UNCHANGED <<main, shadow, shadowQ>>
    BY <1>1 DEF drainInput, Reinsert, clearWorkDone, summaryVars
  <2> QED BY <2>1, <2>2, AgesKept
<1>2. CASE drainLookahead \/ CheckResult \/ switchDone \/ Tick
  <2>1. UNCHANGED <<inputQ, lookaheadReinsert, lookaheadBuffer, puppetTxns>>
    BY <1>2, OtherPlace DEF OtherRule, SummaryRule
  <2>2. UNCHANGED <<main, shadow, shadowQ>>
    BY <1>2 DEF drainLookahead, CheckResult, switchDone, Tick, summaryVars
  <2> QED BY <2>1, <2>2, AgesKept, PlacesKept
<1>3. CASE shadowUpdateExisting
  <2>1. UNCHANGED <<inputQ, lookaheadReinsert, lookaheadBuffer, puppetTxns>>
    BY <1>3, OtherPlace DEF OtherRule, SummaryRule
  <2>2. UNCHANGED <<main, shadow, shadowQ>>
    BY <1>3, NeverValid DEF shadowUpdateExisting, HType
  <2> QED BY <2>1, <2>2, AgesKept, PlacesKept
<1>4. CASE shadowUpdateNew
  <2>1. UNCHANGED <<inputQ, lookaheadReinsert, lookaheadBuffer, puppetTxns>>
    BY <1>4, OtherPlace DEF OtherRule, SummaryRule
  <2>2. /\ shadowQ # <<>> /\ shadowQ \in Seq(Txns) /\ main' = main
        /\ shadow' = shadow \cup {Head(shadowQ)} /\ shadowQ' = Tail(shadowQ)
    BY <1>4 DEF shadowUpdateNew, shadowUpdateNewReady, HType, TypeOK
  <2>3. RangeOf(shadowQ) = {Head(shadowQ)} \cup RangeOf(shadowQ')
    BY <2>2, HeadTail
  <2>4. shadow \cup RangeOf(shadowQ) \subseteq shadow' \cup RangeOf(shadowQ')
    BY <2>2, <2>3
  <2> QED BY <2>1, <2>2, <2>4, AgesKept, PlacesKept
<1> QED BY <1>1, <1>2, <1>3, <1>4, ScheduleAges
        DEF PmRule, LookaheadRule, SummaryRule

LEMMA NextAges == HType /\ SInv /\ PInv /\ Ages /\ [Next]_vars => Ages'
<1> SUFFICES ASSUME HType, SInv, PInv, Ages, [Next]_vars PROVE Ages'
  OBVIOUS
<1>1. CASE Submit
  <2>1. Waiting' = Waiting \cup {next} /\ Active' = Active
    BY <1>1, SubmitPlace
  <2>2. next' = next + 1 /\ next \in Txns
        /\ UNCHANGED <<age, main, shadow, shadowQ>>
    BY <1>1 DEF Submit, transactions_put, summaryVars
  <2>3. \A t \in Txns : t \in Waiting' \/ t >= next' => t \in Waiting \/ t >= next
    BY <2>1, <2>2 DEF Txns
  <2> QED BY <2>1, <2>2, <2>3, AgesKept
<1>2. CASE Executor \/ ConnectScheduled \/ ConnectWorkDone \/ UNCHANGED vars
  <2>1. UNCHANGED <<inputQ, lookaheadReinsert, lookaheadBuffer, puppetTxns>>
    BY <1>2, OtherPlace DEF Executor, ConnectScheduled, ConnectWorkDone, vars
  <2>2. UNCHANGED <<age, next, main, shadow, shadowQ>>
    BY <1>2 DEF Executor, ConnectScheduled, scheduled_get, ConnectWorkDone,
                workDone_put, vars, pmVars, summaryVars
  <2> QED BY <2>1, <2>2, AgesKept, PlacesKept
<1> QED BY <1>1, <1>2, RuleAges, RefreshAges DEF Next

LEMMA InitAges == Init => Ages
<1> SUFFICES ASSUME Init PROVE Ages
  OBVIOUS
<1>1. Active = {}
  BY ActiveIs DEF Init, PmInit, RangeOf
<1> QED BY <1>1 DEF Init, Ages

\* A scheduled transaction is in the main summary until the second refresh
\* after that.
THEOREM CoveredForARefresh == Spec => []CoveredUntilSecondRefresh
<1>1. HType /\ SInv /\ PInv /\ Ages /\ [Next]_vars => (HType /\ SInv /\ PInv /\ Ages)'
  BY NextType, NextSummary, NextPlace, NextAges
<1>2. Init => HType /\ SInv /\ PInv /\ Ages
  BY InitType, InitSummary, InitPlace, InitAges
<1>3. HType /\ SInv /\ Ages => CoveredUntilSecondRefresh
  <2> SUFFICES ASSUME HType, SInv, Ages, NEW t \in Active, age[t] < 2
               PROVE  t \in main
    BY DEF CoveredUntilSecondRefresh
  <2>1. age[t] \in 0..2
    BY PlacesType DEF HType, TypeOK
  <2>2. age[t] = 0 \/ age[t] = 1
    BY <2>1
  <2> QED BY <2>2 DEF Ages, SInv, ShadowInMain
<1> QED BY <1>1, <1>2, <1>3, PTL DEF Spec

-----------------------------------------------------------------------------
(* Induction over natural numbers, concatenation, and the transactions of  *)
(* one puppet in a queue of messages.                                      *)

\* The smaller of two natural numbers comes first.
Before == {x \in Nat \X Nat : x[1] < x[2]}

LEMMA Least ==
  ASSUME NEW T \in SUBSET Nat, T # {}
  PROVE  \E x \in T : \A y \in T : x <= y
<1>1. IsWellFoundedOn(Before, Nat)
  <2>1. OpToRel(<, Nat) = Before
    BY Zenon DEF OpToRel, Before
  <2> QED BY <2>1, NatLessThanWellFounded
<1>2. PICK x \in T : \A y \in T : <<y, x>> \notin Before
  BY <1>1, WFMin
<1>3. ASSUME NEW y \in T PROVE x <= y
  <2>1. ~ y < x
    BY <1>2, <1>3 DEF Before
  <2> QED BY <2>1
<1> QED BY <1>3

LEMMA Induction ==
  ASSUME NEW S, 0 \in S, \A n \in Nat : n \in S => n + 1 \in S
  PROVE  \A n \in Nat : n \in S
<1> SUFFICES ASSUME NEW m \in Nat, m \notin S PROVE FALSE
  OBVIOUS
<1> DEFINE T == {n \in Nat : n \notin S}
<1>1. PICK x \in T : \A y \in T : x <= y
  BY Least
<1>2. x # 0 /\ x - 1 \in Nat
  OBVIOUS
<1>3. x - 1 \notin T
  BY <1>1, <1>2
<1> QED BY <1>2, <1>3

\* Concatenation, as the proofs use it.
Cat(s, t) == s \o t

LEMMA CatProperties ==
  ASSUME NEW S
  PROVE  /\ \A s, t \in Seq(S) : Cat(s, t) \in Seq(S)
         /\ \A s, t, u \in Seq(S) : Cat(Cat(s, t), u) = Cat(s, Cat(t, u))
         /\ <<>> \in Seq(S)
         /\ \A s \in Seq(S) : Cat(s, <<>>) = s /\ Cat(<<>>, s) = s
<1>1. ASSUME NEW s \in Seq(S), NEW t \in Seq(S) PROVE Cat(s, t) \in Seq(S)
  BY ConcatProperties DEF Cat
<1>2. ASSUME NEW s \in Seq(S), NEW t \in Seq(S), NEW u \in Seq(S)
      PROVE  Cat(Cat(s, t), u) = Cat(s, Cat(t, u))
  BY ConcatAssociative DEF Cat
<1>3. ASSUME NEW s \in Seq(S) PROVE Cat(s, <<>>) = s /\ Cat(<<>>, s) = s
  BY ConcatEmptySeq DEF Cat
<1> QED BY <1>1, <1>2, <1>3

Six(a, b, c, d, e, f) == Cat(Cat(Cat(Cat(Cat(a, b), c), d), e), f)

LEMMA Prefixes ==
  ASSUME NEW S, NEW a \in Seq(S), NEW b \in Seq(S), NEW c \in Seq(S),
         NEW d \in Seq(S), NEW e \in Seq(S)
  PROVE  \E t2, t3, t4, t5 \in Seq(S) :
           /\ t2 = Cat(a, b) /\ t3 = Cat(t2, c) /\ t4 = Cat(t3, d) /\ t5 = Cat(t4, e)
           /\ \A x : Six(a, b, c, d, e, x) = Cat(t5, x)
BY CatProperties DEF Six

LEMMA SixType ==
  ASSUME NEW a \in Seq(Txns), NEW b \in Seq(Txns), NEW c \in Seq(Txns),
         NEW d \in Seq(Txns), NEW e \in Seq(Txns), NEW f \in Seq(Txns)
  PROVE  Six(a, b, c, d, e, f) \in Seq(Txns)
BY CatProperties DEF Six

\* The premises of the rules below under one name, so that a use of a rule
\* is a single instance.
Seqs(o, a, b, c, d, e, f) ==
  /\ o \in Seq(Txns) /\ a \in Seq(Txns) /\ b \in Seq(Txns) /\ c \in Seq(Txns)
  /\ d \in Seq(Txns) /\ e \in Seq(Txns) /\ f \in Seq(Txns)

\* What is put in front of the first part is put in front of the whole.
LEMMA SixFirst == \A o, a, b, c, d, e, f : Seqs(o, a, b, c, d, e, f) =>
  Six(Cat(o, a), b, c, d, e, f) = Cat(o, Six(a, b, c, d, e, f))
<1> TAKE o, a, b, c, d, e, f
<1> HAVE Seqs(o, a, b, c, d, e, f)
<1> USE DEF Seqs
<1>1. \A x, y \in Seq(Txns) : Cat(Cat(o, x), y) = Cat(o, Cat(x, y))
  BY CatProperties
<1>2. PICK t2, t3, t4, t5 \in Seq(Txns) :
           /\ t2 = Cat(a, b) /\ t3 = Cat(t2, c) /\ t4 = Cat(t3, d) /\ t5 = Cat(t4, e)
           /\ \A x : Six(a, b, c, d, e, x) = Cat(t5, x)
  BY Prefixes
<1>3. /\ Cat(Cat(o, a), b) = Cat(o, t2) /\ Cat(Cat(o, t2), c) = Cat(o, t3)
      /\ Cat(Cat(o, t3), d) = Cat(o, t4) /\ Cat(Cat(o, t4), e) = Cat(o, t5)
      /\ Cat(Cat(o, t5), f) = Cat(o, Cat(t5, f))
  BY <1>1, <1>2
<1> QED BY <1>2, <1>3 DEF Six

\* The second, third and fourth part may be cut anew.
LEMMA SixMiddle == \A a, b, c, d, e, f, b1, c1, d1 :
  Seqs(<<>>, a, b, c, d, e, f) /\ Seqs(<<>>, a, b1, c1, d1, e, f)
    /\ Cat(Cat(b1, c1), d1) = Cat(Cat(b, c), d) =>
  Six(a, b1, c1, d1, e, f) = Six(a, b, c, d, e, f)
<1> TAKE a, b, c, d, e, f, b1, c1, d1
<1> HAVE /\ Seqs(<<>>, a, b, c, d, e, f) /\ Seqs(<<>>, a, b1, c1, d1, e, f)
         /\ Cat(Cat(b1, c1), d1) = Cat(Cat(b, c), d)
<1>1. ASSUME NEW x \in Seq(Txns), NEW y \in Seq(Txns), NEW z \in Seq(Txns)
      PROVE  Cat(Cat(Cat(a, x), y), z) = Cat(a, Cat(Cat(x, y), z))
  BY CatProperties DEF Seqs
<1>2. /\ Cat(Cat(Cat(a, b), c), d) = Cat(a, Cat(Cat(b, c), d))
      /\ Cat(Cat(Cat(a, b1), c1), d1) = Cat(a, Cat(Cat(b1, c1), d1))
  BY <1>1 DEF Seqs
<1> QED BY <1>2 DEF Six

\* What is at the head of a part moves on to an empty place.
LEMMA SixSecond == \A o, a, b, c, d, e, f : Seqs(o, a, b, c, d, e, f) =>
  Six(Cat(a, o), <<>>, c, d, e, f) = Six(a, o, c, d, e, f)
BY CatProperties DEF Six, Seqs

LEMMA SixFifth == \A o, a, b, c, d, e, f : Seqs(o, a, b, c, d, e, f) =>
  Six(a, b, c, Cat(d, o), <<>>, f) = Six(a, b, c, d, o, f)
<1> TAKE o, a, b, c, d, e, f
<1> HAVE Seqs(o, a, b, c, d, e, f)
<1>p. PICK t2, t3, t4, t5 \in Seq(Txns) :
           /\ t2 = Cat(a, b) /\ t3 = Cat(t2, c) /\ t4 = Cat(t3, d) /\ t5 = Cat(t4, e)
           /\ \A x : Six(a, b, c, d, e, x) = Cat(t5, x)
  BY Prefixes DEF Seqs
<1>1. Cat(t3, Cat(d, o)) = Cat(Cat(t3, d), o) /\ Cat(Cat(t3, d), o) \in Seq(Txns)
  BY <1>p, CatProperties DEF Seqs
<1>2. Cat(Cat(t3, Cat(d, o)), <<>>) = Cat(Cat(t3, d), o)
  BY <1>1, CatProperties
<1> QED BY <1>p, <1>2 DEF Six

LEMMA SixSixth == \A o, a, b, c, d, e, f : Seqs(o, a, b, c, d, e, f) =>
  Six(a, b, c, d, <<>>, Cat(o, f)) = Six(a, b, c, d, o, f)
<1> TAKE o, a, b, c, d, e, f
<1> HAVE Seqs(o, a, b, c, d, e, f)
<1>p. PICK t2, t3, t4, t5 \in Seq(Txns) :
           /\ t2 = Cat(a, b) /\ t3 = Cat(t2, c) /\ t4 = Cat(t3, d) /\ t5 = Cat(t4, e)
           /\ \A x : Six(a, b, c, d, e, x) = Cat(t5, x)
  BY Prefixes DEF Seqs
<1>1. Cat(t4, <<>>) = t4 /\ Cat(t4, Cat(o, f)) = Cat(Cat(t4, o), f)
  BY <1>p, CatProperties DEF Seqs
<1> QED BY <1>p, <1>1 DEF Six

\* What is put behind the last part is put behind the whole.
LEMMA SixLast == \A o, a, b, c, d, e, f : Seqs(o, a, b, c, d, e, f) =>
  Six(a, b, c, d, e, Cat(f, o)) = Cat(Six(a, b, c, d, e, f), o)
<1> TAKE o, a, b, c, d, e, f
<1> HAVE Seqs(o, a, b, c, d, e, f)
<1>p. PICK t2, t3, t4, t5 \in Seq(Txns) :
           /\ t2 = Cat(a, b) /\ t3 = Cat(t2, c) /\ t4 = Cat(t3, d) /\ t5 = Cat(t4, e)
           /\ \A x : Six(a, b, c, d, e, x) = Cat(t5, x)
  BY Prefixes DEF Seqs
<1>1. Cat(t5, Cat(f, o)) = Cat(Cat(t5, f), o)
  BY <1>p, CatProperties DEF Seqs
<1> QED BY <1>p, <1>1

LEMMA TailOfCons ==
  ASSUME NEW S, NEW x \in S, NEW s \in Seq(S)
  PROVE  /\ Tail(Cat(<<x>>, s)) = s /\ Cat(<<x>>, s) # <<>>
         /\ Head(Cat(<<x>>, s)) = x
<1>1. <<x>> \in Seq(S) /\ Len(<<x>>) = 1 /\ <<x>>[1] = x
  OBVIOUS
<1>2. /\ <<x>> \o s \in Seq(S) /\ Len(s) \in Nat /\ Len(<<x>> \o s) = 1 + Len(s)
      /\ \A i \in 1..(1 + Len(s)) : (<<x>> \o s)[i] = IF i <= 1 THEN <<x>>[i] ELSE s[i - 1]
  BY <1>1, ConcatProperties, LenProperties
<1>t. PICK t : t = <<x>> \o s
  OBVIOUS
<1>3. /\ t \in Seq(S) /\ Len(t) = 1 + Len(s) /\ t[1] = x
      /\ \A i \in 1..Len(s) : t[i + 1] = s[i]
  <2>1. 1 \in 1..(1 + Len(s))
    BY <1>2
  <2>2. ASSUME NEW i \in 1..Len(s) PROVE t[i + 1] = s[i]
    <3>1. i + 1 \in 1..(1 + Len(s)) /\ ~ (i + 1 <= 1) /\ (i + 1) - 1 = i
      BY <1>2
    <3> QED BY <1>2, <1>t, <3>1
  <2> QED BY <1>1, <1>2, <1>t, <2>1, <2>2
<1>4. t # <<>>
  BY <1>2, <1>3, EmptySeq
<1>5. /\ Tail(t) \in Seq(S) /\ Len(Tail(t)) = Len(s)
      /\ \A i \in 1..Len(Tail(t)) : Tail(t)[i] = s[i]
  BY <1>2, <1>3, <1>4, HeadTailProperties
<1>6. Tail(t) = s
  BY <1>5, SeqEqual
<1>7. Head(t) = x
  BY <1>3, <1>4
<1> QED BY <1>4, <1>6, <1>7, <1>t DEF Cat

LEMMA HeadCons ==
  ASSUME NEW S, NEW s \in Seq(S), s # <<>>
  PROVE  Head(s) \in S /\ Tail(s) \in Seq(S) /\ s = Cat(<<Head(s)>>, Tail(s))
<1>1. /\ Head(s) \in S /\ Tail(s) \in Seq(S) /\ Len(s) \in Nat \ {0}
      /\ Len(Tail(s)) = Len(s) - 1 /\ Head(s) = s[1]
      /\ \A i \in 1..Len(Tail(s)) : Tail(s)[i] = s[i + 1]
  BY HeadTailProperties, EmptySeq, LenProperties
<1>h. PICK h : h = <<Head(s)>>
  OBVIOUS
<1>t. PICK t : t = Tail(s)
  OBVIOUS
<1>2. h \in Seq(S) /\ Len(h) = 1 /\ h[1] = s[1]
  BY <1>1, <1>h
<1>3. /\ h \o t \in Seq(S) /\ Len(h \o t) = Len(s)
      /\ \A i \in 1..Len(s) : (h \o t)[i] = IF i <= 1 THEN h[i] ELSE t[i - 1]
  <2>1. t \in Seq(S) /\ 1 + Len(t) = Len(s)
    BY <1>1, <1>t
  <2>2. /\ h \o t \in Seq(S) /\ Len(h \o t) = Len(h) + Len(t)
        /\ \A i \in 1..(Len(h) + Len(t)) :
             (h \o t)[i] = IF i <= Len(h) THEN h[i] ELSE t[i - Len(h)]
    <3>1. ASSUME NEW u \in Seq(S), NEW v \in Seq(S)
          PROVE  /\ u \o v \in Seq(S) /\ Len(u \o v) = Len(u) + Len(v)
                 /\ \A i \in 1..(Len(u) + Len(v)) :
                      (u \o v)[i] = IF i <= Len(u) THEN u[i] ELSE v[i - Len(u)]
      BY ConcatProperties
    <3> QED BY <1>2, <2>1, <3>1
  <2> QED BY <1>2, <2>1, <2>2
<1>4. ASSUME NEW i \in 1..Len(s) PROVE (h \o t)[i] = s[i]
  <2>1. CASE i = 1
    BY <1>2, <1>3, <2>1
  <2>2. CASE i # 1
    <3>1. i - 1 \in 1..Len(t) /\ (i - 1) + 1 = i /\ ~ (i <= 1)
      BY <1>1, <1>t, <2>2
    <3>2. t[i - 1] = s[i]
      BY <1>1, <1>t, <3>1
    <3> QED BY <1>3, <3>1, <3>2
  <2> QED BY <2>1, <2>2
<1>5. h \o t = s
  BY <1>3, <1>4, SeqEqual
<1> QED BY <1>1, <1>5, <1>h, <1>t DEF Cat

\* What a message contributes to the transactions of p.
One(m, p) == IF m.puppetId = p THEN <<m.txnId>> ELSE <<>>

\* f[i], up to n: the transactions of p among the first i messages of q.
Upto(f, q, p, n) ==
  f = [i \in 0..n |-> IF i = 0 THEN <<>>
                      ELSE IF q[i].puppetId = p THEN Append(f[i - 1], q[i].txnId)
                      ELSE f[i - 1]]

LEMMA OneType ==
  ASSUME NEW m \in Message, NEW p
  PROVE  One(m, p) \in Seq(Txns)
<1>1. m.txnId \in Txns
  BY DEF Message
<1> QED BY <1>1 DEF One

LEMMA UptoStep ==
  ASSUME NEW q \in Seq(Message), NEW p, NEW n \in 0..Len(q),
         NEW f \in [0..n -> Seq(Txns)], Upto(f, q, p, n)
  PROVE  /\ f[0] = <<>>
         /\ \A i \in 0..(n - 1) : f[i + 1] = f[i] \o One(q[i + 1], p)
<1>1. f[0] = <<>>
  BY DEF Upto
<1>2. ASSUME NEW i \in 0..(n - 1) PROVE f[i + 1] = f[i] \o One(q[i + 1], p)
  <2>1. i + 1 \in 0..n /\ i + 1 # 0 /\ (i + 1) - 1 = i /\ i \in 0..n
    OBVIOUS
  <2>2. f[i + 1] = IF q[i + 1].puppetId = p THEN Append(f[i], q[i + 1].txnId) ELSE f[i]
    BY <2>1 DEF Upto
  <2>3. f[i] \in Seq(Txns) /\ q[i + 1] \in Message
    BY <2>1, LenProperties, ElementOfSeq
  <2>4. q[i + 1].txnId \in Txns
    BY <2>3 DEF Message
  <2>5. Append(f[i], q[i + 1].txnId) = f[i] \o <<q[i + 1].txnId>>
    BY <2>3, <2>4, AppendIsConcat
  <2>6. f[i] \o <<>> = f[i]
    BY <2>3, ConcatEmptySeq
  <2> QED BY <2>2, <2>5, <2>6 DEF One
<1> QED BY <1>1, <1>2

LEMMA UptoExists ==
  ASSUME NEW q \in Seq(Message), NEW p
  PROVE  \A n \in 0..Len(q) : \E f \in [0..n -> Seq(Txns)] : Upto(f, q, p, n)
<1> DEFINE S == {n \in Nat : n <= Len(q) =>
                               \E f \in [0..n -> Seq(Txns)] : Upto(f, q, p, n)}
<1>1. 0 \in S
  <2>1. [i \in 0..0 |-> <<>>] \in [0..0 -> Seq(Txns)]
    OBVIOUS
  <2>2. Upto([i \in 0..0 |-> <<>>], q, p, 0)
    BY DEF Upto
  <2> QED BY <2>1, <2>2
<1>2. ASSUME NEW n \in Nat, n \in S PROVE n + 1 \in S
  <2> SUFFICES ASSUME n + 1 <= Len(q)
               PROVE  \E f \in [0..(n + 1) -> Seq(Txns)] : Upto(f, q, p, n + 1)
    OBVIOUS
  <2>1. PICK f \in [0..n -> Seq(Txns)] : Upto(f, q, p, n)
    BY <1>2, LenProperties
  <2>m. PICK m : m = q[n + 1]
    OBVIOUS
  <2>2. m \in Message
    BY <2>m, LenProperties, ElementOfSeq
  <2>3. m.txnId \in Txns /\ f[n] \in Seq(Txns)
    BY <2>2 DEF Message
  <2> DEFINE new == IF m.puppetId = p THEN Append(f[n], m.txnId) ELSE f[n]
             g == [i \in 0..(n + 1) |-> IF i = n + 1 THEN new ELSE f[i]]
  <2>4. new \in Seq(Txns)
    BY <2>3
  <2>5. g \in [0..(n + 1) -> Seq(Txns)]
    BY <2>4
  <2>6. \A i \in 0..n : g[i] = f[i]
    OBVIOUS
  <2>7. g[n + 1] = new
    OBVIOUS
  <2> HIDE DEF g
  <2>8. ASSUME NEW i \in 0..(n + 1)
        PROVE  g[i] = IF i = 0 THEN <<>>
                      ELSE IF q[i].puppetId = p THEN Append(g[i - 1], q[i].txnId)
                      ELSE g[i - 1]
    <3>1. CASE i = n + 1
      BY <2>6, <2>7, <2>m, <3>1
    <3>2. CASE i # n + 1
      <4>1. i \in 0..n /\ (i # 0 => i - 1 \in 0..n)
        BY <3>2
      <4>2. f[i] = IF i = 0 THEN <<>>
                   ELSE IF q[i].puppetId = p THEN Append(f[i - 1], q[i].txnId)
                   ELSE f[i - 1]
        BY <2>1, <4>1 DEF Upto
      <4> QED BY <2>6, <4>1, <4>2
    <3> QED BY <3>1, <3>2
  <2>9. Upto(g, q, p, n + 1)
    BY <2>5, <2>8 DEF Upto
  <2> QED BY <2>5, <2>9
<1> HIDE DEF S
<1>3. \A n \in Nat : n \in S
  BY <1>1, <1>2, Induction
<1> QED BY <1>3, LenProperties DEF S

LEMMA UptoUnique ==
  ASSUME NEW q, NEW p, NEW n \in Nat, NEW f, NEW g,
         Upto(f, q, p, n), Upto(g, q, p, n)
  PROVE  f = g
<1> DEFINE S == {i \in Nat : i <= n => f[i] = g[i]}
<1>1. 0 \in S
  BY DEF Upto
<1>2. ASSUME NEW i \in Nat, i \in S PROVE i + 1 \in S
  <2> SUFFICES ASSUME i + 1 <= n PROVE f[i + 1] = g[i + 1]
    OBVIOUS
  <2>1. i + 1 \in 0..n /\ i + 1 # 0 /\ (i + 1) - 1 = i /\ f[i] = g[i]
    BY <1>2
  <2>2. ASSUME NEW h, Upto(h, q, p, n)
        PROVE  h[i + 1] = IF q[i + 1].puppetId = p THEN Append(h[i], q[i + 1].txnId)
                                                   ELSE h[i]
    BY <2>1, <2>2 DEF Upto
  <2> QED BY <2>1, <2>2
<1> HIDE DEF S
<1>3. \A i \in 0..n : f[i] = g[i]
  <2>1. \A i \in Nat : i \in S
    BY <1>1, <1>2, Induction
  <2> QED BY <2>1 DEF S
<1>4. f = [i \in 0..n |-> f[i]] /\ g = [i \in 0..n |-> g[i]]
  BY DEF Upto
<1> QED BY <1>3, <1>4

LEMMA OfPuppetIs ==
  ASSUME NEW q \in Seq(Message), NEW p, NEW f, Upto(f, q, p, Len(q))
  PROVE  OfPuppet(q, p) = f[Len(q)]
<1>1. OfPuppet(q, p) = (CHOOSE g : Upto(g, q, p, Len(q)))[Len(q)]
  BY DEF OfPuppet, Upto
<1>2. Upto(CHOOSE g : Upto(g, q, p, Len(q)), q, p, Len(q))
  OBVIOUS
<1> QED BY <1>1, <1>2, UptoUnique, LenProperties

LEMMA Selected ==
  ASSUME NEW q \in Seq(Message), NEW p
  PROVE  \E f \in [0..Len(q) -> Seq(Txns)] :
           /\ OfPuppet(q, p) = f[Len(q)] /\ f[0] = <<>>
           /\ \A i \in 0..(Len(q) - 1) : f[i + 1] = f[i] \o One(q[i + 1], p)
           /\ Upto(f, q, p, Len(q))
<1>1. Len(q) \in Nat /\ Len(q) \in 0..Len(q)
  BY LenProperties
<1>2. PICK f \in [0..Len(q) -> Seq(Txns)] : Upto(f, q, p, Len(q))
  BY <1>1, UptoExists
<1>3. f[0] = <<>> /\ \A i \in 0..(Len(q) - 1) : f[i + 1] = f[i] \o One(q[i + 1], p)
  BY <1>1, <1>2, UptoStep
<1> QED BY <1>2, <1>3, OfPuppetIs

LEMMA OfPuppetType ==
  ASSUME NEW q \in Seq(Message), NEW p
  PROVE  OfPuppet(q, p) \in Seq(Txns)
<1>1. Len(q) \in 0..Len(q)
  BY LenProperties
<1>2. PICK f \in [0..Len(q) -> Seq(Txns)] : OfPuppet(q, p) = f[Len(q)]
  BY Selected
<1> QED BY <1>1, <1>2

LEMMA OfPuppetEmpty == \A p : OfPuppet(<<>>, p) = <<>>
<1> SUFFICES ASSUME NEW p PROVE OfPuppet(<<>>, p) = <<>>
  OBVIOUS
<1>0. <<>> \in Seq(Message) /\ Len(<<>>) = 0
  OBVIOUS
<1>1. Upto([i \in 0..0 |-> <<>>], <<>>, p, 0)
  BY DEF Upto
<1> QED BY <1>0, <1>1, OfPuppetIs

LEMMA OfPuppetAppend ==
  ASSUME NEW q \in Seq(Message), NEW m \in Message, NEW p
  PROVE  OfPuppet(Append(q, m), p) = Cat(OfPuppet(q, p), One(m, p))
<1>0. /\ Len(q) \in Nat /\ Append(q, m) \in Seq(Message)
      /\ Len(Append(q, m)) = Len(q) + 1
      /\ \A i \in 1..Len(q) : Append(q, m)[i] = q[i]
      /\ Append(q, m)[Len(q) + 1] = m
  BY LenProperties, AppendProperties
<1>q. PICK r : r = Append(q, m)
  OBVIOUS
<1>r. r \in Seq(Message)
  BY <1>0, <1>q
<1>1. PICK f \in [0..Len(r) -> Seq(Txns)] :
        /\ OfPuppet(r, p) = f[Len(r)]
        /\ \A i \in 0..(Len(r) - 1) : f[i + 1] = f[i] \o One(r[i + 1], p)
        /\ Upto(f, r, p, Len(r))
  BY <1>r, Selected
<1> DEFINE g == [i \in 0..Len(q) |-> f[i]]
<1>2. Upto(g, q, p, Len(q))
  <2>1. ASSUME NEW i \in 0..Len(q)
        PROVE  g[i] = IF i = 0 THEN <<>>
                      ELSE IF q[i].puppetId = p THEN Append(g[i - 1], q[i].txnId)
                      ELSE g[i - 1]
    <3>1. i \in 0..Len(r) /\ g[i] = f[i] /\ (i # 0 => r[i] = q[i] /\ g[i - 1] = f[i - 1])
      BY <1>0, <1>q
    <3> HIDE DEF g
    <3> QED BY <1>1, <3>1 DEF Upto
  <2> QED BY <2>1 DEF Upto
<1>3. OfPuppet(q, p) = f[Len(q)]
  <2>1. g[Len(q)] = f[Len(q)]
    BY <1>0
  <2> QED BY <1>2, <2>1, OfPuppetIs
<1>4. OfPuppet(r, p) = f[Len(q) + 1]
  BY <1>0, <1>1, <1>q
<1>5. f[Len(q) + 1] = f[Len(q)] \o One(r[Len(q) + 1], p)
  <2>1. Len(q) \in 0..(Len(r) - 1)
    BY <1>0, <1>q
  <2> QED BY <1>1, <2>1
<1> QED BY <1>0, <1>3, <1>4, <1>5, <1>q DEF Cat

LEMMA OfPuppetTail ==
  ASSUME NEW q \in Seq(Message), q # <<>>, NEW p
  PROVE  OfPuppet(q, p) = Cat(One(Head(q), p), OfPuppet(Tail(q), p))
<1>t. PICK t : t = Tail(q)
  OBVIOUS
<1>0. /\ Len(q) \in Nat \ {0} /\ t \in Seq(Message) /\ Len(t) = Len(q) - 1
      /\ \A i \in 1..Len(t) : t[i] = q[i + 1]
      /\ Head(q) = q[1] /\ Head(q) \in Message
  BY <1>t, LenProperties, HeadTailProperties, EmptySeq
<1>1. PICK f \in [0..Len(q) -> Seq(Txns)] :
        /\ OfPuppet(q, p) = f[Len(q)] /\ f[0] = <<>>
        /\ \A i \in 0..(Len(q) - 1) : f[i + 1] = f[i] \o One(q[i + 1], p)
  BY Selected
<1>2. PICK g \in [0..Len(t) -> Seq(Txns)] :
        /\ OfPuppet(t, p) = g[Len(t)] /\ g[0] = <<>>
        /\ \A i \in 0..(Len(t) - 1) : g[i + 1] = g[i] \o One(t[i + 1], p)
  BY <1>0, Selected
<1>o. PICK o : o = One(Head(q), p)
  OBVIOUS
<1>p. o \in Seq(Txns)
  BY <1>0, <1>o, OneType
<1> DEFINE S == {i \in Nat : i <= Len(t) => f[i + 1] = o \o g[i]}
<1>3. 0 \in S
  <2>1. 0 \in 0..(Len(q) - 1) /\ 0 + 1 = 1
    BY <1>0
  <2>2. f[1] = <<>> \o o
    BY <1>0, <1>1, <1>o, <2>1
  <2>3. f[1] = o /\ o \o g[0] = o
    BY <1>p, <1>2, <2>2, ConcatEmptySeq
  <2> QED BY <2>3
<1>4. ASSUME NEW i \in Nat, i \in S PROVE i + 1 \in S
  <2> SUFFICES ASSUME i + 1 <= Len(t) PROVE f[i + 2] = o \o g[i + 1]
    OBVIOUS
  <2>1. /\ i + 1 \in 0..(Len(q) - 1) /\ i \in 0..(Len(t) - 1) /\ (i + 1) + 1 = i + 2
        /\ i + 1 \in 1..Len(t) /\ i \in 0..Len(t) /\ i + 2 \in 1..Len(q)
    BY <1>0
  <2>2. f[i + 1] = o \o g[i] /\ t[i + 1] = q[i + 2]
    BY <1>4, <1>0, <2>1
  <2>3. f[i + 2] = (o \o g[i]) \o One(q[i + 2], p)
    BY <1>1, <2>1, <2>2
  <2>4. g[i + 1] = g[i] \o One(q[i + 2], p)
    BY <1>2, <2>1, <2>2
  <2>5. g[i] \in Seq(Txns) /\ One(q[i + 2], p) \in Seq(Txns)
    <3>1. q[i + 2] \in Message
      BY <2>1, ElementOfSeq
    <3> QED BY <2>1, <3>1, OneType
  <2>6. (o \o g[i]) \o One(q[i + 2], p) = o \o (g[i] \o One(q[i + 2], p))
    <3>1. \A a, b \in Seq(Txns) : Cat(Cat(o, a), b) = Cat(o, Cat(a, b))
      BY <1>p, CatProperties
    <3> QED BY <2>5, <3>1 DEF Cat
  <2> QED BY <2>3, <2>4, <2>6
<1> HIDE DEF S
<1>5. f[Len(t) + 1] = o \o g[Len(t)]
  <2>1. \A i \in Nat : i \in S
    BY <1>3, <1>4, Induction
  <2> QED BY <1>0, <2>1 DEF S
<1>6. f[Len(q)] = o \o g[Len(t)]
  BY <1>0, <1>5
<1> QED BY <1>1, <1>2, <1>6, <1>o, <1>t DEF Cat

LEMMA OfPuppetOne ==
  ASSUME NEW m \in Message, NEW p
  PROVE  OfPuppet(<<m>>, p) = One(m, p)
<1>1. <<>> \in Seq(Message) /\ Append(<<>>, m) = <<m>>
  OBVIOUS
<1>2. OfPuppet(<<m>>, p) = Cat(<<>>, One(m, p))
  BY <1>1, OfPuppetAppend, OfPuppetEmpty
<1> QED BY <1>2, OneType, CatProperties

-----------------------------------------------------------------------------
(* The path of a puppet's transactions through the executor.               *)

PathAgrees ==
  \A p \in Puppets :
    puppetTxns[p] = Six(OfPuppet(workDoneQ, p), OfPuppet(doneFF, p), OptSeq(working[p]),
                        puppetQ[p], OfPuppet(schedFF, p), OfPuppet(schedQ, p))

\* The executor's own queues have a place for one message.
OnePlace == /\ schedFF = <<>> \/ \E m \in Message : schedFF = <<m>>
            /\ doneFF = <<>> \/ \E m \in Message : doneFF = <<m>>

AInv == PathAgrees /\ OnePlace

LEMMA PathType ==
  ASSUME HType, NEW p \in Puppets
  PROVE  /\ OfPuppet(workDoneQ, p) \in Seq(Txns) /\ OfPuppet(doneFF, p) \in Seq(Txns)
         /\ OptSeq(working[p]) \in Seq(Txns) /\ puppetQ[p] \in Seq(Txns)
         /\ OfPuppet(schedFF, p) \in Seq(Txns) /\ OfPuppet(schedQ, p) \in Seq(Txns)
         /\ puppetTxns[p] \in Seq(Txns)
<1>1. /\ workDoneQ \in Seq(Message) /\ doneFF \in Seq(Message)
      /\ schedFF \in Seq(Message) /\ schedQ \in Seq(Message)
      /\ puppetQ[p] \in Seq(Txns) /\ puppetTxns[p] \in Seq(Txns)
      /\ working[p] \in Txns \cup {Ex!NoTxn}
  BY DEF HType, TypeOK, ExecutorTyped
<1>2. OptSeq(working[p]) \in Seq(Txns)
  BY <1>1 DEF OptSeq
<1> QED BY <1>1, <1>2, OfPuppetType

LEMMA ScheduleAgrees ==
  ASSUME HType, AInv, NEW p0 \in Puppets, Schedule(p0), UNCHANGED execVars
  PROVE  AInv'
<1>x. PICK x : x = Head(lookaheadBuffer)
  OBVIOUS
<1>m. PICK m : m = [txnId |-> x, puppetId |-> p0]
  OBVIOUS
<1>1. /\ lookaheadBuffer \in Seq(Txns) /\ lookaheadBuffer # <<>>
      /\ schedQ \in Seq(Message) /\ schedQ' = Append(schedQ, m)
      /\ puppetTxns' = [puppetTxns EXCEPT ![p0] = Append(@, x)]
      /\ UNCHANGED <<workDoneQ, schedFF, doneFF, puppetQ, working>>
  BY <1>x, <1>m DEF Schedule, ScheduleWith, HType, TypeOK, execVars
<1>2. x \in Txns /\ m \in Message
  <2>1. x \in Txns
    BY <1>x, <1>1, HeadTail
  <2> QED BY <1>m, <2>1 DEF Message
<1>3. ASSUME NEW p \in Puppets
      PROVE  puppetTxns'[p] =
               Six(OfPuppet(workDoneQ, p), OfPuppet(doneFF, p), OptSeq(working[p]),
                   puppetQ[p], OfPuppet(schedFF, p), OfPuppet(schedQ', p))
  <2>o. PICK o : o = One(m, p)
    OBVIOUS
  <2>t. /\ OfPuppet(workDoneQ, p) \in Seq(Txns) /\ OfPuppet(doneFF, p) \in Seq(Txns)
        /\ OptSeq(working[p]) \in Seq(Txns) /\ puppetQ[p] \in Seq(Txns)
        /\ OfPuppet(schedFF, p) \in Seq(Txns) /\ OfPuppet(schedQ, p) \in Seq(Txns)
    BY PathType
  <2>1. o \in Seq(Txns) /\ OfPuppet(schedQ', p) = Cat(OfPuppet(schedQ, p), o)
    BY <1>1, <1>2, <2>o, OneType, OfPuppetAppend
  <2>2. puppetTxns'[p] = Cat(puppetTxns[p], o)
    <3>0. puppetTxns[p] \in Seq(Txns)
      BY PathType
    <3>1. CASE p = p0
      <4>1. o = <<x>> /\ puppetTxns'[p] = Append(puppetTxns[p], x)
        BY <1>1, <1>m, <2>o, <3>1 DEF One, HType, TypeOK
      <4> QED BY <1>2, <3>0, <4>1, AppendIsConcat DEF Cat
    <3>2. CASE p # p0
      <4>1. o = <<>> /\ puppetTxns'[p] = puppetTxns[p]
        BY <1>1, <1>m, <2>o, <3>2 DEF One, HType, TypeOK
      <4> QED BY <3>0, <4>1, CatProperties
    <3> QED BY <3>1, <3>2
  <2>3. Six(OfPuppet(workDoneQ, p), OfPuppet(doneFF, p), OptSeq(working[p]), puppetQ[p],
            OfPuppet(schedFF, p), Cat(OfPuppet(schedQ, p), o))
          = Cat(Six(OfPuppet(workDoneQ, p), OfPuppet(doneFF, p), OptSeq(working[p]),
                    puppetQ[p], OfPuppet(schedFF, p), OfPuppet(schedQ, p)), o)
    <3>1. Seqs(o, OfPuppet(workDoneQ, p), OfPuppet(doneFF, p), OptSeq(working[p]),
               puppetQ[p], OfPuppet(schedFF, p), OfPuppet(schedQ, p))
      BY <2>1, <2>t DEF Seqs
    <3> QED BY <3>1, SixLast
  <2> QED BY <2>1, <2>2, <2>3 DEF AInv, PathAgrees
<1> QED BY <1>1, <1>3 DEF AInv, PathAgrees, OnePlace

LEMMA ClearAgrees ==
  ASSUME HType, AInv, clearWorkDone, UNCHANGED execVars
  PROVE  AInv'
<1>m. PICK m : m = Head(workDoneQ)
  OBVIOUS
<1>1. /\ workDoneQ # <<>> /\ workDoneQ \in Seq(Message)
      /\ puppetTxns' = [puppetTxns EXCEPT ![m.puppetId] = Tail(@)]
      /\ workDoneQ' = Tail(workDoneQ)
      /\ UNCHANGED <<schedQ, schedFF, doneFF, puppetQ, working>>
  BY <1>m DEF clearWorkDone, Cleared, HType, TypeOK, execVars
<1>2. m \in Message /\ workDoneQ' \in Seq(Message)
  BY <1>m, <1>1, HeadTail
<1>3. ASSUME NEW p \in Puppets
      PROVE  puppetTxns'[p] =
               Six(OfPuppet(workDoneQ', p), OfPuppet(doneFF, p), OptSeq(working[p]),
                   puppetQ[p], OfPuppet(schedFF, p), OfPuppet(schedQ, p))
  <2>o. PICK o : o = One(m, p)
    OBVIOUS
  <2>r. PICK rest : rest = Six(OfPuppet(workDoneQ', p), OfPuppet(doneFF, p),
                               OptSeq(working[p]), puppetQ[p], OfPuppet(schedFF, p),
                               OfPuppet(schedQ, p))
    OBVIOUS
  <2>t. /\ OfPuppet(workDoneQ, p) \in Seq(Txns) /\ OfPuppet(doneFF, p) \in Seq(Txns)
        /\ OptSeq(working[p]) \in Seq(Txns) /\ puppetQ[p] \in Seq(Txns)
        /\ OfPuppet(schedFF, p) \in Seq(Txns) /\ OfPuppet(schedQ, p) \in Seq(Txns)
    BY PathType
  <2>1. OfPuppet(workDoneQ, p) = Cat(o, OfPuppet(workDoneQ', p))
    BY <1>1, <1>m, <2>o, OfPuppetTail
  <2>2. o \in Seq(Txns) /\ OfPuppet(workDoneQ', p) \in Seq(Txns)
    BY <1>2, <2>o, OneType, OfPuppetType
  <2>3. rest \in Seq(Txns)
    BY <2>2, <2>r, <2>t, SixType
  <2>4. puppetTxns[p] = Cat(o, rest)
    <3>1. Six(Cat(o, OfPuppet(workDoneQ', p)), OfPuppet(doneFF, p), OptSeq(working[p]),
              puppetQ[p], OfPuppet(schedFF, p), OfPuppet(schedQ, p)) = Cat(o, rest)
      <4>1. Seqs(o, OfPuppet(workDoneQ', p), OfPuppet(doneFF, p), OptSeq(working[p]),
                 puppetQ[p], OfPuppet(schedFF, p), OfPuppet(schedQ, p))
        BY <2>2, <2>t DEF Seqs
      <4> QED BY <2>r, <4>1, SixFirst
    <3> QED BY <2>1, <3>1 DEF AInv, PathAgrees
  <2>5. CASE p = m.puppetId
    <3>1. o = <<m.txnId>> /\ m.txnId \in Txns
      BY <1>2, <2>o, <2>5 DEF One, Message
    <3>2. puppetTxns'[p] = Tail(puppetTxns[p])
      BY <1>1, <2>5 DEF HType, TypeOK
    <3> QED BY <2>3, <2>4, <2>r, <3>1, <3>2, TailOfCons
  <2>6. CASE p # m.puppetId
    <3>1. o = <<>> /\ puppetTxns'[p] = puppetTxns[p]
      BY <1>1, <2>o, <2>6 DEF One, HType, TypeOK
    <3> QED BY <2>3, <2>4, <2>r, <3>1, CatProperties
  <2> QED BY <2>5, <2>6
<1> QED BY <1>1, <1>3 DEF AInv, PathAgrees, OnePlace

LEMMA ConnectAgrees == HType /\ AInv /\ (ConnectScheduled \/ ConnectWorkDone) => AInv'
<1> SUFFICES ASSUME HType, AInv, ConnectScheduled \/ ConnectWorkDone PROVE AInv'
  OBVIOUS
<1>1. CASE ConnectScheduled
  <2>m. PICK m : m = Head(schedQ)
    OBVIOUS
  <2>1. /\ schedQ # <<>> /\ schedQ \in Seq(Message)
        /\ schedQ' = Tail(schedQ) /\ schedFF = <<>> /\ schedFF' = <<m>>
        /\ UNCHANGED <<workDoneQ, puppetTxns, doneFF, puppetQ, working>>
    BY <1>1, <2>m DEF ConnectScheduled, scheduled_get, Ex!request_put, HType, TypeOK
  <2>2. m \in Message /\ schedQ' \in Seq(Message)
    BY <2>m, <2>1, HeadTail
  <2>3. ASSUME NEW p \in Puppets
        PROVE  puppetTxns[p] =
                 Six(OfPuppet(workDoneQ, p), OfPuppet(doneFF, p), OptSeq(working[p]),
                     puppetQ[p], OfPuppet(schedFF', p), OfPuppet(schedQ', p))
    <3>o. PICK o : o = One(m, p)
      OBVIOUS
    <3>t. /\ OfPuppet(workDoneQ, p) \in Seq(Txns) /\ OfPuppet(doneFF, p) \in Seq(Txns)
          /\ OptSeq(working[p]) \in Seq(Txns) /\ puppetQ[p] \in Seq(Txns)
          /\ OfPuppet(schedFF, p) \in Seq(Txns) /\ OfPuppet(schedQ, p) \in Seq(Txns)
      BY PathType
    <3>1. o \in Seq(Txns) /\ OfPuppet(schedQ', p) \in Seq(Txns)
      BY <2>2, <3>o, OneType, OfPuppetType
    <3>2. /\ OfPuppet(schedQ, p) = Cat(o, OfPuppet(schedQ', p))
          /\ OfPuppet(schedFF, p) = <<>> /\ OfPuppet(schedFF', p) = o
      BY <2>1, <2>2, <2>m, <3>o, OfPuppetTail, OfPuppetEmpty, OfPuppetOne
    <3>3. puppetTxns[p] =
            Six(OfPuppet(workDoneQ, p), OfPuppet(doneFF, p), OptSeq(working[p]),
                puppetQ[p], <<>>, Cat(o, OfPuppet(schedQ', p)))
      BY <3>2 DEF AInv, PathAgrees
    <3>4. puppetTxns[p] =
            Six(OfPuppet(workDoneQ, p), OfPuppet(doneFF, p), OptSeq(working[p]),
                puppetQ[p], o, OfPuppet(schedQ', p))
      <4>1. Seqs(o, OfPuppet(workDoneQ, p), OfPuppet(doneFF, p), OptSeq(working[p]),
                 puppetQ[p], o, OfPuppet(schedQ', p))
        BY <3>1, <3>t DEF Seqs
      <4> QED BY <3>3, <4>1, SixSixth
    <3> QED BY <3>2, <3>4
  <2> QED BY <2>1, <2>2, <2>3 DEF AInv, PathAgrees, OnePlace
<1>2. CASE ConnectWorkDone
  <2>1. /\ doneFF # <<>> /\ workDoneQ \in Seq(Message)
        /\ workDoneQ' = Append(workDoneQ, Head(doneFF)) /\ doneFF' = <<>>
        /\ UNCHANGED <<schedQ, puppetTxns, schedFF, puppetQ, working>>
    BY <1>2 DEF ConnectWorkDone, workDone_put, Ex!response_get, HType, TypeOK
  <2>m. PICK m \in Message : doneFF = <<m>>
    BY <2>1 DEF AInv, OnePlace
  <2>2. workDoneQ' = Append(workDoneQ, m)
    BY <2>1, <2>m
  <2>3. ASSUME NEW p \in Puppets
        PROVE  puppetTxns[p] =
                 Six(OfPuppet(workDoneQ', p), OfPuppet(doneFF', p), OptSeq(working[p]),
                     puppetQ[p], OfPuppet(schedFF, p), OfPuppet(schedQ, p))
    <3>o. PICK o : o = One(m, p)
      OBVIOUS
    <3>t. /\ OfPuppet(workDoneQ, p) \in Seq(Txns) /\ OfPuppet(doneFF, p) \in Seq(Txns)
          /\ OptSeq(working[p]) \in Seq(Txns) /\ puppetQ[p] \in Seq(Txns)
          /\ OfPuppet(schedFF, p) \in Seq(Txns) /\ OfPuppet(schedQ, p) \in Seq(Txns)
      BY PathType
    <3>1. o \in Seq(Txns)
      BY <2>m, <3>o, OneType
    <3>2. /\ OfPuppet(workDoneQ', p) = Cat(OfPuppet(workDoneQ, p), o)
          /\ OfPuppet(doneFF, p) = o /\ OfPuppet(doneFF', p) = <<>>
      BY <2>1, <2>2, <2>m, <3>o, OfPuppetAppend, OfPuppetEmpty, OfPuppetOne
    <3>3. puppetTxns[p] =
            Six(OfPuppet(workDoneQ, p), o, OptSeq(working[p]),
                puppetQ[p], OfPuppet(schedFF, p), OfPuppet(schedQ, p))
      BY <3>2 DEF AInv, PathAgrees
    <3>4. puppetTxns[p] =
            Six(Cat(OfPuppet(workDoneQ, p), o), <<>>, OptSeq(working[p]),
                puppetQ[p], OfPuppet(schedFF, p), OfPuppet(schedQ, p))
      <4>1. Seqs(o, OfPuppet(workDoneQ, p), OfPuppet(doneFF, p), OptSeq(working[p]),
                 puppetQ[p], OfPuppet(schedFF, p), OfPuppet(schedQ, p))
        BY <3>1, <3>t DEF Seqs
      <4> QED BY <3>3, <4>1, SixSecond
    <3> QED BY <3>2, <3>4
  <2> QED BY <2>1, <2>3 DEF AInv, PathAgrees, OnePlace
<1> QED BY <1>1, <1>2

LEMMA FanoutAgrees ==
  ASSUME HType, AInv, Ex!fanout, UNCHANGED pmVars
  PROVE  AInv'
<1>1. /\ schedFF # <<>> /\ schedFF' = <<>>
      /\ puppetQ' = [puppetQ EXCEPT ![Head(schedFF).puppetId] =
                                      Append(@, Head(schedFF).txnId)]
      /\ UNCHANGED <<schedQ, workDoneQ, puppetTxns, doneFF, working>>
  BY DEF Ex!fanout, pmVars
<1>m. PICK m \in Message : schedFF = <<m>>
  BY <1>1 DEF AInv, OnePlace
<1>2. /\ puppetQ' = [puppetQ EXCEPT ![m.puppetId] = Append(@, m.txnId)]
      /\ m.txnId \in Txns
  BY <1>1, <1>m DEF Message
<1>3. ASSUME NEW p \in Puppets
      PROVE  puppetTxns[p] =
               Six(OfPuppet(workDoneQ, p), OfPuppet(doneFF, p), OptSeq(working[p]),
                   puppetQ'[p], OfPuppet(schedFF', p), OfPuppet(schedQ, p))
  <2>o. PICK o : o = One(m, p)
    OBVIOUS
  <2>t. /\ OfPuppet(workDoneQ, p) \in Seq(Txns) /\ OfPuppet(doneFF, p) \in Seq(Txns)
        /\ OptSeq(working[p]) \in Seq(Txns) /\ puppetQ[p] \in Seq(Txns)
        /\ OfPuppet(schedFF, p) \in Seq(Txns) /\ OfPuppet(schedQ, p) \in Seq(Txns)
    BY PathType
  <2>1. o \in Seq(Txns) /\ puppetQ[p] \in Seq(Txns)
    BY <1>m, <2>o, OneType, PathType
  <2>2. OfPuppet(schedFF, p) = o /\ OfPuppet(schedFF', p) = <<>>
    BY <1>1, <1>m, <2>o, OfPuppetEmpty, OfPuppetOne
  <2>3. puppetQ'[p] = Cat(puppetQ[p], o)
    <3>1. CASE p = m.puppetId
      <4>1. o = <<m.txnId>> /\ puppetQ'[p] = Append(puppetQ[p], m.txnId)
        BY <1>2, <2>o, <3>1 DEF One, HType, ExecutorTyped
      <4> QED BY <1>2, <2>1, <4>1, AppendIsConcat DEF Cat
    <3>2. CASE p # m.puppetId
      <4>1. o = <<>> /\ puppetQ'[p] = puppetQ[p]
        BY <1>2, <2>o, <3>2 DEF One, HType, ExecutorTyped
      <4> QED BY <2>1, <4>1, CatProperties
    <3> QED BY <3>1, <3>2
  <2>4. puppetTxns[p] =
          Six(OfPuppet(workDoneQ, p), OfPuppet(doneFF, p), OptSeq(working[p]),
              puppetQ[p], o, OfPuppet(schedQ, p))
    BY <2>2 DEF AInv, PathAgrees
  <2>5. puppetTxns[p] =
          Six(OfPuppet(workDoneQ, p), OfPuppet(doneFF, p), OptSeq(working[p]),
              Cat(puppetQ[p], o), <<>>, OfPuppet(schedQ, p))
    <3>1. Seqs(o, OfPuppet(workDoneQ, p), OfPuppet(doneFF, p), OptSeq(working[p]),
               puppetQ[p], OfPuppet(schedFF, p), OfPuppet(schedQ, p))
      BY <2>1, <2>t DEF Seqs
    <3> QED BY <2>4, <3>1, SixFifth
  <2> QED BY <2>2, <2>3, <2>5
<1> QED BY <1>1, <1>3 DEF AInv, PathAgrees, OnePlace

\* A step that rearranges only what lies between workDoneQ and schedFF.
LEMMA CycleWindow ==
  ASSUME HType, AInv, UNCHANGED pmVars, UNCHANGED schedFF, OnePlace',
         \A p \in Puppets :
           /\ OfPuppet(doneFF', p) \in Seq(Txns) /\ OptSeq(working'[p]) \in Seq(Txns)
           /\ puppetQ'[p] \in Seq(Txns)
           /\ Cat(Cat(OfPuppet(doneFF', p), OptSeq(working'[p])), puppetQ'[p])
                = Cat(Cat(OfPuppet(doneFF, p), OptSeq(working[p])), puppetQ[p])
  PROVE  AInv'
<1>1. UNCHANGED <<schedQ, workDoneQ, puppetTxns>>
  BY DEF pmVars
<1>2. ASSUME NEW p \in Puppets
      PROVE  puppetTxns[p] =
               Six(OfPuppet(workDoneQ, p), OfPuppet(doneFF', p), OptSeq(working'[p]),
                   puppetQ'[p], OfPuppet(schedFF, p), OfPuppet(schedQ, p))
  <2>1. puppetTxns[p] =
          Six(OfPuppet(workDoneQ, p), OfPuppet(doneFF, p), OptSeq(working[p]),
              puppetQ[p], OfPuppet(schedFF, p), OfPuppet(schedQ, p))
    BY DEF AInv, PathAgrees
  <2>t. /\ OfPuppet(workDoneQ, p) \in Seq(Txns) /\ OfPuppet(doneFF, p) \in Seq(Txns)
        /\ OptSeq(working[p]) \in Seq(Txns) /\ puppetQ[p] \in Seq(Txns)
        /\ OfPuppet(schedFF, p) \in Seq(Txns) /\ OfPuppet(schedQ, p) \in Seq(Txns)
    BY PathType
  <2>2. /\ Seqs(<<>>, OfPuppet(workDoneQ, p), OfPuppet(doneFF, p), OptSeq(working[p]),
                puppetQ[p], OfPuppet(schedFF, p), OfPuppet(schedQ, p))
        /\ Seqs(<<>>, OfPuppet(workDoneQ, p), OfPuppet(doneFF', p), OptSeq(working'[p]),
                puppetQ'[p], OfPuppet(schedFF, p), OfPuppet(schedQ, p))
    BY <2>t, CatProperties DEF Seqs
  <2> QED BY <2>1, <2>2, SixMiddle
<1> QED BY <1>1, <1>2 DEF AInv, PathAgrees

\* What a puppet works on, what waits for it, and what it reports.
LEMMA CycleAgrees ==
  ASSUME HType, AInv, Ex!executorCycle, UNCHANGED pmVars
  PROVE  AInv'
<1>d. PICK r : r = Reporter
  OBVIOUS
<1>1. PICK start \in SUBSET {p \in Ex!Puppets : puppetQ[p] # <<>>} :
        /\ \A p \in start : p = r \/ working[p] = Ex!NoTxn
        /\ doneFF' = IF Reports THEN <<[txnId |-> working[r], puppetId |-> r]>>
                                ELSE doneFF
        /\ working' = Ex!Worked(r, start)
        /\ puppetQ' = [p \in Ex!Puppets |-> IF p \in start THEN Tail(puppetQ[p])
                                                           ELSE puppetQ[p]]
        /\ UNCHANGED schedFF
  BY <1>d DEF Ex!executorCycle, Reports, Reporter
<1>2. Ex!Puppets = Puppets /\ Ex!NoPuppet \notin Puppets /\ Ex!NoTxn \notin Txns
  BY DEF Ex!Puppets, Puppets, Ex!NoPuppet, Ex!NoTxn, Txns
<1>3. /\ working' = [p \in Puppets |-> IF p \in start THEN Head(puppetQ[p])
                                  ELSE IF p = r THEN Ex!NoTxn ELSE working[p]]
      /\ puppetQ' = [p \in Puppets |-> IF p \in start THEN Tail(puppetQ[p])
                                                      ELSE puppetQ[p]]
  BY <1>1, <1>2 DEF Ex!Worked
\* The report leaves, and the next transaction comes in.
<1>4. ASSUME NEW p \in Puppets, NEW w, w = OptSeq(working[p]),
             NEW rest, rest = IF p = r \/ working[p] = Ex!NoTxn THEN <<>> ELSE w
      PROVE  /\ OptSeq(working'[p]) \in Seq(Txns) /\ puppetQ'[p] \in Seq(Txns)
             /\ Cat(OptSeq(working'[p]), puppetQ'[p]) = Cat(rest, puppetQ[p])
  <2>1. puppetQ[p] \in Seq(Txns) /\ w \in Seq(Txns)
    BY <1>4, PathType
  <2>2. CASE p \in start
    <3>1. puppetQ[p] # <<>> /\ rest = <<>>
      BY <1>1, <1>4, <2>2
    <3>2. /\ Head(puppetQ[p]) \in Txns /\ Tail(puppetQ[p]) \in Seq(Txns)
          /\ puppetQ[p] = Cat(<<Head(puppetQ[p])>>, Tail(puppetQ[p]))
      BY <2>1, <3>1, HeadCons
    <3>3. /\ OptSeq(working'[p]) = <<Head(puppetQ[p])>>
          /\ puppetQ'[p] = Tail(puppetQ[p])
      BY <1>2, <1>3, <2>2, <3>2 DEF OptSeq
    <3>4. Cat(rest, puppetQ[p]) = puppetQ[p]
      BY <2>1, <3>1, CatProperties
    <3>5. OptSeq(working'[p]) \in Seq(Txns)
      BY <3>2, <3>3
    <3> QED BY <3>2, <3>3, <3>4, <3>5
  <2>3. CASE p \notin start
    <3>1. puppetQ'[p] = puppetQ[p]
          /\ working'[p] = IF p = r THEN Ex!NoTxn ELSE working[p]
      BY <1>3, <2>3
    <3>2. OptSeq(working'[p]) = rest
      BY <1>4, <3>1 DEF OptSeq
    <3>3. rest \in Seq(Txns)
      BY <1>4, <2>1, CatProperties
    <3> QED BY <2>1, <3>1, <3>2, <3>3
  <2> QED BY <2>2, <2>3
<1>5. ASSUME NEW p \in Puppets, NEW w, w = OptSeq(working[p]),
             NEW rest, rest = IF p = r \/ working[p] = Ex!NoTxn THEN <<>> ELSE w
      PROVE  /\ OnePlace' /\ OfPuppet(doneFF', p) \in Seq(Txns)
             /\ Cat(OfPuppet(doneFF', p), rest) = Cat(OfPuppet(doneFF, p), w)
  <2>1. w \in Seq(Txns) /\ OfPuppet(doneFF, p) \in Seq(Txns)
    BY <1>5, PathType
  <2>2. working[p] = Ex!NoTxn => w = <<>>
    BY <1>5 DEF OptSeq
  <2>3. CASE Reports
    <3>m. PICK m : m = [txnId |-> working[r], puppetId |-> r]
      OBVIOUS
    <3>1. /\ r = donePuppet /\ r \in Puppets /\ doneFF = <<>>
          /\ working[r] \in Txns
      BY <1>d, <2>3 DEF Reports, Reporter, HType, ArbRightPuppet, ExecutorTyped
    <3>2. m \in Message /\ doneFF' = <<m>> /\ m.txnId = working[r] /\ m.puppetId = r
      BY <1>1, <2>3, <3>1, <3>m DEF Message
    <3>3. OfPuppet(doneFF, p) = <<>> /\ OfPuppet(doneFF', p) = One(m, p)
      BY <3>1, <3>2, OfPuppetEmpty, OfPuppetOne
    <3>4. One(m, p) = IF p = r THEN w ELSE <<>>
      <4>1. p = r => w = <<working[r]>>
        BY <1>2, <1>5, <3>1 DEF OptSeq
      <4> QED BY <3>2, <4>1 DEF One
    <3>5. One(m, p) \in Seq(Txns)
      BY <2>1, <3>4, CatProperties
    <3>6. Cat(One(m, p), rest) = w /\ Cat(<<>>, w) = w
      <4>1. CASE p = r
        BY <1>5, <2>1, <3>4, <4>1, CatProperties
      <4>2. CASE p # r
        <5>1. rest = w
          BY <1>5, <2>2, <4>2
        <5> QED BY <2>1, <3>4, <4>2, <5>1, CatProperties
      <4> QED BY <4>1, <4>2
    <3>7. OnePlace'
      BY <1>1, <3>2 DEF AInv, OnePlace
    <3> QED BY <3>3, <3>5, <3>6, <3>7
  <2>4. CASE ~ Reports
    <3>1. r \notin Puppets /\ doneFF' = doneFF
      BY <1>1, <1>2, <1>d, <2>4 DEF Reporter
    <3>2. rest = w
      BY <1>5, <2>2, <3>1
    <3>3. OnePlace'
      BY <1>1, <3>1 DEF AInv, OnePlace
    <3> QED BY <2>1, <3>1, <3>2, <3>3
  <2> QED BY <2>3, <2>4
<1>6. ASSUME NEW p \in Puppets
      PROVE  /\ OfPuppet(doneFF', p) \in Seq(Txns) /\ OptSeq(working'[p]) \in Seq(Txns)
             /\ puppetQ'[p] \in Seq(Txns) /\ OnePlace'
             /\ Cat(Cat(OfPuppet(doneFF', p), OptSeq(working'[p])), puppetQ'[p])
                  = Cat(Cat(OfPuppet(doneFF, p), OptSeq(working[p])), puppetQ[p])
  <2>w. PICK w : w = OptSeq(working[p])
    OBVIOUS
  <2>r. PICK rest : rest = IF p = r \/ working[p] = Ex!NoTxn THEN <<>> ELSE w
    OBVIOUS
  <2>1. /\ OptSeq(working'[p]) \in Seq(Txns) /\ puppetQ'[p] \in Seq(Txns)
        /\ Cat(OptSeq(working'[p]), puppetQ'[p]) = Cat(rest, puppetQ[p])
    BY <1>4, <2>w, <2>r
  <2>2. /\ OnePlace' /\ OfPuppet(doneFF', p) \in Seq(Txns)
        /\ Cat(OfPuppet(doneFF', p), rest) = Cat(OfPuppet(doneFF, p), w)
    BY <1>5, <2>w, <2>r
  <2>3. w \in Seq(Txns) /\ puppetQ[p] \in Seq(Txns) /\ rest \in Seq(Txns)
    BY <2>w, <2>r, PathType, CatProperties
  <2>a. ASSUME NEW s \in Seq(Txns), NEW u \in Seq(Txns), NEW v \in Seq(Txns)
        PROVE  Cat(Cat(s, u), v) = Cat(s, Cat(u, v))
    BY CatProperties
  <2>4. Cat(Cat(OfPuppet(doneFF', p), OptSeq(working'[p])), puppetQ'[p])
          = Cat(OfPuppet(doneFF', p), Cat(rest, puppetQ[p]))
    BY <2>1, <2>2, <2>a
  <2>5. Cat(OfPuppet(doneFF', p), Cat(rest, puppetQ[p]))
          = Cat(Cat(OfPuppet(doneFF', p), rest), puppetQ[p])
    BY <2>2, <2>3, <2>a
  <2> QED BY <2>1, <2>2, <2>4, <2>5, <2>w
<1>7. 0 \in Puppets
  BY PuppetmasterAssumption DEF Puppets
<1> QED BY <1>1, <1>6, <1>7, CycleWindow

LEMMA NextAgrees == HType /\ AInv /\ [Next]_vars => AInv'
<1> SUFFICES ASSUME HType, AInv, [Next]_vars PROVE AInv'
  OBVIOUS
<1>1. CASE UNCHANGED <<schedQ, workDoneQ, puppetTxns, execVars>>
  BY <1>1 DEF AInv, PathAgrees, OnePlace, execVars
<1>2. CASE Puppetmaster
  <2>1. UNCHANGED execVars
    BY <1>2 DEF Puppetmaster
  <2>2. CASE drainInput \/ drainLookahead \/ CheckResult \/ Reinsert \/ SummaryRule
    <3>1. UNCHANGED <<schedQ, workDoneQ, puppetTxns>>
      BY <2>2 DEF drainInput, drainLookahead, CheckResult, Reinsert, SummaryRule,
                  shadowUpdateNew, shadowUpdateExisting, switchDone, Tick
    <3> QED BY <1>1, <2>1, <3>1
  <2> QED BY <1>2, <2>1, <2>2, ScheduleAgrees, ClearAgrees
          DEF Puppetmaster, PmRule, LookaheadRule
<1>3. CASE Submit \/ Refresh \/ UNCHANGED vars
  <2>1. UNCHANGED <<schedQ, workDoneQ, puppetTxns, execVars>>
    BY <1>3 DEF Submit, transactions_put, Refresh, startRefresh, vars, pmVars
  <2> QED BY <1>1, <2>1
<1> QED BY <1>2, <1>3, ConnectAgrees, FanoutAgrees, CycleAgrees DEF Next, Executor

LEMMA InitAgrees == Init => AInv
<1> SUFFICES ASSUME Init PROVE AInv
  OBVIOUS
<1>1. /\ schedQ = <<>> /\ workDoneQ = <<>> /\ schedFF = <<>> /\ doneFF = <<>>
      /\ \A p \in Puppets : /\ puppetTxns[p] = <<>> /\ puppetQ[p] = <<>>
                            /\ working[p] = Ex!NoTxn
  BY DEF Init, PmInit, Ex!ExecInit, Ex!Puppets, Puppets
<1>2. Six(<<>>, <<>>, <<>>, <<>>, <<>>, <<>>) = <<>>
  <2>1. <<>> \in Seq(Txns) /\ Cat(<<>>, <<>>) = <<>>
    BY CatProperties
  <2> QED BY <2>1 DEF Six
<1> QED BY <1>1, <1>2, OfPuppetEmpty DEF AInv, PathAgrees, OnePlace, OptSeq

\* Each puppet's list of active transactions is what is on its path.
THEOREM PathInvariant == Spec => []AInv
<1>1. HType /\ AInv /\ [Next]_vars => (HType /\ AInv)'
  BY NextType, NextAgrees
<1>2. Init => HType /\ AInv
  BY InitType, InitAgrees
<1> QED BY <1>1, <1>2, PTL DEF Spec

\* The list of a puppet's active transactions is what travels through the
\* executor and its queues, in that order.
THEOREM ListAgrees == Spec => []ActiveListAgrees
<1>1. AInv => ActiveListAgrees
  BY Zenon DEF AInv, PathAgrees, ActiveListAgrees, Six, Cat
<1> QED BY <1>1, PathInvariant, PTL

\* "work done must match txn order" (Puppetmaster.bsv:254): whoever reports has
\* an active transaction, and reports the oldest.
ReportIsOldest ==
  workDoneQ # <<>> =>
    LET m == Head(workDoneQ)
    IN  puppetTxns[m.puppetId] # <<>> /\ Head(puppetTxns[m.puppetId]) = m.txnId

\* The assertion of clearWorkDone holds, and clearWorkDone is never held up by
\* an empty list.
THEOREM ReportsMatch == Spec => []ReportIsOldest
<1>1. HType /\ AInv => ReportIsOldest
  <2> SUFFICES ASSUME HType, AInv, workDoneQ # <<>>
               PROVE  /\ puppetTxns[Head(workDoneQ).puppetId] # <<>>
                      /\ Head(puppetTxns[Head(workDoneQ).puppetId])
                           = Head(workDoneQ).txnId
    BY DEF ReportIsOldest
  <2>m. PICK m : m = Head(workDoneQ)
    OBVIOUS
  <2>0. workDoneQ \in Seq(Message)
    BY DEF HType, TypeOK
  <2>1. m \in Message /\ Tail(workDoneQ) \in Seq(Message)
    BY <2>0, <2>m, HeadTail
  <2>p. PICK p \in Puppets : p = m.puppetId /\ m.txnId \in Txns
    BY <2>1 DEF Message
  <2>2. OfPuppet(workDoneQ, p) = Cat(<<m.txnId>>, OfPuppet(Tail(workDoneQ), p))
    BY <2>0, <2>m, <2>p, OfPuppetTail DEF One
  <2>3. OfPuppet(Tail(workDoneQ), p) \in Seq(Txns) /\ <<m.txnId>> \in Seq(Txns)
    <3>1. OfPuppet(Tail(workDoneQ), p) \in Seq(Txns)
      BY <2>1, OfPuppetType
    <3> QED BY <2>p, <3>1
  <2>r. PICK rest : rest = Six(OfPuppet(Tail(workDoneQ), p), OfPuppet(doneFF, p),
                               OptSeq(working[p]), puppetQ[p], OfPuppet(schedFF, p),
                               OfPuppet(schedQ, p))
    OBVIOUS
  <2>t. /\ OfPuppet(workDoneQ, p) \in Seq(Txns) /\ OfPuppet(doneFF, p) \in Seq(Txns)
        /\ OptSeq(working[p]) \in Seq(Txns) /\ puppetQ[p] \in Seq(Txns)
        /\ OfPuppet(schedFF, p) \in Seq(Txns) /\ OfPuppet(schedQ, p) \in Seq(Txns)
    BY PathType
  <2>4. rest \in Seq(Txns)
    BY <2>3, <2>r, <2>t, SixType
  <2>5. puppetTxns[p] = Cat(<<m.txnId>>, rest)
    <3>1. Six(Cat(<<m.txnId>>, OfPuppet(Tail(workDoneQ), p)), OfPuppet(doneFF, p),
              OptSeq(working[p]), puppetQ[p], OfPuppet(schedFF, p),
              OfPuppet(schedQ, p)) = Cat(<<m.txnId>>, rest)
      <4>1. Seqs(<<m.txnId>>, OfPuppet(Tail(workDoneQ), p), OfPuppet(doneFF, p),
                 OptSeq(working[p]), puppetQ[p], OfPuppet(schedFF, p),
                 OfPuppet(schedQ, p))
        BY <2>3, <2>t DEF Seqs
      <4> QED BY <2>r, <4>1, SixFirst
    <3> QED BY <2>2, <3>1 DEF AInv, PathAgrees
  <2> QED BY <2>m, <2>p, <2>4, <2>5, TailOfCons
<1> QED BY <1>1, HTypeInvariant, PathInvariant, PTL
=============================================================================
