---------------------------- MODULE HwProperties ----------------------------
(***************************************************************************)
(* What the hardware Puppetmaster must satisfy.                            *)
(***************************************************************************)
EXTENDS HwSystem, FiniteSets

TypeOK ==
  /\ state \in {"Normal", "Switching"}
  /\ inputQ \in Seq(Txns) /\ Len(inputQ) <= InputBufferSize
  /\ lookaheadBuffer \in Seq(Txns) /\ lookaheadReinsert \in Seq(Txns)
  /\ main \subseteq Txns /\ shadow \subseteq Txns
  /\ mainBusy \in 0..OpTicks /\ shadowBusy \in 0..OpTicks
  /\ shadowQ \in Seq(Txns) /\ Len(shadowQ) <= ShadowQSize
  /\ schedQ \in Seq(Message) /\ workDoneQ \in Seq(Message)
  /\ puppetTxns \in [Puppets -> Seq(Txns)]
  /\ fsm \in {"idle", "check", "act"} /\ isCompat \in BOOLEAN
  /\ fsm # "idle" => lookaheadBuffer # <<>>
  /\ lookaheadFailCount \in 0..(FailCountSize - 1)
  /\ shadowPuppetIndex \in Puppets /\ shadowEntryIndex \in 0..ActivePerPuppet
  /\ shadowComplete \in BOOLEAN
  /\ next \in 1..(NumTxns + 1) /\ age \in [Txns -> 0..2]

-----------------------------------------------------------------------------
\* The transactions of puppet p in a queue of messages, in their order.
OfPuppet(q, p) ==
  LET mine[n \in 0..Len(q)] ==
        IF n = 0 THEN <<>>
        ELSE IF q[n].puppetId = p THEN Append(mine[n - 1], q[n].txnId)
        ELSE mine[n - 1]
  IN mine[Len(q)]

OptSeq(t) == IF t = Ex!NoTxn THEN <<>> ELSE <<t>>

(***************************************************************************)
(* The list of a puppet's active transactions is what travels through the  *)
(* executor and its queues, in that order.  So the assertion "work done    *)
(* must match txn order" (Puppetmaster.bsv:254) holds.                     *)
(***************************************************************************)
ActiveListAgrees ==
  \A p \in Puppets :
    puppetTxns[p] = OfPuppet(workDoneQ, p) \o OfPuppet(doneFF, p)
                      \o OptSeq(working[p]) \o puppetQ[p]
                      \o OfPuppet(schedFF, p) \o OfPuppet(schedQ, p)

(***************************************************************************)
(* A transaction that was found incompatible can always be put back: the   *)
(* lookahead never holds more transactions than its buffer has slots.      *)
(***************************************************************************)
LookaheadFits ==
  Len(lookaheadBuffer) + Len(lookaheadReinsert) <= LookaheadBufferSize

(***************************************************************************)
(* Each submitted transaction is in one place: waiting in the input,       *)
(* looked at, active, or done.  None is scheduled twice.                   *)
(***************************************************************************)
RangeOf(s) == {s[i] : i \in 1..Len(s)}
Places == inputQ \o lookaheadReinsert \o lookaheadBuffer
NoneTwice ==
  /\ Cardinality(RangeOf(Places)) = Len(Places)
  /\ RangeOf(Places) \cap Active = {}
  /\ \A p, q \in Puppets : \A i \in 1..Len(puppetTxns[p]), j \in 1..Len(puppetTxns[q]) :
       puppetTxns[p][i] = puppetTxns[q][j] => p = q /\ i = j

(***************************************************************************)
(* When a transaction found compatible is scheduled it still is, although  *)
(* a refresh may have begun and ended since it was checked.                *)
(***************************************************************************)
StillCompatible ==
  fsm = "act" /\ isCompat => Compatible(Head(lookaheadBuffer), main)

(***************************************************************************)
(* The main summary covers each active transaction from the moment it is   *)
(* scheduled until the second refresh after it: the first one finds it in  *)
(* the shadow summary, so shadowQ has always been drained by then: its     *)
(* addition to the shadow summary begins with the one to the main summary, *)
(* and a refresh waits for both.                                           *)
(***************************************************************************)
CoveredUntilSecondRefresh ==
  \A t \in Active : age[t] < 2 => t \in main

(***************************************************************************)
(* No two conflicting transactions are active at a time: what the analyzer *)
(* calls a conflict, and what the walk through the active transactions     *)
(* ("Go through all puppets' active txn list and add them to shadow        *)
(* summary", Puppetmaster.bsv:229) is there for.                           *)
(***************************************************************************)
NoConflictActive ==
  \A t, u \in Active : t # u => ~ check_txn_conflict(t, u)

(***************************************************************************)
(* The registered grant of the executor's arbiter is never stale: the      *)
(* puppet it reports is working ("arb wrong puppet", Executor.bsv:150).    *)
(***************************************************************************)
ArbRightPuppet == donePuppet # Ex!NoPuppet => working[donePuppet] # Ex!NoTxn

(***************************************************************************)
(* Every transaction is eventually done, though the lookahead rotates, the *)
(* refresh waits for an exact number of failures, and a full puppet blocks *)
(* the transaction that was granted it.                                    *)
(***************************************************************************)
EveryTxnDone == \A t \in Txns : <>(next > t /\ t \notin RangeOf(Places) \cup Active)

-----------------------------------------------------------------------------
\* A rule fires in each cycle in which it is ready, unless a more urgent one
\* disables it.  drainInput has no rival, so it cannot be ready time and again
\* and never fire.  A step of the FSM waits while no puppet is free; work ends
\* at some time, and the arbiter of the executor then grants each puppet.
Pm(A) == A /\ UNCHANGED <<execVars, next, age>>
Fake(A) == A /\ UNCHANGED <<pmVars, next, age>>

SomePuppetFree == \E p \in Puppets : Len(puppetTxns[p]) < ActivePerPuppet

FairSpec ==
  /\ Spec
  /\ WF_vars(Submit) /\ WF_vars(Refresh)
  /\ SF_vars(Pm(drainInput))
  /\ WF_vars(Pm(SomePuppetFree /\ LookaheadRule))
  /\ WF_vars(Pm(shadowUpdateNew)) /\ WF_vars(Pm(shadowUpdateExisting))
  /\ WF_vars(Pm(switchDone)) /\ WF_vars(Pm(Tick)) /\ WF_vars(Pm(clearWorkDone))
  /\ WF_vars(ConnectScheduled) /\ WF_vars(ConnectWorkDone)
  /\ WF_vars(Fake(Ex!fanout)) /\ WF_vars(Fake(Ex!executorCycle))
  /\ \A p \in Puppets :
       /\ WF_vars(Fake(Ex!executorCycle /\ puppetQ'[p] # puppetQ[p]))
       /\ WF_vars(Fake(Ex!executorCycle /\ donePuppet' = p))
=============================================================================
