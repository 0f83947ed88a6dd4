---------------------------- MODULE Puppetmaster ----------------------------
(***************************************************************************)
(* mkPuppetmaster of new-pmhw/src/Puppetmaster.bsv: the hardware scheduler.*)
(*                                                                         *)
(* A step is one rule or one interface method; the rules that fire in one  *)
(* clock cycle do so as if one after the other.  A summary is the set of   *)
(* transactions that were added to it (SummaryPair shows that the circuit  *)
(* implements such a set), and the cycles for which it is busy are counted *)
(* in ticks: an addition, a copy or a check that succeeds takes OpTicks, a *)
(* check that fails may end earlier.                                       *)
(***************************************************************************)
EXTENDS Transactions, Sequences

CONSTANTS
  NumPuppets,             \* numPuppets, as configured
  InputBufferSize, LookaheadBufferSize, ActivePerPuppet, SchedSize,
  FailCountSize,          \* lookaheadFailCount counts modulo FailCountSize
  OpTicks

ASSUME PuppetmasterAssumption ==
         /\ NumPuppets \in Nat \ {0} /\ InputBufferSize \in Nat \ {0}
         /\ LookaheadBufferSize \in Nat \ {0} /\ ActivePerPuppet \in Nat \ {0}
         /\ SchedSize \in Nat /\ SchedSize >= NumPuppets * ActivePerPuppet
         /\ FailCountSize \in Nat /\ FailCountSize > LookaheadBufferSize
         /\ OpTicks \in Nat \ {0}

Puppets == 0..(NumPuppets - 1)
Message == [txnId : Txns, puppetId : Puppets]
ShadowQSize == 2    \* mkFIFOF
ReinsertSize == 1   \* mkPipelineFIFOF

VARIABLES
  state,                  \* "Normal", "Switching"
  inputQ, lookaheadReinsert, lookaheadBuffer,
  main, shadow,           \* what was added to mainSummary, shadowSummary
  mainBusy, shadowBusy,   \* ticks until they are free
  shadowQ,                \* scheduled, not yet added to the shadow summary
  schedQ, workDoneQ,      \* messages to and from the executor
  puppetTxns,             \* the active transactions of each puppet
  fsm,                    \* lookaheadFSM: "idle", "check" (2.), "act" (3.)
  isCompat, lookaheadFailCount,
  shadowPuppetIndex, shadowEntryIndex, shadowComplete

lookaheadVars == <<lookaheadReinsert, lookaheadBuffer>>
summaryVars == <<main, shadow, mainBusy, shadowBusy>>
fsmVars == <<fsm, isCompat, lookaheadFailCount>>
walkVars == <<shadowPuppetIndex, shadowEntryIndex, shadowComplete>>
pmVars == <<state, inputQ, lookaheadVars, summaryVars, shadowQ, schedQ,
            workDoneQ, puppetTxns, fsmVars, walkVars>>

\* A summary does not tell reads from writes.
Overlap(t, u) == (reads[t] \cup writes[t]) \cap (reads[u] \cup writes[u]) # {}
Compatible(t, summary) == \A u \in summary : ~ Overlap(t, u)

MainFree   == mainBusy = 0 /\ fsm # "check"
ShadowFree == shadowBusy = 0

\* The register is never written and keeps its reset value.
recordedActiveTxnSize == [p \in Puppets |-> 0]

PmInit ==
  /\ state = "Normal"
  /\ inputQ = <<>> /\ lookaheadReinsert = <<>> /\ lookaheadBuffer = <<>>
  /\ main = {} /\ shadow = {}
  /\ mainBusy = OpTicks /\ shadowBusy = OpTicks     \* both are resetting
  /\ shadowQ = <<>> /\ schedQ = <<>> /\ workDoneQ = <<>>
  /\ puppetTxns = [p \in Puppets |-> <<>>]
  /\ fsm = "idle" /\ isCompat = FALSE /\ lookaheadFailCount = 0
  /\ shadowPuppetIndex = 0 /\ shadowEntryIndex = 0 /\ shadowComplete = FALSE

-----------------------------------------------------------------------------
(* Input and lookahead.                                                    *)

\* transactions.put, through the hasher into inputQ.
transactions_put(t) ==
  /\ Len(inputQ) < InputBufferSize
  /\ inputQ' = Append(inputQ, t)
  /\ UNCHANGED <<state, lookaheadVars, summaryVars, shadowQ, schedQ, workDoneQ,
                 puppetTxns, fsmVars, walkVars>>

\* Faulty variant: new transactions before re-inserted ones.
FromReinsert_NewFirst == lookaheadReinsert # <<>> /\ inputQ = <<>>

\* "Always prioritize re-inserts first"
FromReinsert == lookaheadReinsert # <<>>

drainInput ==
  /\ state = "Normal"
  /\ Len(lookaheadBuffer) < LookaheadBufferSize
  /\ \/ /\ FromReinsert
        /\ lookaheadBuffer' = Append(lookaheadBuffer, Head(lookaheadReinsert))
        /\ lookaheadReinsert' = Tail(lookaheadReinsert) /\ UNCHANGED inputQ
     \/ /\ ~ FromReinsert /\ inputQ # <<>>
        /\ lookaheadBuffer' = Append(lookaheadBuffer, Head(inputQ))
        /\ inputQ' = Tail(inputQ) /\ UNCHANGED lookaheadReinsert
  /\ UNCHANGED <<state, summaryVars, shadowQ, schedQ, workDoneQ, puppetTxns,
                 fsmVars, walkVars>>

startRefreshReady ==
  /\ state = "Normal"
  /\ lookaheadFailCount = LookaheadBufferSize
  /\ shadowComplete
  /\ MainFree /\ ShadowFree

CheckTicks(t) == IF Compatible(t, main) THEN {OpTicks} ELSE 1..OpTicks

\* Less urgent than startRefresh.  That a puppet is free (hasFreePuppet) is
\* left open here and in the steps of the FSM: puppetIsFree leaves the bits of
\* the others undefined, so the arbiter may grant any.
drainLookahead ==
  /\ lookaheadBuffer # <<>>
  /\ state = "Normal"
  /\ MainFree /\ fsm = "idle"
  /\ ~ startRefreshReady
  /\ mainBusy' \in CheckTicks(Head(lookaheadBuffer))
  /\ fsm' = "check"
  /\ UNCHANGED <<state, inputQ, lookaheadVars, main, shadow, shadowBusy, shadowQ,
                 schedQ, workDoneQ, puppetTxns, isCompat, lookaheadFailCount,
                 walkVars>>

\* Faulty variant: the answer of the wrong summary.
CheckResult_Shadow ==
  /\ fsm = "check" /\ mainBusy = 0
  /\ isCompat' = Compatible(Head(lookaheadBuffer), shadow)
  /\ fsm' = "act"
  /\ UNCHANGED <<state, inputQ, lookaheadVars, summaryVars, shadowQ, schedQ,
                 workDoneQ, puppetTxns, lookaheadFailCount, walkVars>>

\* lookaheadSteps 2.
CheckResult ==
  /\ fsm = "check" /\ mainBusy = 0
  /\ isCompat' = Compatible(Head(lookaheadBuffer), main)
  /\ fsm' = "act"
  /\ UNCHANGED <<state, inputQ, lookaheadVars, summaryVars, shadowQ, schedQ,
                 workDoneQ, puppetTxns, lookaheadFailCount, walkVars>>

\* lookaheadSteps 3.a, with what it leaves in the buffer, in the main summary
\* and in shadowQ.
ScheduleWith(p, buffer, mainSet, toShadow) ==
  /\ fsm = "act" /\ isCompat /\ MainFree
  /\ Len(shadowQ) < ShadowQSize /\ Len(schedQ) < SchedSize + 1
  /\ Len(puppetTxns[p]) < ActivePerPuppet
  /\ lookaheadBuffer' = buffer
  /\ main' = mainSet /\ mainBusy' = OpTicks
  /\ shadowQ' = toShadow
  /\ schedQ' = Append(schedQ, [txnId |-> Head(lookaheadBuffer), puppetId |-> p])
  /\ puppetTxns' = [puppetTxns EXCEPT ![p] = Append(@, Head(lookaheadBuffer))]
  /\ lookaheadFailCount' = 0 /\ fsm' = "idle"
  /\ UNCHANGED <<state, inputQ, lookaheadReinsert, shadow, shadowBusy, workDoneQ,
                 isCompat, walkVars>>

\* Faulty variants: not dequeued; not queued for the shadow summary.
Schedule_KeepsHead(p) ==
  ScheduleWith(p, lookaheadBuffer, main \cup {Head(lookaheadBuffer)},
               Append(shadowQ, Head(lookaheadBuffer)))
Schedule_SkipsShadow(p) ==
  ScheduleWith(p, Tail(lookaheadBuffer), main \cup {Head(lookaheadBuffer)}, shadowQ)

Schedule(p) ==
  ScheduleWith(p, Tail(lookaheadBuffer), main \cup {Head(lookaheadBuffer)},
               Append(shadowQ, Head(lookaheadBuffer)))

\* Faulty variants: the counter a bit wider, and too narrow for the limit.
Failed_Wider  == (lookaheadFailCount + 1) % (2 * FailCountSize)
Failed_Narrow == (lookaheadFailCount + 1) % LookaheadBufferSize

\* lookaheadFailCount.incr(1)
Failed == (lookaheadFailCount + 1) % FailCountSize

\* lookaheadSteps 3.b
Reinsert ==
  /\ fsm = "act" /\ ~ isCompat
  /\ Len(lookaheadReinsert) < ReinsertSize
  /\ lookaheadReinsert' = Append(lookaheadReinsert, Head(lookaheadBuffer))
  /\ lookaheadBuffer' = Tail(lookaheadBuffer)
  /\ lookaheadFailCount' = Failed
  /\ fsm' = "idle"
  /\ UNCHANGED <<state, inputQ, summaryVars, shadowQ, schedQ, workDoneQ,
                 puppetTxns, isCompat, walkVars>>

-----------------------------------------------------------------------------
(* The summaries and their exchange.                                       *)

\* Less urgent than startRefresh.
shadowUpdateNewReady == shadowQ # <<>> /\ ShadowFree /\ ~ startRefreshReady

shadowUpdateNew ==
  /\ shadowUpdateNewReady
  /\ shadow' = shadow \cup {Head(shadowQ)} /\ shadowBusy' = OpTicks
  /\ shadowQ' = Tail(shadowQ)
  /\ UNCHANGED <<state, inputQ, lookaheadVars, main, mainBusy, schedQ, workDoneQ,
                 puppetTxns, fsmVars, walkVars>>

\* The walk through the puppets' active transactions.
EntryValid ==
  /\ shadowEntryIndex < Len(puppetTxns[shadowPuppetIndex])
  /\ shadowEntryIndex < recordedActiveTxnSize[shadowPuppetIndex]

shadowUpdateExisting ==
  /\ ~ shadowComplete
  /\ EntryValid => ShadowFree /\ ~ shadowUpdateNewReady
  /\ shadow' = shadow \cup IF EntryValid
                           THEN {puppetTxns[shadowPuppetIndex][shadowEntryIndex + 1]}
                           ELSE {}
  /\ shadowBusy' = IF EntryValid THEN OpTicks ELSE shadowBusy
  /\ LET more == shadowPuppetIndex < NumPuppets - 1
     IN /\ shadowEntryIndex' = IF EntryValid THEN shadowEntryIndex + 1 ELSE 0
        /\ shadowPuppetIndex' = IF EntryValid THEN shadowPuppetIndex
                                ELSE IF more THEN shadowPuppetIndex + 1 ELSE 0
        /\ shadowComplete' = (~ EntryValid /\ ~ more)
  /\ UNCHANGED <<state, inputQ, lookaheadVars, main, mainBusy, shadowQ, schedQ,
                 workDoneQ, puppetTxns, fsmVars>>

startRefresh ==
  /\ startRefreshReady
  /\ main' = shadow /\ shadow' = {}
  /\ mainBusy' = OpTicks /\ shadowBusy' = OpTicks
  /\ lookaheadFailCount' = 0
  /\ state' = "Switching"
  /\ UNCHANGED <<inputQ, lookaheadVars, shadowQ, schedQ, workDoneQ, puppetTxns,
                 fsm, isCompat, walkVars>>

switchDone ==
  /\ state = "Switching" /\ MainFree /\ ShadowFree
  /\ state' = "Normal"
  /\ shadowPuppetIndex' = 0 /\ shadowEntryIndex' = 0 /\ shadowComplete' = FALSE
  /\ UNCHANGED <<inputQ, lookaheadVars, summaryVars, shadowQ, schedQ, workDoneQ,
                 puppetTxns, fsmVars>>

\* Time passes for a busy summary.  shadowUpdateNew fires in the cycle in which
\* it is ready, so none passes before it has.
Tick ==
  /\ mainBusy + shadowBusy > 0
  /\ ~ shadowUpdateNewReady
  /\ mainBusy' = IF mainBusy = 0 THEN 0 ELSE mainBusy - 1
  /\ shadowBusy' = IF shadowBusy = 0 THEN 0 ELSE shadowBusy - 1
  /\ UNCHANGED <<state, inputQ, lookaheadVars, main, shadow, shadowQ, schedQ,
                 workDoneQ, puppetTxns, fsmVars, walkVars>>

-----------------------------------------------------------------------------
(* Output and completion.                                                  *)

scheduled_get ==
  /\ schedQ # <<>>
  /\ schedQ' = Tail(schedQ)
  /\ UNCHANGED <<state, inputQ, lookaheadVars, summaryVars, shadowQ, workDoneQ,
                 puppetTxns, fsmVars, walkVars>>

workDone_put(msg) ==
  /\ Len(workDoneQ) < SchedSize + 1
  /\ workDoneQ' = Append(workDoneQ, msg)
  /\ UNCHANGED <<state, inputQ, lookaheadVars, summaryVars, shadowQ, schedQ,
                 puppetTxns, fsmVars, walkVars>>

\* Faulty variant: the newest.
Cleared_Newest(txns) == SubSeq(txns, 1, Len(txns) - 1)

\* The oldest transaction of the puppet is removed, whatever id was reported:
\* that the two agree is an assertion of the code.
Cleared(txns) == Tail(txns)

clearWorkDone ==
  /\ workDoneQ # <<>>
  /\ LET p == Head(workDoneQ).puppetId
     IN /\ puppetTxns[p] # <<>>
        /\ puppetTxns' = [puppetTxns EXCEPT ![p] = Cleared(@)]
  /\ workDoneQ' = Tail(workDoneQ)
  /\ UNCHANGED <<state, inputQ, lookaheadVars, summaryVars, shadowQ, schedQ,
                 fsmVars, walkVars>>

LookaheadRule == drainInput \/ drainLookahead \/ CheckResult \/ Reinsert
                   \/ \E p \in Puppets : Schedule(p)
SummaryRule == shadowUpdateNew \/ shadowUpdateExisting \/ switchDone \/ Tick
PmRule == LookaheadRule \/ SummaryRule \/ clearWorkDone
=============================================================================
