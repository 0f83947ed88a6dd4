----------------------------- MODULE SummaryPair ----------------------------
(***************************************************************************)
(* The two summaries of new-pmhw/src/Puppetmaster.bsv and the rules that   *)
(* copy the shadow summary into the main one, cycle by cycle.  What the    *)
(* other rules add and check, and when, is left open: they use a summary   *)
(* whenever it is free.  The fingerprints are any.                         *)
(***************************************************************************)
EXTENDS Integers, Sequences

CONSTANTS NumBloomParts, NumBloomChunks, BloomChunkSize, OutFIFODepth,
          Fingerprints      \* the fingerprints of the transactions

ASSUME SummaryAssumption ==
         /\ NumBloomParts \in Nat \ {0} /\ NumBloomChunks \in Nat \ {0}
         /\ BloomChunkSize \in Nat \ {0} /\ OutFIFODepth \in Nat \ {0}

VARIABLES
  pmState,          \* "Normal", "Switching"
  isCompat,         \* the result of the last check
  mState, mTxn, mCompat, mReq, mResp, mBloom, mPortB,    \* mainSummary
  sState, sTxn, sCompat, sReq, sResp, sBloom, sPortB,    \* shadowSummary
  left              \* history: answers have been left at a free summary's port

Main == INSTANCE Summary WITH
  state <- mState, txn <- mTxn, compat <- mCompat, mReqChunk <- mReq,
  mRespChunk <- mResp, bloom <- mBloom, portB <- mPortB
Shadow == INSTANCE Summary WITH
  state <- sState, txn <- sTxn, compat <- sCompat, mReqChunk <- sReq,
  mRespChunk <- sResp, bloom <- sBloom, portB <- sPortB

ASSUME FingerprintsAssumption == Fingerprints \subseteq Main!TxnFingerprint

vars == <<pmState, isCompat, Main!vars, Shadow!vars, left>>

Init ==
  /\ pmState = "Normal" /\ isCompat \in BOOLEAN
  /\ Main!Init /\ Shadow!Init
  /\ left = FALSE

-----------------------------------------------------------------------------
\* mkConnection(shadowSummary.getChunk, mainSummary.setChunk)
Transfer == Shadow!canGet /\ Main!canSet

\* A cycle of the main summary: an operation goes on, one is started, or it
\* stays free.
MainCheck  == \E t \in Fingerprints : Main!checks_put(t)
MainAdd    == \E t \in Fingerprints : Main!txns_put(t)
MainResult == Main!checks_get /\ isCompat' = Main!checkResult

MainBusy ==
  \/ Main!Internal \/ Main!Wait \/ MainAdd
  \/ pmState = "Normal" /\ MainCheck
  \/ Main!Copying(Main!canGet, Transfer, Head(sPortB))
  \/ Main!Idle

MainCycle ==
  \/ MainBusy /\ UNCHANGED isCompat
  \/ MainResult

\* A cycle of the shadow summary, with clearShadow.
ShadowCycle ==
  \/ Shadow!Internal \/ Shadow!Wait
  \/ \E t \in Fingerprints : Shadow!txns_put(t)
  \/ Shadow!Copying(Transfer, Shadow!canSet, {})
  \/ Shadow!Idle

\* The port's answers are those of the operation in progress: when nothing
\* is in progress, none is outstanding.
NoStaleAnswers == /\ Main!isFree => mPortB = <<>>
                  /\ Shadow!isFree => sPortB = <<>>

\* Not of the hardware: a check whose answer is known before the last chunk
\* leaves the chunks it has asked for, for the next operation to take.
Remember == left' = (left \/ ~ NoStaleAnswers')

switchDone == pmState = "Switching" /\ Main!isFree /\ Shadow!isFree

Cycle ==
  /\ MainCycle /\ ShadowCycle
  /\ pmState' = IF switchDone THEN "Normal" ELSE pmState
  /\ Remember

startRefresh ==
  /\ pmState = "Normal" /\ pmState' = "Switching"
  /\ Main!startCopy /\ Shadow!startCopy
  /\ UNCHANGED isCompat
  /\ Remember

Next == Cycle \/ startRefresh

\* The clock runs, and the result of a check is eventually taken.
Spec == Init /\ [][Next]_vars
FairSpec == Spec /\ WF_vars(Cycle) /\ WF_vars(MainResult /\ Cycle)

-----------------------------------------------------------------------------
TypeOK ==
  /\ pmState \in {"Normal", "Switching"} /\ isCompat \in BOOLEAN
  /\ Main!TypeOK /\ Shadow!TypeOK /\ left \in BOOLEAN

(***************************************************************************)
(* The answer to a check is right: whenever one is ready, it says whether  *)
(* the bits of some object of the transaction are all set in the main      *)
(* filter ("Check whether a transaction is compatible with the summary or  *)
(* not", Summary.bsv:17).                                                  *)
(***************************************************************************)
FpBits(t) == {<<j, loc[j]>> : j \in Main!Parts, loc \in t}

Contents(parts) ==
  {<<j, <<c, b>>>> : j \in Main!Parts, c \in Main!Chunks, b \in Main!Bits}
    \cap UNION {{<<f[1], <<c, f[2]>>>> : f \in parts[c]} : c \in Main!Chunks}

CheckIsRight ==
  mState = "Checking" /\ mResp = Main!Invalid =>
    (Main!checkResult <=>
       \A loc \in mTxn : ~ FpBits({loc}) \subseteq Contents(mBloom))

(***************************************************************************)
(* No check is answered wrongly before answers have been left at a port,   *)
(* whatever the fingerprints: early ends are the only way to a wrong one.  *)
(***************************************************************************)
AnswersAreRight == ~ left => CheckIsRight

(***************************************************************************)
(* The summaries implement Filters: an addition takes effect when it is    *)
(* accepted, and so does the exchange, although both take a cycle per      *)
(* chunk and a chunk of the shadow is cleared in the cycle it is read.     *)
(* They do so up to the first cycle that leaves answers at a free          *)
(* summary's port, whatever the fingerprints.                              *)
(***************************************************************************)
\* A chunk that is still to be copied is on its way or still in the shadow.
InCopy(c) ==
  IF mResp = Main!Invalid \/ c < mResp THEN mBloom[c]
  ELSE IF c - mResp < Len(sPortB) THEN sPortB[c - mResp + 1] ELSE sBloom[c]

absMain ==
  CASE mState = "Resetting" -> {}
    [] mState = "Adding"    -> Contents(mBloom) \cup FpBits(mTxn)
    [] mState = "Copying"   -> Contents([c \in Main!Chunks |-> InCopy(c)])
    [] OTHER                -> Contents(mBloom)
absShadow ==
  CASE sState \in {"Resetting", "Copying"} -> {}
    [] sState = "Adding" -> Contents(sBloom) \cup FpBits(sTxn)
    [] OTHER             -> Contents(sBloom)
absAsked == IF mState = "Checking" THEN {mTxn} ELSE {}

Abs == INSTANCE Filters WITH main <- absMain, shadow <- absShadow,
                             asked <- absAsked, answer <- isCompat,
                             LocBits <- FpBits

ImplementsFilters == /\ Abs!FInit
                     /\ [][~ left' => [Abs!FNext]_(Abs!fvars)]_vars

(***************************************************************************)
(* Every operation and every copy ends, whatever answers are outstanding   *)
(* at the port when it starts, so that the scheduler never waits for a     *)
(* summary for ever.                                                       *)
(***************************************************************************)
OperationsEnd == /\ ~ Main!isFree ~> Main!isFree
                 /\ ~ Shadow!isFree ~> Shadow!isFree
=============================================================================
