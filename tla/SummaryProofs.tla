---------------------------- MODULE SummaryProofs ----------------------------
(***************************************************************************)
(* The two summaries, for every number and size of parts and chunks, every *)
(* set of fingerprints and every depth of the port.                        *)
(***************************************************************************)
EXTENDS SummaryPair, SequenceTheorems, FiniteSetTheorems, TLAPS

Chunks == 0..(NumBloomChunks - 1)
Values == Main!BloomChunkParts

LEMMA SameOperators ==
  /\ Main!Chunks = Chunks /\ Shadow!Chunks = Chunks
  /\ Main!Parts = Shadow!Parts /\ Main!Bits = Shadow!Bits
  /\ Shadow!BloomChunkParts = Values /\ Shadow!TxnFingerprint = Main!TxnFingerprint
  /\ Main!Invalid = -1 /\ Shadow!Invalid = -1
  /\ \A c : Shadow!NextChunk(c) = Main!NextChunk(c)
BY DEF Chunks, Values, Main!Chunks, Shadow!Chunks, Main!Parts, Shadow!Parts,
       Main!Bits, Shadow!Bits, Main!BloomChunkParts, Shadow!BloomChunkParts,
       Main!TxnFingerprint, Shadow!TxnFingerprint, Main!BloomLocation,
       Shadow!BloomLocation, Main!Invalid, Shadow!Invalid, Main!NextChunk,
       Shadow!NextChunk

LEMMA NextChunkIs ==
  ASSUME NEW c \in Chunks
  PROVE  /\ Main!NextChunk(c) \in Chunks \cup {-1}
         /\ Main!NextChunk(c) = IF c = NumBloomChunks - 1 THEN -1 ELSE c + 1
BY SummaryAssumption DEF Chunks, Main!NextChunk, Main!Invalid

\* The members of the sets of bits that are written with UNION.
LEMMA InChunkBits ==
  ASSUME NEW c, NEW t, NEW x
  PROVE  /\ x \in Main!ChunkBits(c, t) <=>
              \E loc \in t : \E j \in Main!Parts : loc[j][1] = c /\ x = <<j, loc[j][2]>>
         /\ Shadow!ChunkBits(c, t) = Main!ChunkBits(c, t)
<1>1. Shadow!ChunkBits(c, t) = Main!ChunkBits(c, t)
  BY SameOperators DEF Main!ChunkBits, Shadow!ChunkBits
<1>2. x \in Main!ChunkBits(c, t) <=>
        \E loc \in t : x \in {<<j, loc[j][2]>> : j \in {i \in Main!Parts : loc[i][1] = c}}
  BY DEF Main!ChunkBits
<1> QED BY <1>1, <1>2

LEMMA ChunkBitsType ==
  ASSUME NEW t \in Main!TxnFingerprint, NEW c, NEW v \in Values
  PROVE  /\ v \cup Main!ChunkBits(c, t) \in Values
         /\ v \cup Shadow!ChunkBits(c, t) \in Values
<1>1. ASSUME NEW x \in Main!ChunkBits(c, t) PROVE x \in Main!Parts \X Main!Bits
  <2>1. PICK loc \in t, j \in Main!Parts : x = <<j, loc[j][2]>>
    BY <1>1, InChunkBits
  <2>2. loc \in [Main!Parts -> Main!Chunks \X Main!Bits]
    BY DEF Main!TxnFingerprint, Main!BloomLocation
  <2>3. loc[j] \in Main!Chunks \X Main!Bits
    BY <2>2
  <2> QED BY <2>1, <2>3
<1> QED BY <1>1, InChunkBits DEF Values, Main!BloomChunkParts

-----------------------------------------------------------------------------
(* The reads through a port.                                               *)

\* The rule requestChunks, as a relation of what it reads and writes.
Request(req, port, filter, taken, newReq, newPort) ==
  LET rest == SubSeq(port, taken + 1, Len(port))
  IN IF req # -1 /\ Len(port) < OutFIFODepth
     THEN newPort = Append(rest, filter[req]) /\ newReq = Main!NextChunk(req)
     ELSE newPort = rest /\ newReq = req

LEMMA MainRequest ==
  ASSUME NEW taken, Main!requestChunks(taken)
  PROVE  Request(mReq, mPortB, mBloom, taken, mReq', mPortB')
BY DEF Main!requestChunks, Request, Main!Invalid

LEMMA ShadowRequest ==
  ASSUME NEW taken, Shadow!requestChunks(taken)
  PROVE  Request(sReq, sPortB, sBloom, taken, sReq', sPortB')
BY SameOperators DEF Shadow!requestChunks, Request

LEMMA RestIs ==
  ASSUME NEW port \in Seq(Values), NEW taken \in 0..1, taken <= Len(port)
  PROVE  /\ SubSeq(port, taken + 1, Len(port)) \in Seq(Values)
         /\ Len(SubSeq(port, taken + 1, Len(port))) = Len(port) - taken
         /\ \A i \in 1..(Len(port) - taken) :
              SubSeq(port, taken + 1, Len(port))[i] = port[i + taken]
<1>1. Len(port) \in Nat
  BY LenProperties
<1>2. CASE taken + 1 <= Len(port)
  BY <1>1, <1>2, SubSeqProperties
<1>3. CASE taken + 1 > Len(port)
  BY <1>1, <1>3, SubSeqProperties
<1> QED BY <1>1, <1>2, <1>3

LEMMA RequestType ==
  ASSUME NEW req \in Chunks \cup {-1}, NEW port \in Seq(Values),
         Len(port) <= OutFIFODepth, NEW filter \in [Chunks -> Values],
         NEW taken \in 0..1, taken <= Len(port), NEW newReq, NEW newPort,
         Request(req, port, filter, taken, newReq, newPort)
  PROVE  /\ newReq \in Chunks \cup {-1}
         /\ newPort \in Seq(Values) /\ Len(newPort) <= OutFIFODepth
<1>. DEFINE rest == SubSeq(port, taken + 1, Len(port))
<1>1. rest \in Seq(Values) /\ Len(rest) = Len(port) - taken /\ Len(port) \in Nat
  BY RestIs, LenProperties
<1>2. CASE req # -1 /\ Len(port) < OutFIFODepth
  <2>1. newPort = Append(rest, filter[req]) /\ newReq = Main!NextChunk(req)
        /\ req \in Chunks /\ filter[req] \in Values
    BY <1>2 DEF Request
  <2>2. newPort \in Seq(Values) /\ Len(newPort) = Len(rest) + 1
    BY <1>1, <2>1, AppendProperties
  <2> QED BY <1>1, <1>2, <2>1, <2>2, NextChunkIs, SummaryAssumption
<1>3. CASE ~(req # -1 /\ Len(port) < OutFIFODepth)
  <2>1. newPort = rest /\ newReq = req
    BY <1>3 DEF Request
  <2> QED BY <1>1, <2>1, SummaryAssumption
<1> QED BY <1>2, <1>3

-----------------------------------------------------------------------------
Types(state, txn, compat, req, resp, filter, port) ==
  /\ state \in {"Resetting", "Free", "Adding", "Checking", "Copying"}
  /\ txn \in Main!TxnFingerprint /\ compat \subseteq txn \X Main!Parts
  /\ req \in Chunks \cup {-1} /\ resp \in Chunks \cup {-1}
  /\ state = "Free" => req = -1 /\ resp = -1
  /\ filter \in [Chunks -> Values]
  /\ port \in Seq(Values) /\ Len(port) <= OutFIFODepth

-----------------------------------------------------------------------------
(* Types of the Main summary.                                               *)

LEMMA MainTypes ==
  /\ Main!TypeOK <=>
       Types(mState, mTxn, mCompat, mReq, mResp, mBloom, mPortB)
  /\ Main!TypeOK' <=>
       Types(mState, mTxn, mCompat, mReq, mResp, mBloom, mPortB)'
BY SameOperators DEF Main!TypeOK, Types, Values

LEMMA MainFinishType ==
  ASSUME Main!TypeOK, NEW taken \in 0..1, taken <= Len(mPortB), Main!Finish(taken)
  PROVE  Main!TypeOK'
<1>1. SubSeq(mPortB, taken + 1, Len(mPortB)) \in Seq(Values)
      /\ Len(SubSeq(mPortB, taken + 1, Len(mPortB))) = Len(mPortB) - taken
  BY RestIs, MainTypes DEF Types
<1>2. /\ mState' = "Free" /\ mReq' = -1 /\ mResp' = -1
      /\ mTxn' = {} /\ mCompat' = {} /\ mBloom' = mBloom
      /\ mPortB' = SubSeq(mPortB, taken + 1, Len(mPortB))
  BY SameOperators DEF Main!Finish
<1>3. {} \in Main!TxnFingerprint
  BY DEF Main!TxnFingerprint
<1>4. Len(mPortB') <= OutFIFODepth
  BY <1>1, <1>2, MainTypes, SummaryAssumption, LenProperties DEF Types
<1> QED BY <1>1, <1>2, <1>3, <1>4, MainTypes DEF Types

LEMMA MainStartType ==
  ASSUME Main!TypeOK, NEW op \in {"Adding", "Checking", "Copying"},
         NEW t \in Main!TxnFingerprint, Main!Start(op, t)
  PROVE  Main!TypeOK'
<1>1. /\ mState' = op /\ mTxn' = t /\ mCompat' = {}
      /\ mReq' = 0 /\ mResp' = 0
      /\ mBloom' = mBloom /\ mPortB' = mPortB
  BY DEF Main!Start
<1>2. 0 \in Chunks
  BY SummaryAssumption DEF Chunks
<1> QED BY <1>1, <1>2, MainTypes DEF Types

LEMMA MainResetType ==
  ASSUME Main!TypeOK, Main!doReset
  PROVE  Main!TypeOK'
<1>1. /\ mResp \in Chunks /\ mState = "Resetting"
      /\ mResp' = Main!NextChunk(mResp)
      /\ mBloom' = [mBloom EXCEPT ![mResp] = {}]
      /\ UNCHANGED <<mState, mTxn, mCompat, mReq, mPortB>>
  BY SameOperators, MainTypes DEF Types, Main!doReset, Main!Write
<1>2. {} \in Values
  BY DEF Values, Main!BloomChunkParts
<1> QED BY <1>1, <1>2, NextChunkIs, MainTypes DEF Types

LEMMA MainAddType ==
  ASSUME Main!TypeOK, Main!doAdd_resp
  PROVE  Main!TypeOK'
<1>. DEFINE v == Head(mPortB) \cup Main!ChunkBits(mResp, mTxn)
<1>1. /\ mResp \in Chunks /\ mState = "Adding" /\ mPortB # <<>>
      /\ mResp' = Main!NextChunk(mResp)
      /\ mBloom' = [mBloom EXCEPT ![mResp] = v]
      /\ UNCHANGED <<mState, mTxn, mCompat>>
      /\ Main!requestChunks(1)
  BY SameOperators, MainTypes DEF Types, Main!doAdd_resp, Main!Write
<1>2. v \in Values
  BY <1>1, ChunkBitsType, HeadTailProperties, MainTypes DEF Types
<1>3. 1 \in 0..1 /\ 1 <= Len(mPortB)
  BY <1>1, LenProperties, EmptySeq, MainTypes DEF Types
<1>4. mReq' \in Chunks \cup {-1} /\ mPortB' \in Seq(Values)
      /\ Len(mPortB') <= OutFIFODepth
  BY <1>1, <1>3, MainRequest, RequestType, MainTypes DEF Types
<1> QED BY <1>1, <1>2, <1>4, NextChunkIs, MainTypes DEF Types

LEMMA MainCheckType ==
  ASSUME Main!TypeOK, Main!doCheck_resp
  PROVE  Main!TypeOK'
<1>1. /\ mResp \in Chunks /\ mState = "Checking" /\ mPortB # <<>>
      /\ mResp' \in {Main!NextChunk(mResp), -1}
      /\ mCompat' = mCompat \cup Main!ChunkFound(Head(mPortB), mResp, mTxn)
      /\ UNCHANGED <<mState, mTxn, mBloom>>
      /\ Main!requestChunks(1)
  BY SameOperators, MainTypes DEF Types, Main!doCheck_resp
<1>2. mCompat' \subseteq mTxn' \X Main!Parts
  BY <1>1, SameOperators, MainTypes DEF Types, Main!ChunkFound
<1>3. 1 \in 0..1 /\ 1 <= Len(mPortB)
  BY <1>1, LenProperties, EmptySeq, MainTypes DEF Types
<1>4. mReq' \in Chunks \cup {-1} /\ mPortB' \in Seq(Values)
      /\ Len(mPortB') <= OutFIFODepth
  BY <1>1, <1>3, MainRequest, RequestType, MainTypes DEF Types
<1> QED BY <1>1, <1>2, <1>4, NextChunkIs, MainTypes DEF Types

LEMMA MainWaitType ==
  ASSUME Main!TypeOK, Main!Wait
  PROVE  Main!TypeOK'
<1>1. /\ mState \in {"Adding", "Checking"}
      /\ UNCHANGED <<mState, mTxn, mCompat, mResp, mBloom>>
      /\ Main!requestChunks(0)
  BY DEF Main!Wait
<1>2. 0 \in 0..1 /\ 0 <= Len(mPortB)
  BY LenProperties, MainTypes DEF Types
<1>3. mReq' \in Chunks \cup {-1} /\ mPortB' \in Seq(Values)
      /\ Len(mPortB') <= OutFIFODepth
  BY <1>1, <1>2, MainRequest, RequestType, MainTypes DEF Types
<1> QED BY <1>1, <1>3, MainTypes DEF Types

LEMMA MainCopyType ==
  ASSUME Main!TypeOK, NEW get \in BOOLEAN, NEW set \in BOOLEAN, NEW parts,
         set => parts \in Values, Main!Copying(get, set, parts)
  PROVE  Main!TypeOK'
<1>. DEFINE taken == IF get THEN 1 ELSE 0
<1>1. taken \in 0..1 /\ taken <= Len(mPortB) /\ mState = "Copying"
  BY LenProperties, EmptySeq, MainTypes DEF Types, Main!Copying, Main!canGet
<1>2. CASE mResp = -1
  BY <1>1, <1>2, SameOperators, MainFinishType DEF Main!Copying
<1>3. CASE mResp # -1
  <2>1. /\ mResp \in Chunks
        /\ mResp' \in {mResp, Main!NextChunk(mResp)}
        /\ mBloom' \in {mBloom, [mBloom EXCEPT ![mResp] = parts]}
        /\ ~ set => mBloom' = mBloom
        /\ UNCHANGED <<mState, mTxn, mCompat>>
        /\ Main!requestChunks(taken)
    BY <1>3, SameOperators, MainTypes DEF Types, Main!Copying, Main!Write
  <2>2. mReq' \in Chunks \cup {-1} /\ mPortB' \in Seq(Values)
        /\ Len(mPortB') <= OutFIFODepth
    BY <1>1, <2>1, MainRequest, RequestType, MainTypes DEF Types
  <2>3. mBloom' \in [Chunks -> Values] /\ mResp' \in Chunks \cup {-1}
    BY <2>1, NextChunkIs, MainTypes DEF Types
  <2> QED BY <1>1, <2>1, <2>2, <2>3, MainTypes DEF Types
<1> QED BY <1>2, <1>3

-----------------------------------------------------------------------------
(* Types of the Shadow summary.                                               *)

LEMMA ShadowTypes ==
  /\ Shadow!TypeOK <=>
       Types(sState, sTxn, sCompat, sReq, sResp, sBloom, sPortB)
  /\ Shadow!TypeOK' <=>
       Types(sState, sTxn, sCompat, sReq, sResp, sBloom, sPortB)'
BY SameOperators DEF Shadow!TypeOK, Types, Values

LEMMA ShadowFinishType ==
  ASSUME Shadow!TypeOK, NEW taken \in 0..1, taken <= Len(sPortB), Shadow!Finish(taken)
  PROVE  Shadow!TypeOK'
<1>1. SubSeq(sPortB, taken + 1, Len(sPortB)) \in Seq(Values)
      /\ Len(SubSeq(sPortB, taken + 1, Len(sPortB))) = Len(sPortB) - taken
  BY RestIs, ShadowTypes DEF Types
<1>2. /\ sState' = "Free" /\ sReq' = -1 /\ sResp' = -1
      /\ sTxn' = {} /\ sCompat' = {} /\ sBloom' = sBloom
      /\ sPortB' = SubSeq(sPortB, taken + 1, Len(sPortB))
  BY SameOperators DEF Shadow!Finish
<1>3. {} \in Main!TxnFingerprint
  BY DEF Main!TxnFingerprint
<1>4. Len(sPortB') <= OutFIFODepth
  BY <1>1, <1>2, ShadowTypes, SummaryAssumption, LenProperties DEF Types
<1> QED BY <1>1, <1>2, <1>3, <1>4, ShadowTypes DEF Types

LEMMA ShadowStartType ==
  ASSUME Shadow!TypeOK, NEW op \in {"Adding", "Checking", "Copying"},
         NEW t \in Main!TxnFingerprint, Shadow!Start(op, t)
  PROVE  Shadow!TypeOK'
<1>1. /\ sState' = op /\ sTxn' = t /\ sCompat' = {}
      /\ sReq' = 0 /\ sResp' = 0
      /\ sBloom' = sBloom /\ sPortB' = sPortB
  BY DEF Shadow!Start
<1>2. 0 \in Chunks
  BY SummaryAssumption DEF Chunks
<1> QED BY <1>1, <1>2, ShadowTypes DEF Types

LEMMA ShadowResetType ==
  ASSUME Shadow!TypeOK, Shadow!doReset
  PROVE  Shadow!TypeOK'
<1>1. /\ sResp \in Chunks /\ sState = "Resetting"
      /\ sResp' = Main!NextChunk(sResp)
      /\ sBloom' = [sBloom EXCEPT ![sResp] = {}]
      /\ UNCHANGED <<sState, sTxn, sCompat, sReq, sPortB>>
  BY SameOperators, ShadowTypes DEF Types, Shadow!doReset, Shadow!Write
<1>2. {} \in Values
  BY DEF Values, Main!BloomChunkParts
<1> QED BY <1>1, <1>2, NextChunkIs, ShadowTypes DEF Types

LEMMA ShadowAddType ==
  ASSUME Shadow!TypeOK, Shadow!doAdd_resp
  PROVE  Shadow!TypeOK'
<1>. DEFINE v == Head(sPortB) \cup Shadow!ChunkBits(sResp, sTxn)
<1>1. /\ sResp \in Chunks /\ sState = "Adding" /\ sPortB # <<>>
      /\ sResp' = Main!NextChunk(sResp)
      /\ sBloom' = [sBloom EXCEPT ![sResp] = v]
      /\ UNCHANGED <<sState, sTxn, sCompat>>
      /\ Shadow!requestChunks(1)
  BY SameOperators, ShadowTypes DEF Types, Shadow!doAdd_resp, Shadow!Write
<1>2. v \in Values
  BY <1>1, ChunkBitsType, HeadTailProperties, ShadowTypes DEF Types
<1>3. 1 \in 0..1 /\ 1 <= Len(sPortB)
  BY <1>1, LenProperties, EmptySeq, ShadowTypes DEF Types
<1>4. sReq' \in Chunks \cup {-1} /\ sPortB' \in Seq(Values)
      /\ Len(sPortB') <= OutFIFODepth
  BY <1>1, <1>3, ShadowRequest, RequestType, ShadowTypes DEF Types
<1> QED BY <1>1, <1>2, <1>4, NextChunkIs, ShadowTypes DEF Types

LEMMA ShadowCheckType ==
  ASSUME Shadow!TypeOK, Shadow!doCheck_resp
  PROVE  Shadow!TypeOK'
<1>1. /\ sResp \in Chunks /\ sState = "Checking" /\ sPortB # <<>>
      /\ sResp' \in {Main!NextChunk(sResp), -1}
      /\ sCompat' = sCompat \cup Shadow!ChunkFound(Head(sPortB), sResp, sTxn)
      /\ UNCHANGED <<sState, sTxn, sBloom>>
      /\ Shadow!requestChunks(1)
  BY SameOperators, ShadowTypes DEF Types, Shadow!doCheck_resp
<1>2. sCompat' \subseteq sTxn' \X Main!Parts
  BY <1>1, SameOperators, ShadowTypes DEF Types, Shadow!ChunkFound
<1>3. 1 \in 0..1 /\ 1 <= Len(sPortB)
  BY <1>1, LenProperties, EmptySeq, ShadowTypes DEF Types
<1>4. sReq' \in Chunks \cup {-1} /\ sPortB' \in Seq(Values)
      /\ Len(sPortB') <= OutFIFODepth
  BY <1>1, <1>3, ShadowRequest, RequestType, ShadowTypes DEF Types
<1> QED BY <1>1, <1>2, <1>4, NextChunkIs, ShadowTypes DEF Types

LEMMA ShadowWaitType ==
  ASSUME Shadow!TypeOK, Shadow!Wait
  PROVE  Shadow!TypeOK'
<1>1. /\ sState \in {"Adding", "Checking"}
      /\ UNCHANGED <<sState, sTxn, sCompat, sResp, sBloom>>
      /\ Shadow!requestChunks(0)
  BY DEF Shadow!Wait
<1>2. 0 \in 0..1 /\ 0 <= Len(sPortB)
  BY LenProperties, ShadowTypes DEF Types
<1>3. sReq' \in Chunks \cup {-1} /\ sPortB' \in Seq(Values)
      /\ Len(sPortB') <= OutFIFODepth
  BY <1>1, <1>2, ShadowRequest, RequestType, ShadowTypes DEF Types
<1> QED BY <1>1, <1>3, ShadowTypes DEF Types

LEMMA ShadowCopyType ==
  ASSUME Shadow!TypeOK, NEW get \in BOOLEAN, NEW set \in BOOLEAN, NEW parts,
         set => parts \in Values, Shadow!Copying(get, set, parts)
  PROVE  Shadow!TypeOK'
<1>. DEFINE taken == IF get THEN 1 ELSE 0
<1>1. taken \in 0..1 /\ taken <= Len(sPortB) /\ sState = "Copying"
  BY LenProperties, EmptySeq, ShadowTypes DEF Types, Shadow!Copying, Shadow!canGet
<1>2. CASE sResp = -1
  BY <1>1, <1>2, SameOperators, ShadowFinishType DEF Shadow!Copying
<1>3. CASE sResp # -1
  <2>1. /\ sResp \in Chunks
        /\ sResp' \in {sResp, Main!NextChunk(sResp)}
        /\ sBloom' \in {sBloom, [sBloom EXCEPT ![sResp] = parts]}
        /\ ~ set => sBloom' = sBloom
        /\ UNCHANGED <<sState, sTxn, sCompat>>
        /\ Shadow!requestChunks(taken)
    BY <1>3, SameOperators, ShadowTypes DEF Types, Shadow!Copying, Shadow!Write
  <2>2. sReq' \in Chunks \cup {-1} /\ sPortB' \in Seq(Values)
        /\ Len(sPortB') <= OutFIFODepth
    BY <1>1, <2>1, ShadowRequest, RequestType, ShadowTypes DEF Types
  <2>3. sBloom' \in [Chunks -> Values] /\ sResp' \in Chunks \cup {-1}
    BY <2>1, NextChunkIs, ShadowTypes DEF Types
  <2> QED BY <1>1, <2>1, <2>2, <2>3, ShadowTypes DEF Types
<1> QED BY <1>2, <1>3

-----------------------------------------------------------------------------
(* Types of the pair.                                                      *)

LEMMA TypeInit == Init => TypeOK
<1> SUFFICES ASSUME Init PROVE TypeOK
  OBVIOUS
<1>1. 0 \in Chunks /\ {} \in Main!TxnFingerprint /\ 0 <= OutFIFODepth
  BY SummaryAssumption DEF Chunks, Main!TxnFingerprint
<1>2. {} \in Values /\ Main!Parts \X Main!Bits \in Values
  BY DEF Values, Main!BloomChunkParts
<1>3. mBloom \in [Chunks -> Values] /\ sBloom \in [Chunks -> Values]
  BY <1>2, SameOperators DEF Init, Main!Init, Shadow!Init
<1>4. <<>> \in Seq(Values) /\ Len(<<>>) = 0
  BY EmptySeq
<1>5. Main!TypeOK
  BY <1>1, <1>3, <1>4, MainTypes, SameOperators DEF Init, Main!Init, Types
<1>6. Shadow!TypeOK
  BY <1>1, <1>3, <1>4, ShadowTypes, SameOperators DEF Init, Shadow!Init, Types
<1> QED BY <1>5, <1>6 DEF Init, TypeOK

LEMMA TransferType ==
  ASSUME Main!TypeOK, Shadow!TypeOK
  PROVE  /\ Transfer \in BOOLEAN /\ Main!canGet \in BOOLEAN /\ Shadow!canSet \in BOOLEAN
         /\ Transfer => Head(sPortB) \in Values
BY HeadTailProperties, ShadowTypes DEF Types, Transfer, Shadow!canGet, Main!canSet,
   Main!canGet, Shadow!canSet

LEMMA TypeMain ==
  ASSUME TypeOK, MainCycle
  PROVE  Main!TypeOK' /\ isCompat' \in BOOLEAN
<1>1. /\ Main!TypeOK /\ Shadow!TypeOK /\ 0 \in 0..1 /\ 0 <= Len(mPortB)
      /\ \A t \in Fingerprints : t \in Main!TxnFingerprint
  BY LenProperties, MainTypes, FingerprintsAssumption DEF TypeOK, Types
<1>2. ASSUME NEW op, Main!Done(op) PROVE Main!TypeOK'
  BY <1>1, <1>2, MainFinishType DEF Main!Done
<1>3. isCompat' \in BOOLEAN
  BY DEF MainCycle, MainResult, Main!checkResult, Main!checkResultIsGood, TypeOK
<1>4. CASE Main!Internal
  BY <1>3, <1>1, <1>2, <1>4, MainResetType, MainAddType, MainCheckType
     DEF Main!Internal, Main!resetDone, Main!addDone
<1>5. CASE Main!Wait
  BY <1>3, <1>1, <1>5, MainWaitType
<1>6. CASE MainAdd \/ MainCheck
  BY <1>3, <1>1, <1>6, MainStartType DEF MainAdd, MainCheck, Main!txns_put, Main!checks_put
<1>7. CASE Main!Copying(Main!canGet, Transfer, Head(sPortB))
  BY <1>3, <1>1, <1>7, MainCopyType, TransferType
<1>8. CASE Main!Idle
  BY <1>3, <1>1, <1>8 DEF Main!Idle, Main!TypeOK
<1>9. CASE MainResult
  BY <1>3, <1>2, <1>9 DEF MainResult, Main!checks_get
<1> QED BY <1>3, <1>4, <1>5, <1>6, <1>7, <1>8, <1>9 DEF MainCycle, MainBusy

LEMMA TypeShadow ==
  ASSUME TypeOK, ShadowCycle
  PROVE  Shadow!TypeOK'
<1>1. /\ Main!TypeOK /\ Shadow!TypeOK /\ 0 \in 0..1 /\ 0 <= Len(sPortB)
      /\ \A t \in Fingerprints : t \in Main!TxnFingerprint
      /\ {} \in Values
  BY LenProperties, ShadowTypes, FingerprintsAssumption
     DEF TypeOK, Types, Values, Main!BloomChunkParts
<1>2. ASSUME NEW op, Shadow!Done(op) PROVE Shadow!TypeOK'
  BY <1>1, <1>2, ShadowFinishType DEF Shadow!Done
<1>3. CASE Shadow!Internal
  BY <1>1, <1>2, <1>3, ShadowResetType, ShadowAddType, ShadowCheckType
     DEF Shadow!Internal, Shadow!resetDone, Shadow!addDone
<1>4. CASE Shadow!Wait
  BY <1>1, <1>4, ShadowWaitType
<1>5. CASE \E t \in Fingerprints : Shadow!txns_put(t)
  BY <1>1, <1>5, ShadowStartType DEF Shadow!txns_put
<1>6. CASE Shadow!Copying(Transfer, Shadow!canSet, {})
  BY <1>1, <1>6, ShadowCopyType, TransferType
<1>7. CASE Shadow!Idle
  BY <1>1, <1>7 DEF Shadow!Idle, Shadow!TypeOK
<1> QED BY <1>3, <1>4, <1>5, <1>6, <1>7 DEF ShadowCycle

LEMMA TypeNext == TypeOK /\ [Next]_vars => TypeOK'
<1> SUFFICES ASSUME TypeOK, [Next]_vars PROVE TypeOK'
  OBVIOUS
<1>1. CASE Cycle
  <2>1. pmState' \in {"Normal", "Switching"}
    BY <1>1 DEF Cycle, TypeOK
  <2>2. left' \in BOOLEAN
    BY <1>1 DEF Cycle, Remember
  <2> QED BY <1>1, <2>1, <2>2, TypeMain, TypeShadow DEF Cycle, TypeOK
<1>2. CASE startRefresh
  <2>1. {} \in Main!TxnFingerprint
    BY DEF Main!TxnFingerprint
  <2>2. Main!TypeOK' /\ Shadow!TypeOK'
    BY <1>2, <2>1, MainStartType, ShadowStartType
       DEF startRefresh, Main!startCopy, Shadow!startCopy, TypeOK
  <2>3. left' \in BOOLEAN
    BY <1>2 DEF startRefresh, Remember
  <2> QED BY <1>2, <2>2, <2>3 DEF startRefresh, TypeOK
<1>3. CASE UNCHANGED vars
  BY <1>3 DEF vars, Main!vars, Shadow!vars, TypeOK, Main!TypeOK, Shadow!TypeOK
<1> QED BY <1>1, <1>2, <1>3 DEF Next

\* The reads that are outstanding never exceed the depth of the port, and both
\* counters stay in range, also when answers are left over from a check that
\* ended early.
THEOREM TypeCorrect == Spec => []TypeOK
BY TypeInit, TypeNext, PTL DEF Spec

-----------------------------------------------------------------------------
(* What is in the summaries, as long as no answers have been left over.    *)

\* Where a counter is that goes up to the last chunk.
At(c) == IF c = -1 THEN NumBloomChunks ELSE c

\* The answers are those of the chunks from pos on, in order.
Aligned(req, pos, port, filter) ==
  /\ At(req) = pos + Len(port)
  /\ \A i \in 1..Len(port) : port[i] = filter[pos + i - 1]

Cleared(resp, filter) == \A c \in Chunks : c < At(resp) => filter[c] = {}

Added(resp, filter, t) ==
  \A c \in Chunks : c < At(resp) => Main!ChunkBits(c, t) \subseteq filter[c]

\* The bits of t that are set, as checks collect them.
Found(t, filter) ==
  {f \in t \X Main!Parts : <<f[2], f[1][f[2]][2]>> \in filter[f[1][f[2]][1]]}

MainRight ==
  /\ mState = "Resetting" => mReq = -1 /\ mPortB = <<>> /\ Cleared(mResp, mBloom)
  /\ mState = "Adding" => /\ Aligned(mReq, At(mResp), mPortB, mBloom)
                          /\ Added(mResp, mBloom, mTxn)
  /\ mState = "Checking" =>
       /\ mResp # -1 => Aligned(mReq, mResp, mPortB, mBloom)
       /\ mCompat \subseteq Found(mTxn, mBloom)
       /\ \/ mResp = -1 /\ ~ Main!checkResultIsGood(mCompat, mTxn)
          \/ \A f \in Found(mTxn, mBloom) : f[1][f[2]][1] < At(mResp) => f \in mCompat

ShadowRight ==
  /\ sState # "Checking"
  /\ sState = "Resetting" => sReq = -1 /\ sPortB = <<>> /\ Cleared(sResp, sBloom)
  /\ sState = "Adding" => /\ Aligned(sReq, At(sResp), sPortB, sBloom)
                          /\ Added(sResp, sBloom, sTxn)
  /\ sState = "Copying" => Cleared(sResp, sBloom)

\* The copy in lock-step: the shadow clears a chunk and requests it, in the
\* next cycle the main summary takes the answer.
Together ==
  \/ mResp = 0 /\ sResp = 0 /\ sReq = 0 /\ sPortB = <<>>
  \/ mResp # -1 /\ At(sResp) = mResp + 1 /\ sReq = sResp /\ Len(sPortB) = 1

CopyRight ==
  /\ sState = "Copying" => mState = "Copying" /\ Together
  /\ mState = "Copying" /\ sState # "Copying" => mResp = -1

CInv == MainRight /\ ShadowRight /\ CopyRight

-----------------------------------------------------------------------------
LEMMA AtIs ==
  /\ At(-1) = NumBloomChunks /\ NumBloomChunks \in Nat /\ 0 \in Chunks /\ At(0) = 0
  /\ \A c \in Chunks : /\ c \in Nat /\ c < NumBloomChunks /\ At(c) = c /\ c # -1
                       /\ At(Main!NextChunk(c)) = c + 1
  /\ \A c \in Chunks \cup {-1} : At(c) \in 0..NumBloomChunks
BY SummaryAssumption, NextChunkIs DEF At, Chunks

LEMMA RequestAligned ==
  ASSUME NEW req \in Chunks \cup {-1}, NEW port \in Seq(Values),
         NEW filter \in [Chunks -> Values], NEW pos \in Nat,
         NEW taken \in 0..1, taken <= Len(port), NEW newReq, NEW newPort,
         Aligned(req, pos, port, filter),
         Request(req, port, filter, taken, newReq, newPort)
  PROVE  Aligned(newReq, pos + taken, newPort, filter)
<1>. DEFINE rest == SubSeq(port, taken + 1, Len(port))
<1>1. /\ rest \in Seq(Values) /\ Len(rest) = Len(port) - taken /\ Len(port) \in Nat
      /\ \A i \in 1..(Len(port) - taken) : rest[i] = port[i + taken]
  BY RestIs, LenProperties
<1>2. /\ At(req) = pos + Len(port)
      /\ \A i \in 1..Len(port) : port[i] = filter[pos + i - 1]
  BY DEF Aligned
<1>3. \A i \in 1..Len(rest) : rest[i] = filter[(pos + taken) + i - 1]
  <2>1. ASSUME NEW i \in 1..Len(rest) PROVE rest[i] = filter[(pos + taken) + i - 1]
    <3>1. i + taken \in 1..Len(port) /\ pos + (i + taken) - 1 = (pos + taken) + i - 1
      BY <1>1
    <3> QED BY <1>1, <1>2, <3>1
  <2> QED BY <2>1
<1>. HIDE DEF rest
<1>4. CASE req # -1 /\ Len(port) < OutFIFODepth
  <2>1. newPort = Append(rest, filter[req]) /\ newReq = Main!NextChunk(req)
        /\ req \in Chunks /\ filter[req] \in Values
    BY <1>4 DEF Request, rest
  <2>2. /\ newPort \in Seq(Values) /\ Len(newPort) = Len(rest) + 1
        /\ \A i \in 1..Len(rest) : newPort[i] = rest[i]
        /\ newPort[Len(rest) + 1] = filter[req]
    BY <1>1, <2>1, AppendProperties
  <2>3. /\ At(newReq) = req + 1 /\ req = pos + Len(port)
        /\ req = (pos + taken) + (Len(rest) + 1) - 1
    BY <1>1, <1>2, <2>1, AtIs
  <2>4. At(newReq) = (pos + taken) + Len(newPort)
    BY <1>1, <2>2, <2>3
  <2>5. ASSUME NEW i \in 1..Len(newPort) PROVE newPort[i] = filter[(pos + taken) + i - 1]
    <3>1. CASE i \in 1..Len(rest)
      BY <1>3, <2>2, <3>1
    <3>2. CASE i = Len(rest) + 1
      BY <2>2, <2>3, <3>2
    <3> QED BY <1>1, <2>2, <2>5, <3>1, <3>2
  <2> QED BY <2>4, <2>5 DEF Aligned
<1>5. CASE ~(req # -1 /\ Len(port) < OutFIFODepth)
  <2>1. newPort = rest /\ newReq = req
    BY <1>5 DEF Request, rest
  <2>2. At(newReq) = (pos + taken) + Len(newPort)
    BY <1>1, <1>2, <2>1
  <2> QED BY <1>3, <2>1, <2>2 DEF Aligned
<1> QED BY <1>4, <1>5

\* The chunk that has been processed is written, those to come stay.
LEMMA AlignedWrite ==
  ASSUME NEW req \in Chunks \cup {-1}, NEW port \in Seq(Values),
         NEW filter \in [Chunks -> Values], NEW pos \in Chunks, NEW v,
         Aligned(req, pos + 1, port, filter)
  PROVE  Aligned(req, pos + 1, port, [filter EXCEPT ![pos] = v])
<1>1. /\ At(req) = pos + 1 + Len(port) /\ Len(port) \in Nat /\ pos \in Nat
      /\ At(req) <= NumBloomChunks /\ NumBloomChunks \in Nat
      /\ \A i \in 1..Len(port) : port[i] = filter[pos + 1 + i - 1]
  BY AtIs, LenProperties DEF Aligned
<1>2. ASSUME NEW i \in 1..Len(port)
      PROVE  port[i] = [filter EXCEPT ![pos] = v][pos + 1 + i - 1]
  <2>1. pos + 1 + i - 1 \in Chunks /\ pos + 1 + i - 1 # pos
    BY <1>1 DEF Chunks
  <2> QED BY <1>1, <2>1
<1> QED BY <1>1, <1>2 DEF Aligned

LEMMA ClearedWrite ==
  ASSUME NEW resp \in Chunks, NEW filter \in [Chunks -> Values], Cleared(resp, filter)
  PROVE  Cleared(Main!NextChunk(resp), [filter EXCEPT ![resp] = {}])
BY AtIs DEF Cleared

LEMMA AddedWrite ==
  ASSUME NEW resp \in Chunks, NEW filter \in [Chunks -> Values], NEW t, NEW v,
         Added(resp, filter, t)
  PROVE  Added(Main!NextChunk(resp),
               [filter EXCEPT ![resp] = v \cup Main!ChunkBits(resp, t)], t)
<1>. DEFINE new == [filter EXCEPT ![resp] = v \cup Main!ChunkBits(resp, t)]
<1>1. ASSUME NEW c \in Chunks, c < resp + 1 PROVE Main!ChunkBits(c, t) \subseteq new[c]
  <2>1. CASE c = resp
    BY <2>1
  <2>2. CASE c # resp
    <3>1. c < At(resp) /\ new[c] = filter[c]
      BY <1>1, <2>2, AtIs
    <3> QED BY <3>1 DEF Added
  <2> QED BY <2>1, <2>2
<1>. HIDE DEF new
<1>2. Added(Main!NextChunk(resp), new, t)
  BY <1>1, AtIs DEF Added
<1> QED BY <1>2 DEF new

LEMMA MainResetRight ==
  ASSUME Main!TypeOK, Main!doReset,
         mReq = -1 /\ mPortB = <<>> /\ Cleared(mResp, mBloom)
  PROVE  /\ mState' = "Resetting"
         /\ mReq' = -1 /\ mPortB' = <<>> /\ Cleared(mResp, mBloom)'
<1>1. /\ mResp \in Chunks /\ mState' = "Resetting"
      /\ mResp' = Main!NextChunk(mResp)
      /\ mBloom' = [mBloom EXCEPT ![mResp] = {}]
      /\ UNCHANGED <<mReq, mPortB>> /\ mBloom \in [Chunks -> Values]
  BY SameOperators, MainTypes DEF Types, Main!doReset, Main!Write
<1>2. Cleared(mResp', mBloom')
  BY <1>1, ClearedWrite
<1> QED BY <1>1, <1>2 DEF Cleared

LEMMA MainAddRight ==
  ASSUME Main!TypeOK, Main!doAdd_resp,
         Aligned(mReq, At(mResp), mPortB, mBloom), Added(mResp, mBloom, mTxn)
  PROVE  /\ mState' = "Adding" /\ mTxn' = mTxn /\ mResp \in Chunks
         /\ mBloom' = [mBloom EXCEPT ![mResp] =
                           mBloom[mResp] \cup Main!ChunkBits(mResp, mTxn)]
         /\ Aligned(mReq', At(mResp'), mPortB', mBloom')
         /\ Added(mResp', mBloom', mTxn')
<1>1. /\ mResp \in Chunks /\ mState' = "Adding" /\ mPortB # <<>>
      /\ mResp' = Main!NextChunk(mResp)
      /\ mBloom' = [mBloom EXCEPT ![mResp] =
                        Head(mPortB) \cup Main!ChunkBits(mResp, mTxn)]
      /\ mTxn' = mTxn
      /\ Main!requestChunks(1)
  BY SameOperators, InChunkBits, MainTypes DEF Types, Main!doAdd_resp, Main!Write
<1>2. /\ mReq \in Chunks \cup {-1} /\ mPortB \in Seq(Values)
      /\ Len(mPortB) <= OutFIFODepth /\ mBloom \in [Chunks -> Values]
      /\ At(mResp) = mResp /\ At(mResp') = mResp + 1 /\ mResp \in Nat
  BY <1>1, MainTypes, AtIs DEF Types
<1>3. 1 \in 0..1 /\ 1 <= Len(mPortB) /\ Head(mPortB) = mPortB[1]
  BY <1>1, <1>2, LenProperties, EmptySeq
<1>4. Head(mPortB) = mBloom[mResp]
  BY <1>2, <1>3, LenProperties DEF Aligned
<1>5. mReq' \in Chunks \cup {-1} /\ mPortB' \in Seq(Values)
  BY <1>1, <1>2, <1>3, MainRequest, RequestType
<1>6. Aligned(mReq', mResp + 1, mPortB', mBloom)
  BY <1>1, <1>2, <1>3, MainRequest, RequestAligned
<1>7. Aligned(mReq', At(mResp'), mPortB', mBloom')
  <2>. DEFINE v == Head(mPortB) \cup Main!ChunkBits(mResp, mTxn)
  <2>1. mBloom' = [mBloom EXCEPT ![mResp] = v]
    BY <1>1
  <2>. HIDE DEF v
  <2>2. Aligned(mReq', mResp + 1, mPortB', [mBloom EXCEPT ![mResp] = v])
    BY <1>1, <1>2, <1>5, <1>6, AlignedWrite
  <2> QED BY <1>2, <2>1, <2>2
<1>8. Added(mResp', mBloom', mTxn')
  BY <1>1, <1>2, <1>4, AddedWrite
<1> QED BY <1>1, <1>4, <1>7, <1>8

LEMMA MainWaitRight ==
  ASSUME Main!TypeOK, Main!Wait
  PROVE  /\ UNCHANGED <<mState, mTxn, mCompat, mResp, mBloom>>
         /\ mState \in {"Adding", "Checking"}
         /\ Aligned(mReq, At(mResp), mPortB, mBloom)
              => Aligned(mReq', At(mResp'), mPortB', mBloom')
<1>1. /\ mState \in {"Adding", "Checking"} /\ Main!requestChunks(0)
      /\ UNCHANGED <<mState, mTxn, mCompat, mResp, mBloom>>
  BY DEF Main!Wait
<1>2. /\ mReq \in Chunks \cup {-1} /\ mPortB \in Seq(Values)
      /\ mBloom \in [Chunks -> Values] /\ 0 \in 0..1 /\ 0 <= Len(mPortB)
      /\ At(mResp) \in Nat /\ At(mResp) + 0 = At(mResp)
  BY MainTypes, AtIs, LenProperties DEF Types
<1>3. Aligned(mReq, At(mResp), mPortB, mBloom)
        => Aligned(mReq', At(mResp), mPortB', mBloom)
  BY <1>1, <1>2, MainRequest, RequestAligned
<1> QED BY <1>1, <1>3

LEMMA ShadowResetRight ==
  ASSUME Shadow!TypeOK, Shadow!doReset,
         sReq = -1 /\ sPortB = <<>> /\ Cleared(sResp, sBloom)
  PROVE  /\ sState' = "Resetting"
         /\ sReq' = -1 /\ sPortB' = <<>> /\ Cleared(sResp, sBloom)'
<1>1. /\ sResp \in Chunks /\ sState' = "Resetting"
      /\ sResp' = Main!NextChunk(sResp)
      /\ sBloom' = [sBloom EXCEPT ![sResp] = {}]
      /\ UNCHANGED <<sReq, sPortB>> /\ sBloom \in [Chunks -> Values]
  BY SameOperators, ShadowTypes DEF Types, Shadow!doReset, Shadow!Write
<1>2. Cleared(sResp', sBloom')
  BY <1>1, ClearedWrite
<1> QED BY <1>1, <1>2 DEF Cleared

LEMMA ShadowAddRight ==
  ASSUME Shadow!TypeOK, Shadow!doAdd_resp,
         Aligned(sReq, At(sResp), sPortB, sBloom), Added(sResp, sBloom, sTxn)
  PROVE  /\ sState' = "Adding" /\ sTxn' = sTxn /\ sResp \in Chunks
         /\ sBloom' = [sBloom EXCEPT ![sResp] =
                           sBloom[sResp] \cup Main!ChunkBits(sResp, sTxn)]
         /\ Aligned(sReq', At(sResp'), sPortB', sBloom')
         /\ Added(sResp', sBloom', sTxn')
<1>1. /\ sResp \in Chunks /\ sState' = "Adding" /\ sPortB # <<>>
      /\ sResp' = Main!NextChunk(sResp)
      /\ sBloom' = [sBloom EXCEPT ![sResp] =
                        Head(sPortB) \cup Main!ChunkBits(sResp, sTxn)]
      /\ sTxn' = sTxn
      /\ Shadow!requestChunks(1)
  BY SameOperators, InChunkBits, ShadowTypes DEF Types, Shadow!doAdd_resp, Shadow!Write
<1>2. /\ sReq \in Chunks \cup {-1} /\ sPortB \in Seq(Values)
      /\ Len(sPortB) <= OutFIFODepth /\ sBloom \in [Chunks -> Values]
      /\ At(sResp) = sResp /\ At(sResp') = sResp + 1 /\ sResp \in Nat
  BY <1>1, ShadowTypes, AtIs DEF Types
<1>3. 1 \in 0..1 /\ 1 <= Len(sPortB) /\ Head(sPortB) = sPortB[1]
  BY <1>1, <1>2, LenProperties, EmptySeq
<1>4. Head(sPortB) = sBloom[sResp]
  BY <1>2, <1>3, LenProperties DEF Aligned
<1>5. sReq' \in Chunks \cup {-1} /\ sPortB' \in Seq(Values)
  BY <1>1, <1>2, <1>3, ShadowRequest, RequestType
<1>6. Aligned(sReq', sResp + 1, sPortB', sBloom)
  BY <1>1, <1>2, <1>3, ShadowRequest, RequestAligned
<1>7. Aligned(sReq', At(sResp'), sPortB', sBloom')
  <2>. DEFINE v == Head(sPortB) \cup Main!ChunkBits(sResp, sTxn)
  <2>1. sBloom' = [sBloom EXCEPT ![sResp] = v]
    BY <1>1
  <2>. HIDE DEF v
  <2>2. Aligned(sReq', sResp + 1, sPortB', [sBloom EXCEPT ![sResp] = v])
    BY <1>1, <1>2, <1>5, <1>6, AlignedWrite
  <2> QED BY <1>2, <2>1, <2>2
<1>8. Added(sResp', sBloom', sTxn')
  BY <1>1, <1>2, <1>4, AddedWrite
<1> QED BY <1>1, <1>4, <1>7, <1>8

LEMMA ShadowWaitRight ==
  ASSUME Shadow!TypeOK, Shadow!Wait
  PROVE  /\ UNCHANGED <<sState, sTxn, sCompat, sResp, sBloom>>
         /\ sState \in {"Adding", "Checking"}
         /\ Aligned(sReq, At(sResp), sPortB, sBloom)
              => Aligned(sReq', At(sResp'), sPortB', sBloom')
<1>1. /\ sState \in {"Adding", "Checking"} /\ Shadow!requestChunks(0)
      /\ UNCHANGED <<sState, sTxn, sCompat, sResp, sBloom>>
  BY DEF Shadow!Wait
<1>2. /\ sReq \in Chunks \cup {-1} /\ sPortB \in Seq(Values)
      /\ sBloom \in [Chunks -> Values] /\ 0 \in 0..1 /\ 0 <= Len(sPortB)
      /\ At(sResp) \in Nat /\ At(sResp) + 0 = At(sResp)
  BY ShadowTypes, AtIs, LenProperties DEF Types
<1>3. Aligned(sReq, At(sResp), sPortB, sBloom)
        => Aligned(sReq', At(sResp), sPortB', sBloom)
  BY <1>1, <1>2, ShadowRequest, RequestAligned
<1> QED BY <1>1, <1>3

-----------------------------------------------------------------------------
(* The main summary.                                                       *)

\* Nothing is outstanding when an operation starts, and all is to come.
LEMMA StartRight ==
  ASSUME NEW filter, NEW t
  PROVE  Aligned(0, At(0), <<>>, filter) /\ Added(0, filter, t)
<1>1. Len(<<>>) = 0 /\ At(0) = 0
  BY AtIs, EmptySeq
<1> QED BY <1>1, AtIs DEF Aligned, Added

LEMMA FoundChunk ==
  ASSUME NEW t \in Main!TxnFingerprint, NEW filter, NEW f \in t \X Main!Parts
  PROVE  /\ f[1] \in t /\ f[2] \in Main!Parts
         /\ f[1][f[2]][1] \in Chunks
         /\ f[1][f[2]] = <<f[1][f[2]][1], f[1][f[2]][2]>>
<1>1. f[1] \in [Main!Parts -> Main!Chunks \X Main!Bits] /\ f[2] \in Main!Parts /\ f[1] \in t
  BY DEF Main!TxnFingerprint, Main!BloomLocation
<1>2. f[1][f[2]] \in Main!Chunks \X Main!Bits
  BY <1>1
<1> QED BY <1>1, <1>2, SameOperators

\* A cycle in which a check takes an answer.
LEMMA CheckStep ==
  ASSUME Main!TypeOK, MainRight, Main!doCheck_resp
  PROVE  /\ mResp \in Chunks /\ mState' = "Checking" /\ mTxn' = mTxn /\ mBloom' = mBloom
         /\ mCompat' = mCompat \cup
              {f \in Found(mTxn, mBloom) : f[1][f[2]][1] = mResp}
         /\ \/ mResp' = Main!NextChunk(mResp)
            \/ mResp' = -1 /\ ~ Main!checkResultIsGood(mCompat', mTxn')
         /\ Aligned(mReq', mResp + 1, mPortB', mBloom')
<1>1. /\ mResp \in Chunks /\ mState = "Checking" /\ mState' = "Checking"
      /\ mPortB # <<>> /\ mTxn' = mTxn /\ mBloom' = mBloom
      /\ mCompat' = mCompat \cup Main!ChunkFound(Head(mPortB), mResp, mTxn)
      /\ mResp' = IF Main!checkResultIsGood(mCompat', mTxn)
                  THEN Main!NextChunk(mResp) ELSE -1
      /\ Main!requestChunks(1)
  BY SameOperators, MainTypes DEF Types, Main!doCheck_resp
<1>2. /\ mReq \in Chunks \cup {-1} /\ mPortB \in Seq(Values)
      /\ Len(mPortB) <= OutFIFODepth /\ mBloom \in [Chunks -> Values]
      /\ mResp \in Nat /\ mResp # -1
      /\ Aligned(mReq, mResp, mPortB, mBloom)
  BY <1>1, MainTypes, AtIs DEF Types, MainRight
<1>3. 1 \in 0..1 /\ 1 <= Len(mPortB) /\ Head(mPortB) = mPortB[1]
  BY <1>1, <1>2, LenProperties, EmptySeq
<1>4. Head(mPortB) = mBloom[mResp]
  BY <1>2, <1>3, LenProperties DEF Aligned
<1>5. Main!ChunkFound(mBloom[mResp], mResp, mTxn)
        = {f \in Found(mTxn, mBloom) : f[1][f[2]][1] = mResp}
  BY DEF Main!ChunkFound, Found
<1>6. Aligned(mReq', mResp + 1, mPortB', mBloom)
  BY <1>1, <1>2, <1>3, MainRequest, RequestAligned
<1> QED BY <1>1, <1>4, <1>5, <1>6

LEMMA RightMain ==
  ASSUME TypeOK, MainRight, NoStaleAnswers, MainCycle
  PROVE  MainRight'
<1>1. /\ Main!TypeOK /\ 0 \in Nat
      /\ Main!isFree => mPortB = <<>>
  BY DEF TypeOK, NoStaleAnswers
<1>2. CASE Main!doReset
  <2>1. mReq = -1 /\ mPortB = <<>> /\ Cleared(mResp, mBloom)
    BY <1>2 DEF MainRight, Main!doReset
  <2> QED BY <1>1, <1>2, <2>1, MainResetRight DEF MainRight
<1>3. CASE \E op : Main!Done(op)
  BY <1>3 DEF Main!Done, Main!Finish, MainRight
<1>4. CASE Main!doAdd_resp
  <2>1. Aligned(mReq, At(mResp), mPortB, mBloom) /\ Added(mResp, mBloom, mTxn)
    BY <1>4 DEF MainRight, Main!doAdd_resp
  <2>2. /\ mState' = "Adding"
        /\ Aligned(mReq', At(mResp'), mPortB', mBloom') /\ Added(mResp', mBloom', mTxn')
    BY <1>1, <1>4, <2>1, MainAddRight
  <2> QED BY <2>2 DEF MainRight, At
<1>5. CASE Main!doCheck_resp
  <2>1. /\ mState = "Checking" /\ mResp # -1
        /\ mCompat \subseteq Found(mTxn, mBloom)
        /\ \A f \in Found(mTxn, mBloom) : f[1][f[2]][1] < mResp => f \in mCompat
    BY <1>5, SameOperators DEF MainRight, Main!doCheck_resp, At
  <2>2. /\ mResp \in Chunks /\ mState' = "Checking" /\ mTxn' = mTxn /\ mBloom' = mBloom
        /\ mCompat' = mCompat \cup
             {f \in Found(mTxn, mBloom) : f[1][f[2]][1] = mResp}
        /\ \/ mResp' = Main!NextChunk(mResp)
           \/ mResp' = -1 /\ ~ Main!checkResultIsGood(mCompat', mTxn')
        /\ Aligned(mReq', mResp + 1, mPortB', mBloom')
    BY <1>1, <1>5, CheckStep
  <2>3. mCompat' \subseteq Found(mTxn', mBloom')
    BY <2>1, <2>2
  <2>4. mResp' # -1 => Aligned(mReq', mResp', mPortB', mBloom')
    <3>1. mResp' # -1 => mResp' = mResp + 1
      BY <2>2, NextChunkIs
    <3> QED BY <2>2, <3>1
  <2>5. \/ mResp' = -1 /\ ~ Main!checkResultIsGood(mCompat', mTxn')
        \/ \A f \in Found(mTxn', mBloom') : f[1][f[2]][1] < At(mResp') => f \in mCompat'
    <3>1. SUFFICES ASSUME mResp' = Main!NextChunk(mResp),
                          NEW f \in Found(mTxn, mBloom), f[1][f[2]][1] < mResp + 1
                   PROVE  f \in mCompat'
      BY <2>2, AtIs
    <3>2. f[1][f[2]][1] \in Chunks
      BY <1>1, FoundChunk, MainTypes DEF Types, Found
    <3>3. f[1][f[2]][1] = mResp \/ f[1][f[2]][1] < mResp
      BY <2>2, <3>1, <3>2, AtIs
    <3>4. CASE f[1][f[2]][1] = mResp
      BY Zenon, <2>2, <3>4
    <3>5. CASE f[1][f[2]][1] < mResp
      BY Zenon, <2>1, <2>2, <3>5
    <3> QED BY <3>3, <3>4, <3>5
  <2> QED BY <2>2, <2>3, <2>4, <2>5 DEF MainRight
<1>6. CASE Main!Wait
  <2>1. /\ UNCHANGED <<mState, mTxn, mCompat, mResp, mBloom>>
        /\ mState \in {"Adding", "Checking"}
        /\ Aligned(mReq, At(mResp), mPortB, mBloom)
             => Aligned(mReq', At(mResp'), mPortB', mBloom')
    BY <1>1, <1>6, MainWaitRight
  <2>2. CASE mState = "Adding"
    BY <2>1, <2>2 DEF MainRight, Added, At
  <2>3. CASE mState = "Checking"
    <3>1. mResp # -1 => At(mResp) = mResp
      BY DEF At
    <3>2. mResp' # -1 => Aligned(mReq', mResp', mPortB', mBloom')
      BY <2>1, <2>3, <3>1 DEF MainRight
    <3> QED BY <2>1, <2>3, <3>2 DEF MainRight, Main!checkResultIsGood
  <2> QED BY <2>1, <2>2, <2>3
<1>7. CASE \E op \in {"Adding", "Checking"}, t \in Fingerprints : Main!Start(op, t)
  <2>1. PICK op \in {"Adding", "Checking"}, t \in Main!TxnFingerprint : Main!Start(op, t)
    BY <1>7, FingerprintsAssumption
  <2>2. /\ mState' = op /\ mTxn' = t /\ mCompat' = {} /\ mReq' = 0 /\ mResp' = 0
        /\ mBloom' = mBloom /\ mPortB' = <<>>
    BY <1>1, <2>1 DEF Main!Start, Main!isFree
  <2>3. /\ Aligned(mReq', At(mResp'), mPortB', mBloom') /\ Added(mResp', mBloom', mTxn')
        /\ Aligned(mReq', mResp', mPortB', mBloom') /\ At(mResp') = 0
    BY <2>2, StartRight, AtIs
  <2>4. \A f \in Found(mTxn', mBloom') : ~ (f[1][f[2]][1] < 0)
    <3>1. ASSUME NEW f \in Found(t, mBloom') PROVE ~ (f[1][f[2]][1] < 0)
      <4>1. f[1][f[2]][1] \in Chunks
        BY FoundChunk DEF Found
      <4> QED BY <4>1, AtIs
    <3> QED BY <2>2, <3>1
  <2> QED BY <2>2, <2>3, <2>4 DEF MainRight
<1>8. CASE Main!Copying(Main!canGet, Transfer, Head(sPortB))
  BY <1>8 DEF Main!Copying, Main!Finish, MainRight
<1>9. CASE Main!Idle
  BY <1>9 DEF Main!Idle, MainRight
<1> QED
  BY <1>2, <1>3, <1>4, <1>5, <1>6, <1>7, <1>8, <1>9
     DEF MainCycle, MainBusy, MainResult, MainAdd, MainCheck, Main!Internal,
         Main!resetDone, Main!addDone, Main!checks_get, Main!txns_put, Main!checks_put

-----------------------------------------------------------------------------
(* The copy.  The first cycle requests a chunk and clears it, each further *)
(* one also hands an answer over; the shadow summary is done one cycle     *)
(* before the main one.                                                    *)

LEMMA MainCopies ==
  ASSUME Main!TypeOK, Shadow!TypeOK, mState = "Copying", MainCycle
  PROVE  /\ Main!Copying(Main!canGet, Transfer, Head(sPortB)) /\ UNCHANGED isCompat
         /\ mResp = -1 => mState' = "Free" /\ mBloom' = mBloom
         /\ mResp # -1 =>
              /\ mState' = "Copying" /\ mResp \in Chunks
              /\ Transfer => /\ mBloom' = [mBloom EXCEPT ![mResp] = Head(sPortB)]
                             /\ mResp' = Main!NextChunk(mResp)
              /\ ~ Transfer => mBloom' = mBloom /\ mResp' = mResp
<1>1. Main!Copying(Main!canGet, Transfer, Head(sPortB)) /\ UNCHANGED isCompat
  BY DEF MainCycle, MainBusy, MainResult, MainAdd, MainCheck, Main!Internal, Main!Wait,
         Main!resetDone, Main!addDone, Main!checks_get, Main!txns_put, Main!checks_put,
         Main!doReset, Main!doAdd_resp, Main!doCheck_resp, Main!Done, Main!Start, Main!Idle
<1>2. mResp # -1 => mResp \in Chunks
  BY MainTypes DEF Types
<1> QED BY <1>1, <1>2, SameOperators DEF Main!Copying, Main!Finish, Main!Write

LEMMA ShadowCopies ==
  ASSUME Main!TypeOK, Shadow!TypeOK, sState = "Copying", ShadowCycle
  PROVE  /\ sResp = -1 =>
              /\ sState' = "Free" /\ sBloom' = sBloom
              /\ sPortB' = SubSeq(sPortB, (IF Transfer THEN 1 ELSE 0) + 1, Len(sPortB))
         /\ sResp # -1 =>
              /\ sState' = "Copying" /\ sResp \in Chunks
              /\ sBloom' = [sBloom EXCEPT ![sResp] = {}]
              /\ sResp' = Main!NextChunk(sResp)
              /\ Request(sReq, sPortB, sBloom, IF Transfer THEN 1 ELSE 0, sReq', sPortB')
<1>1. Shadow!Copying(Transfer, Shadow!canSet, {})
  BY DEF ShadowCycle, Shadow!Internal, Shadow!Wait, Shadow!resetDone, Shadow!addDone,
         Shadow!txns_put, Shadow!doReset, Shadow!doAdd_resp, Shadow!doCheck_resp,
         Shadow!Done, Shadow!Start, Shadow!Idle
<1>2. sResp # -1 => sResp \in Chunks
  BY ShadowTypes DEF Types
<1>3. sResp = -1 =>
        /\ sState' = "Free" /\ sBloom' = sBloom
        /\ sPortB' = SubSeq(sPortB, (IF Transfer THEN 1 ELSE 0) + 1, Len(sPortB))
  BY <1>1, SameOperators DEF Shadow!Copying, Shadow!Finish
<1>4. sResp # -1 =>
        /\ sState' = "Copying" /\ sBloom' = [sBloom EXCEPT ![sResp] = {}]
        /\ sResp' = Main!NextChunk(sResp)
        /\ Shadow!requestChunks(IF Transfer THEN 1 ELSE 0)
  BY <1>1, SameOperators DEF Shadow!Copying, Shadow!Write, Shadow!canSet
<1>5. sResp # -1 =>
        Request(sReq, sPortB, sBloom, IF Transfer THEN 1 ELSE 0, sReq', sPortB')
  BY <1>4, ShadowRequest
<1> QED BY <1>2, <1>3, <1>4, <1>5

\* The first cycle of a copy.
LEMMA CopyBegins ==
  ASSUME TypeOK, mState = "Copying", sState = "Copying", MainCycle, ShadowCycle,
         mResp = 0 /\ sResp = 0 /\ sReq = 0 /\ sPortB = <<>>
  PROVE  /\ mState' = "Copying" /\ mResp' = 0 /\ mBloom' = mBloom
         /\ sState' = "Copying" /\ sBloom' = [sBloom EXCEPT ![0] = {}]
         /\ sResp' = Main!NextChunk(0) /\ sReq' = sResp'
         /\ sPortB' = <<sBloom[0]>>
<1>1. /\ Main!TypeOK /\ Shadow!TypeOK /\ ~ Transfer /\ Len(sPortB) = 0 /\ 0 # -1
      /\ SubSeq(sPortB, 0 + 1, Len(sPortB)) = <<>>
  BY EmptySeq DEF TypeOK, Transfer, Shadow!canGet
<1>2. /\ Request(sReq, sPortB, sBloom, 0, sReq', sPortB')
      /\ mState' = "Copying" /\ mResp' = 0 /\ mBloom' = mBloom
      /\ sState' = "Copying" /\ sBloom' = [sBloom EXCEPT ![0] = {}]
      /\ sResp' = Main!NextChunk(0)
  BY <1>1, MainCopies, ShadowCopies
<1>3. sPortB' = Append(<<>>, sBloom[0]) /\ sReq' = Main!NextChunk(0)
  BY <1>1, <1>2, SummaryAssumption DEF Request
<1> QED BY <1>2, <1>3

\* A further one.
LEMMA CopyGoesOn ==
  ASSUME TypeOK, mState = "Copying", sState = "Copying", MainCycle, ShadowCycle,
         OutFIFODepth >= 2,
         mResp # -1 /\ At(sResp) = mResp + 1 /\ sReq = sResp /\ Len(sPortB) = 1
  PROVE  /\ mState' = "Copying" /\ mResp \in Chunks
         /\ mResp' = Main!NextChunk(mResp)
         /\ mBloom' = [mBloom EXCEPT ![mResp] = sPortB[1]]
         /\ sResp = -1 => /\ sState' = "Free" /\ sBloom' = sBloom /\ sPortB' = <<>>
                          /\ mResp' = -1
         /\ sResp # -1 => /\ sResp \in Chunks /\ sState' = "Copying" /\ mResp' = sResp
                          /\ sBloom' = [sBloom EXCEPT ![sResp] = {}]
                          /\ sResp' = Main!NextChunk(sResp) /\ sReq' = sResp'
                          /\ sPortB' = <<sBloom[sResp]>>
<1>0. /\ Main!TypeOK /\ Shadow!TypeOK /\ sPortB \in Seq(Values)
      /\ mResp \in Chunks /\ sResp \in Chunks \cup {-1}
  BY MainTypes, ShadowTypes DEF TypeOK, Types
<1>1. /\ sPortB # <<>> /\ Head(sPortB) = sPortB[1]
      /\ SubSeq(sPortB, 1 + 1, Len(sPortB)) = <<>>
  BY <1>0, EmptySeq, SubSeqEmpty
<1>2. Transfer
  BY <1>0, <1>1, SameOperators DEF Transfer, Shadow!canGet, Main!canSet
<1>3. /\ mState' = "Copying" /\ mResp \in Chunks
      /\ mResp' = Main!NextChunk(mResp)
      /\ mBloom' = [mBloom EXCEPT ![mResp] = sPortB[1]]
  BY <1>0, <1>1, <1>2, MainCopies
<1>4. CASE sResp = -1
  <2>1. mResp' = -1
    BY <1>0, <1>1, <1>3, <1>4, NextChunkIs, AtIs
  <2> QED BY <1>0, <1>1, <1>2, <1>3, <1>4, <2>1, ShadowCopies
<1>5. CASE sResp # -1
  <2>1. mResp' = sResp
    BY <1>0, <1>1, <1>3, <1>5, NextChunkIs, AtIs
  <2>2. /\ sState' = "Copying" /\ sResp \in Chunks
        /\ sBloom' = [sBloom EXCEPT ![sResp] = {}]
        /\ sResp' = Main!NextChunk(sResp)
        /\ Request(sReq, sPortB, sBloom, 1, sReq', sPortB')
    BY <1>0, <1>1, <1>2, <1>5, ShadowCopies
  <2>3. sPortB' = Append(<<>>, sBloom[sResp]) /\ sReq' = Main!NextChunk(sResp)
    BY <1>0, <1>1, <1>5, <2>2, SummaryAssumption DEF Request
  <2> QED BY <1>3, <1>5, <2>1, <2>2, <2>3
<1> QED BY <1>4, <1>5

LEMMA RightCopy ==
  ASSUME TypeOK, CopyRight, sState # "Checking", OutFIFODepth >= 2, MainCycle, ShadowCycle
  PROVE  CopyRight'
<1>0. Main!TypeOK /\ Shadow!TypeOK
  BY DEF TypeOK
<1>1. CASE mState = "Copying" /\ sState = "Copying" /\ mResp = 0 /\ sResp = 0 /\ sReq = 0
           /\ sPortB = <<>>
  <2>1. /\ mState' = "Copying" /\ mResp' = 0 /\ sState' = "Copying"
        /\ sResp' = Main!NextChunk(0) /\ sReq' = sResp' /\ sPortB' = <<sBloom[0]>>
    BY <1>1, CopyBegins
  <2>2. At(sResp') = mResp' + 1 /\ Len(sPortB') = 1 /\ mResp' # -1
    BY <2>1, AtIs
  <2> QED BY <2>1, <2>2 DEF CopyRight, Together, At
<1>2. CASE /\ mState = "Copying" /\ sState = "Copying"
           /\ mResp # -1 /\ At(sResp) = mResp + 1 /\ sReq = sResp /\ Len(sPortB) = 1
  <2>1. CASE sResp = -1
    <3>1. mState' = "Copying" /\ sState' = "Free" /\ mResp' = -1
      BY <1>2, <2>1, CopyGoesOn
    <3> QED BY <3>1 DEF CopyRight
  <2>2. CASE sResp # -1
    <3>1. /\ mState' = "Copying" /\ sState' = "Copying" /\ mResp' = sResp /\ sResp \in Chunks
          /\ sResp' = Main!NextChunk(sResp) /\ sReq' = sResp'
          /\ sPortB' = <<sBloom[sResp]>>
      BY <1>2, <2>2, CopyGoesOn
    <3>2. At(sResp') = mResp' + 1 /\ Len(sPortB') = 1
      BY <3>1, AtIs
    <3> QED BY <2>2, <3>1, <3>2 DEF CopyRight, Together, At
  <2> QED BY <2>1, <2>2
<1>3. sState # "Copying" => sState' # "Copying"
  BY DEF ShadowCycle, Shadow!Internal, Shadow!Wait, Shadow!resetDone, Shadow!addDone,
         Shadow!txns_put, Shadow!doReset, Shadow!doAdd_resp, Shadow!doCheck_resp,
         Shadow!Done, Shadow!Finish, Shadow!Start, Shadow!Idle, Shadow!Copying
<1>4. CASE mState = "Copying" /\ sState # "Copying"
  <2>1. mState' = "Free"
    BY <1>0, <1>4, MainCopies DEF CopyRight
  <2> QED BY <1>3, <1>4, <2>1 DEF CopyRight
<1>5. CASE mState # "Copying"
  <2>1. mState' # "Copying"
    BY <1>5
       DEF MainCycle, MainBusy, MainResult, MainAdd, MainCheck, Main!Internal, Main!Wait,
           Main!resetDone, Main!addDone, Main!checks_get, Main!txns_put, Main!checks_put,
           Main!doReset, Main!doAdd_resp, Main!doCheck_resp, Main!Done, Main!Start,
           Main!Finish, Main!Idle, Main!Copying
  <2> QED BY <1>3, <1>5, <2>1 DEF CopyRight
<1> QED BY <1>1, <1>2, <1>4, <1>5 DEF CopyRight, Together

LEMMA RightShadow ==
  ASSUME TypeOK, ShadowRight, NoStaleAnswers, ShadowCycle
  PROVE  ShadowRight'
<1>1. /\ Main!TypeOK /\ Shadow!TypeOK /\ sState # "Checking"
      /\ Shadow!isFree => sPortB = <<>>
  BY DEF TypeOK, NoStaleAnswers, ShadowRight
<1>2. CASE Shadow!doReset
  <2>1. sReq = -1 /\ sPortB = <<>> /\ Cleared(sResp, sBloom)
    BY <1>2 DEF ShadowRight, Shadow!doReset
  <2> QED BY <1>1, <1>2, <2>1, ShadowResetRight DEF ShadowRight
<1>3. CASE \E op : Shadow!Done(op)
  BY <1>3 DEF Shadow!Done, Shadow!Finish, ShadowRight
<1>4. CASE Shadow!doAdd_resp
  <2>1. Aligned(sReq, At(sResp), sPortB, sBloom) /\ Added(sResp, sBloom, sTxn)
    BY <1>4 DEF ShadowRight, Shadow!doAdd_resp
  <2>2. /\ sState' = "Adding"
        /\ Aligned(sReq', At(sResp'), sPortB', sBloom') /\ Added(sResp', sBloom', sTxn')
    BY <1>1, <1>4, <2>1, ShadowAddRight
  <2> QED BY <2>2 DEF ShadowRight, At
<1>5. CASE Shadow!doCheck_resp
  BY <1>1, <1>5 DEF Shadow!doCheck_resp
<1>6. CASE Shadow!Wait
  <2>1. /\ UNCHANGED <<sState, sTxn, sCompat, sResp, sBloom>>
        /\ sState \in {"Adding", "Checking"}
        /\ Aligned(sReq, At(sResp), sPortB, sBloom)
             => Aligned(sReq', At(sResp'), sPortB', sBloom')
    BY <1>1, <1>6, ShadowWaitRight
  <2> QED BY <1>1, <2>1 DEF ShadowRight, Added, At
<1>7. CASE \E t \in Fingerprints : Shadow!txns_put(t)
  <2>1. PICK t \in Fingerprints :
          /\ sState' = "Adding" /\ sTxn' = t /\ sReq' = 0 /\ sResp' = 0
          /\ sBloom' = sBloom /\ sPortB' = <<>>
    BY <1>1, <1>7 DEF Shadow!txns_put, Shadow!Start, Shadow!isFree
  <2>2. Aligned(sReq', At(sResp'), sPortB', sBloom') /\ Added(sResp', sBloom', sTxn')
    BY <2>1, StartRight, AtIs
  <2> QED BY <2>1, <2>2 DEF ShadowRight
<1>8. CASE Shadow!Copying(Transfer, Shadow!canSet, {})
  <2>1. sState = "Copying"
    BY <1>8 DEF Shadow!Copying
  <2>2. CASE sResp = -1
    BY <1>1, <2>1, <2>2, ShadowCopies DEF ShadowRight
  <2>3. CASE sResp # -1
    <3>1. /\ sState' = "Copying" /\ sResp \in Chunks
          /\ sBloom' = [sBloom EXCEPT ![sResp] = {}]
          /\ sResp' = Main!NextChunk(sResp) /\ sBloom \in [Chunks -> Values]
      BY <1>1, <2>1, <2>3, ShadowCopies, ShadowTypes DEF Types
    <3>2. Cleared(sResp', sBloom')
      BY <2>1, <3>1, ClearedWrite DEF ShadowRight
    <3> QED BY <3>1, <3>2 DEF ShadowRight
  <2> QED BY <2>2, <2>3
<1>9. CASE Shadow!Idle
  BY <1>1, <1>9 DEF Shadow!Idle, ShadowRight
<1> QED
  BY <1>2, <1>3, <1>4, <1>5, <1>6, <1>7, <1>8, <1>9
     DEF ShadowCycle, Shadow!Internal, Shadow!resetDone, Shadow!addDone

LEMMA RightInit == Init => CInv
<1> SUFFICES ASSUME Init PROVE CInv
  OBVIOUS
<1>1. /\ mState = "Resetting" /\ mReq = -1 /\ mResp = 0 /\ mPortB = <<>>
      /\ sState = "Resetting" /\ sReq = -1 /\ sResp = 0 /\ sPortB = <<>>
  BY SameOperators DEF Init, Main!Init, Shadow!Init
<1>2. Cleared(0, mBloom) /\ Cleared(0, sBloom)
  BY AtIs DEF Cleared
<1> QED BY <1>1, <1>2 DEF CInv, MainRight, ShadowRight, CopyRight

LEMMA RightNext ==
  ASSUME OutFIFODepth >= 2
  PROVE  TypeOK /\ CInv /\ NoStaleAnswers /\ [Next]_vars => CInv'
<1> SUFFICES ASSUME TypeOK, CInv, NoStaleAnswers, [Next]_vars PROVE CInv'
  OBVIOUS
<1>1. CASE Cycle
  BY <1>1, RightMain, RightShadow, RightCopy DEF Cycle, CInv, ShadowRight
<1>2. CASE startRefresh
  <2>1. /\ mState' = "Copying" /\ sState' = "Copying" /\ mResp' = 0 /\ sResp' = 0
        /\ sReq' = 0 /\ sPortB' = <<>>
    BY <1>2 DEF startRefresh, Main!startCopy, Shadow!startCopy, Main!Start, Shadow!Start,
                NoStaleAnswers, Shadow!isFree
  <2>2. Cleared(sResp', sBloom')
    BY <2>1, AtIs DEF Cleared
  <2> QED BY <2>1, <2>2 DEF CInv, MainRight, ShadowRight, CopyRight, Together
<1>3. CASE UNCHANGED vars
  BY <1>3 DEF vars, Main!vars, Shadow!vars, CInv, MainRight, ShadowRight, CopyRight,
              Together, Cleared, Main!checkResultIsGood
<1> QED BY <1>1, <1>2, <1>3 DEF Next

Known == left \/ (CInv /\ NoStaleAnswers)

LEMMA KnownInit == Init => Known
BY RightInit DEF Known, Init, Main!Init, Shadow!Init, NoStaleAnswers, Main!isFree,
   Shadow!isFree

\* A step after which no answers have been left over starts from a state in
\* which none had been, and leaves none.
LEMMA NotLeft ==
  ASSUME Known, [Next]_vars, ~ left'
  PROVE  CInv /\ NoStaleAnswers /\ NoStaleAnswers'
<1>1. CASE Next
  BY <1>1 DEF Next, Cycle, startRefresh, Remember, Known
<1>2. CASE UNCHANGED vars
  BY <1>2 DEF vars, Main!vars, Shadow!vars, Known, NoStaleAnswers, Main!isFree,
              Shadow!isFree
<1> QED BY <1>1, <1>2

LEMMA KnownNext ==
  ASSUME OutFIFODepth >= 2
  PROVE  TypeOK /\ Known /\ [Next]_vars => Known'
<1> SUFFICES ASSUME TypeOK, Known, [Next]_vars, ~ left'
             PROVE  CInv' /\ NoStaleAnswers'
  BY DEF Known
<1> QED BY NotLeft, RightNext

\* What the summaries hold is right until answers are left over, whatever the
\* fingerprints: in this way only can a check that ended early do harm.
THEOREM RightUntilLeft ==
  ASSUME OutFIFODepth >= 2
  PROVE  Spec => []Known
<1> QED BY KnownInit, KnownNext, TypeCorrect, PTL DEF Spec

-----------------------------------------------------------------------------
(* Filters as sets of bits.                                                *)

LEMMA InContents ==
  ASSUME NEW parts \in [Chunks -> Values], NEW x
  PROVE  x \in Contents(parts) <=>
           \E j \in Main!Parts, c \in Chunks, b \in Main!Bits :
             x = <<j, <<c, b>>>> /\ <<j, b>> \in parts[c]
<1>1. \A c \in Chunks : parts[c] \subseteq Main!Parts \X Main!Bits
  BY DEF Values, Main!BloomChunkParts
<1>2. ASSUME x \in Contents(parts)
      PROVE  \E j \in Main!Parts, c \in Chunks, b \in Main!Bits :
               x = <<j, <<c, b>>>> /\ <<j, b>> \in parts[c]
  <2>1. PICK c \in Chunks : x \in {<<f[1], <<c, f[2]>>>> : f \in parts[c]}
    BY <1>2, SameOperators DEF Contents
  <2>2. PICK f \in parts[c] : x = <<f[1], <<c, f[2]>>>>
    BY <2>1
  <2>3. f[1] \in Main!Parts /\ f[2] \in Main!Bits /\ f = <<f[1], f[2]>>
    BY <1>1
  <2> QED BY <2>2, <2>3
<1>3. ASSUME NEW j \in Main!Parts, NEW c \in Chunks, NEW b \in Main!Bits,
             x = <<j, <<c, b>>>>, <<j, b>> \in parts[c]
      PROVE  x \in Contents(parts)
  <2>1. x \in {<<f[1], <<c, f[2]>>>> : f \in parts[c]}
    BY <1>3
  <2> QED BY <1>3, <2>1, SameOperators DEF Contents
<1> QED BY <1>2, <1>3

LEMMA InFpBits ==
  ASSUME NEW t, NEW x
  PROVE  x \in FpBits(t) <=> \E j \in Main!Parts, loc \in t : x = <<j, loc[j]>>
BY DEF FpBits

LEMMA LocationIs ==
  ASSUME NEW t \in Main!TxnFingerprint, NEW loc \in t, NEW j \in Main!Parts
  PROVE  loc[j][1] \in Chunks /\ loc[j][2] \in Main!Bits /\ loc[j] = <<loc[j][1], loc[j][2]>>
<1>1. loc \in [Main!Parts -> Main!Chunks \X Main!Bits]
  BY DEF Main!TxnFingerprint, Main!BloomLocation
<1>2. loc[j] \in Main!Chunks \X Main!Bits
  BY <1>1
<1> QED BY <1>2, SameOperators

LEMMA BitInContents ==
  ASSUME NEW parts \in [Chunks -> Values], NEW t \in Main!TxnFingerprint,
         NEW loc \in t, NEW j \in Main!Parts
  PROVE  <<j, loc[j]>> \in Contents(parts) <=> <<j, loc[j][2]>> \in parts[loc[j][1]]
<1>1. loc[j][1] \in Chunks /\ loc[j][2] \in Main!Bits /\ loc[j] = <<loc[j][1], loc[j][2]>>
  BY LocationIs
<1>2. ASSUME <<j, loc[j]>> \in Contents(parts)
      PROVE  <<j, loc[j][2]>> \in parts[loc[j][1]]
  <2>1. PICK i \in Main!Parts, c \in Chunks, b \in Main!Bits :
          <<j, loc[j]>> = <<i, <<c, b>>>> /\ <<i, b>> \in parts[c]
    BY <1>2, InContents
  <2>2. i = j /\ loc[j] = <<c, b>>
    BY <2>1
  <2>3. loc[j][1] = c /\ loc[j][2] = b
    BY <2>2
  <2> QED BY <2>1, <2>2, <2>3
<1>3. ASSUME <<j, loc[j][2]>> \in parts[loc[j][1]]
      PROVE  <<j, loc[j]>> \in Contents(parts)
  <2>1. <<j, loc[j]>> = <<j, <<loc[j][1], loc[j][2]>>>>
    BY <1>1
  <2> QED BY <1>1, <1>3, <2>1, InContents
<1> QED BY <1>2, <1>3

\* What a check has found when its answer is ready decides it.
LEMMA AnswerIs ==
  ASSUME TypeOK, CInv
  PROVE  CheckIsRight
<1> SUFFICES ASSUME mState = "Checking", mResp = -1
             PROVE  Main!checkResult <=>
                      \A loc \in mTxn : ~ FpBits({loc}) \subseteq Contents(mBloom)
  BY SameOperators DEF CheckIsRight
<1>1. mTxn \in Main!TxnFingerprint /\ mBloom \in [Chunks -> Values]
  BY MainTypes DEF TypeOK, Types
<1>2. /\ mCompat \subseteq Found(mTxn, mBloom)
      /\ \/ ~ Main!checkResultIsGood(mCompat, mTxn)
         \/ \A f \in Found(mTxn, mBloom) : f[1][f[2]][1] < At(mResp) => f \in mCompat
  BY DEF CInv, MainRight
<1>3. ASSUME NEW loc \in mTxn
      PROVE  /\ FpBits({loc}) \subseteq Contents(mBloom) <=>
                  \A j \in Main!Parts : <<loc, j>> \in Found(mTxn, mBloom)
  <2>1. FpBits({loc}) \subseteq Contents(mBloom) <=>
          \A j \in Main!Parts : <<j, loc[j]>> \in Contents(mBloom)
    BY InFpBits
  <2>2. ASSUME NEW j \in Main!Parts
        PROVE  <<j, loc[j]>> \in Contents(mBloom) <=> <<loc, j>> \in Found(mTxn, mBloom)
    <3>1. <<loc, j>> \in mTxn \X Main!Parts /\ <<loc, j>>[1] = loc /\ <<loc, j>>[2] = j
      OBVIOUS
    <3>2. <<loc, j>> \in Found(mTxn, mBloom) <=> <<j, loc[j][2]>> \in mBloom[loc[j][1]]
      BY <3>1 DEF Found
    <3> QED BY <1>1, <3>2, BitInContents
  <2> QED BY <2>1, <2>2
<1>4. Main!checkResult <=> ~ \E loc \in mTxn : \A j \in Main!Parts : <<loc, j>> \in mCompat
  BY DEF Main!checkResult, Main!checkResultIsGood
<1>5. CASE ~ Main!checkResultIsGood(mCompat, mTxn)
  BY <1>2, <1>3, <1>4, <1>5 DEF Main!checkResult
<1>6. CASE \A f \in Found(mTxn, mBloom) : f[1][f[2]][1] < At(mResp) => f \in mCompat
  <2>1. ASSUME NEW f \in Found(mTxn, mBloom) PROVE f[1][f[2]][1] < At(mResp)
    <3>1. f[1][f[2]][1] \in Chunks
      BY <1>1, FoundChunk DEF Found
    <3> QED BY <3>1, AtIs
  <2>2. Found(mTxn, mBloom) = mCompat
    BY <1>2, <1>6, <2>1
  <2> QED BY <1>3, <1>4, <2>2
<1> QED BY <1>2, <1>5, <1>6

\* No check is answered wrongly before answers have been left over.
THEOREM AnswersRight ==
  ASSUME OutFIFODepth >= 2
  PROVE  Spec => []AnswersAreRight
<1>1. TypeOK /\ Known => AnswersAreRight
  BY AnswerIs DEF Known, AnswersAreRight
<1> QED BY <1>1, TypeCorrect, RightUntilLeft, PTL

-----------------------------------------------------------------------------
(* The refinement of Filters.                                              *)

LEMMA AddBits ==
  ASSUME NEW parts \in [Chunks -> Values], NEW t \in Main!TxnFingerprint, NEW c \in Chunks,
         NEW new, new = [parts EXCEPT ![c] = parts[c] \cup Main!ChunkBits(c, t)]
  PROVE  Contents(new) \cup FpBits(t) = Contents(parts) \cup FpBits(t)
<1>1. new \in [Chunks -> Values]
  BY ChunkBitsType
<1>2. ASSUME NEW x \in Contents(parts) PROVE x \in Contents(new)
  <2>1. PICK j \in Main!Parts, d \in Chunks, b \in Main!Bits :
          x = <<j, <<d, b>>>> /\ <<j, b>> \in parts[d]
    BY <1>2, InContents
  <2>2. <<j, b>> \in new[d]
    BY <2>1
  <2> QED BY <1>1, <2>1, <2>2, InContents
<1>3. ASSUME NEW x \in Contents(new) PROVE x \in Contents(parts) \cup FpBits(t)
  <2>1. PICK j \in Main!Parts, d \in Chunks, b \in Main!Bits :
          x = <<j, <<d, b>>>> /\ <<j, b>> \in new[d]
    BY <1>1, <1>3, InContents
  <2>2. CASE <<j, b>> \in parts[d]
    BY <2>1, <2>2, InContents
  <2>3. CASE <<j, b>> \notin parts[d]
    <3>1. d = c /\ <<j, b>> \in Main!ChunkBits(c, t)
      BY <2>1, <2>3
    <3>2. PICK loc \in t, i \in Main!Parts : loc[i][1] = c /\ <<j, b>> = <<i, loc[i][2]>>
      BY <3>1, InChunkBits
    <3>3. x = <<i, loc[i]>>
      BY <2>1, <3>1, <3>2, LocationIs
    <3> QED BY <3>3, InFpBits
  <2> QED BY <2>2, <2>3
<1> QED BY <1>2, <1>3

LEMMA AddedBits ==
  ASSUME NEW parts \in [Chunks -> Values], NEW t \in Main!TxnFingerprint,
         Added(-1, parts, t)
  PROVE  FpBits(t) \subseteq Contents(parts)
<1>1. ASSUME NEW x \in FpBits(t) PROVE x \in Contents(parts)
  <2>1. PICK j \in Main!Parts, loc \in t : x = <<j, loc[j]>>
    BY <1>1, InFpBits
  <2>2. loc[j][1] \in Chunks
    BY LocationIs
  <2>3. <<j, loc[j][2]>> \in Main!ChunkBits(loc[j][1], t)
    BY InChunkBits
  <2>4. <<j, loc[j][2]>> \in parts[loc[j][1]]
    BY <2>2, <2>3, AtIs DEF Added
  <2> QED BY <2>1, <2>4, BitInContents
<1> QED BY <1>1

LEMMA NoBits ==
  ASSUME NEW parts \in [Chunks -> Values], Cleared(-1, parts)
  PROVE  Contents(parts) = {}
<1>1. \A c \in Chunks : parts[c] = {}
  BY AtIs DEF Cleared
<1> QED BY <1>1, InContents

\* What the summaries stand for, state by state.
LEMMA Stands ==
  /\ mState = "Resetting" => absMain = {}
  /\ mState = "Adding" => absMain = Contents(mBloom) \cup FpBits(mTxn)
  /\ mState \in {"Free", "Checking"} => absMain = Contents(mBloom)
  /\ mState = "Copying" => absMain = Contents([c \in Main!Chunks |-> InCopy(c)])
  /\ sState \in {"Resetting", "Copying"} => absShadow = {}
  /\ sState = "Adding" => absShadow = Contents(sBloom) \cup FpBits(sTxn)
  /\ sState = "Free" => absShadow = Contents(sBloom)
  /\ mState = "Checking" => absAsked = {mTxn}
  /\ mState # "Checking" => absAsked = {}
BY DEF absMain, absShadow, absAsked

LEMMA StandsNext ==
  /\ mState' = "Resetting" => absMain' = {}
  /\ mState' = "Adding" => absMain' = Contents(mBloom') \cup FpBits(mTxn')
  /\ mState' \in {"Free", "Checking"} => absMain' = Contents(mBloom')
  /\ mState' = "Copying" => absMain' = Contents([c \in Main!Chunks |-> InCopy(c)'])
  /\ sState' \in {"Resetting", "Copying"} => absShadow' = {}
  /\ sState' = "Adding" => absShadow' = Contents(sBloom') \cup FpBits(sTxn')
  /\ sState' = "Free" => absShadow' = Contents(sBloom')
  /\ mState' = "Checking" => absAsked' = {mTxn'}
  /\ mState' # "Checking" => absAsked' = {}
BY DEF absMain, absShadow, absAsked

\* What a cycle in which the main summary goes on changes: an addition takes
\* effect when it is accepted, a check is answered when its result is taken.
LEMMA MainMaps ==
  ASSUME TypeOK, CInv, MainCycle, mState # "Copying"
  PROVE  Abs!MainNext
<1>1. /\ Main!TypeOK /\ Shadow!TypeOK
      /\ mTxn \in Main!TxnFingerprint /\ mBloom \in [Chunks -> Values]
  BY MainTypes DEF TypeOK, Types
<1>2. CASE Main!Internal /\ UNCHANGED isCompat
  <2>1. CASE Main!Done("Resetting")
    <3>1. /\ mState = "Resetting" /\ mResp = -1 /\ mState' = "Free" /\ mBloom' = mBloom
      BY <2>1, SameOperators DEF Main!Done, Main!Finish
    <3>2. Contents(mBloom) = {}
      BY <1>1, <3>1, NoBits DEF CInv, MainRight
    <3>3. absMain' = absMain /\ absAsked' = absAsked
      BY <3>1, <3>2, Stands, StandsNext
    <3> QED BY <1>2, <3>3 DEF Abs!MainNext
  <2>2. CASE Main!Done("Adding")
    <3>1. /\ mState = "Adding" /\ mResp = -1 /\ mState' = "Free" /\ mBloom' = mBloom
      BY <2>2, SameOperators DEF Main!Done, Main!Finish
    <3>2. FpBits(mTxn) \subseteq Contents(mBloom)
      BY <1>1, <3>1, AddedBits DEF CInv, MainRight
    <3>3. absMain' = absMain /\ absAsked' = absAsked
      BY <3>1, <3>2, Stands, StandsNext
    <3> QED BY <1>2, <3>3 DEF Abs!MainNext
  <2>3. CASE Main!doReset
    <3>1. mState = "Resetting" /\ mState' = "Resetting"
      BY <2>3 DEF Main!doReset
    <3> QED BY <1>2, <3>1, Stands, StandsNext DEF Abs!MainNext
  <2>4. CASE Main!doAdd_resp
    <3>1. /\ mState = "Adding" /\ mState' = "Adding" /\ mTxn' = mTxn /\ mResp \in Chunks
          /\ mBloom' = [mBloom EXCEPT ![mResp] =
                            mBloom[mResp] \cup Main!ChunkBits(mResp, mTxn)]
      BY <1>1, <2>4, MainAddRight DEF CInv, MainRight, Main!doAdd_resp
    <3>2. Contents(mBloom') \cup FpBits(mTxn) = Contents(mBloom) \cup FpBits(mTxn)
      BY <1>1, <3>1, AddBits
    <3>3. absMain' = absMain /\ absAsked' = absAsked
      BY <3>1, <3>2, Stands, StandsNext
    <3> QED BY <1>2, <3>3 DEF Abs!MainNext
  <2>5. CASE Main!doCheck_resp
    <3>1. mState = "Checking" /\ mState' = "Checking" /\ mBloom' = mBloom /\ mTxn' = mTxn
      BY <2>5 DEF Main!doCheck_resp
    <3>2. absMain' = absMain /\ absAsked' = absAsked
      BY <3>1, Stands, StandsNext
    <3> QED BY <1>2, <3>2 DEF Abs!MainNext
  <2> QED
    BY <1>2, <2>1, <2>2, <2>3, <2>4, <2>5 DEF Main!Internal, Main!resetDone, Main!addDone
<1>3. CASE (Main!Wait \/ Main!Idle) /\ UNCHANGED isCompat
  <2>1. /\ mState \in {"Adding", "Checking", "Free"}
        /\ UNCHANGED <<mState, mTxn, mBloom>>
    BY <1>3 DEF Main!Wait, Main!Idle
  <2>2. absMain' = absMain /\ absAsked' = absAsked
    BY <2>1, Stands, StandsNext
  <2> QED BY <1>3, <2>2 DEF Abs!MainNext
<1>4. CASE MainAdd /\ UNCHANGED isCompat
  <2>1. PICK t \in Fingerprints :
          mState = "Free" /\ mState' = "Adding" /\ mTxn' = t /\ mBloom' = mBloom
    BY <1>4 DEF MainAdd, Main!txns_put, Main!Start
  <2>2. /\ absAsked = {} /\ absAsked' = absAsked
        /\ absMain' = absMain \cup FpBits(t)
    BY <2>1, Stands, StandsNext
  <2> QED BY <1>4, <2>2 DEF Abs!MainNext, Abs!Add
<1>5. CASE MainCheck /\ UNCHANGED isCompat
  <2>1. PICK t \in Fingerprints :
          mState = "Free" /\ mState' = "Checking" /\ mTxn' = t /\ mBloom' = mBloom
    BY <1>5 DEF MainCheck, Main!checks_put, Main!Start
  <2>2. absAsked = {} /\ absAsked' = {t} /\ absMain' = absMain
    BY <2>1, Stands, StandsNext
  <2> QED BY <1>5, <2>2 DEF Abs!MainNext, Abs!Check
<1>6. CASE MainResult
  <2>1. /\ mState = "Checking" /\ mResp = -1 /\ mState' = "Free" /\ mBloom' = mBloom
        /\ isCompat' = Main!checkResult
    BY <1>6, SameOperators DEF MainResult, Main!checks_get, Main!Done, Main!Finish
  <2>2. Main!checkResult <=> \A loc \in mTxn : ~ FpBits({loc}) \subseteq Contents(mBloom)
    BY <2>1, AnswerIs, SameOperators DEF CheckIsRight
  <2>3. absAsked = {mTxn} /\ absAsked' = {} /\ absMain' = absMain
        /\ absMain = Contents(mBloom)
    BY <2>1, Stands, StandsNext
  <2>4. Main!checkResult \in BOOLEAN
    BY DEF Main!checkResult, Main!checkResultIsGood
  <2>5. isCompat' = Abs!Compatible(mTxn, absMain)
    BY <2>1, <2>2, <2>3, <2>4 DEF Abs!Compatible
  <2> QED BY <2>3, <2>5 DEF Abs!MainNext, Abs!Answer
<1>7. ~ Main!Copying(Main!canGet, Transfer, Head(sPortB))
  BY DEF Main!Copying
<1> QED
  BY <1>2, <1>3, <1>4, <1>5, <1>6, <1>7 DEF MainCycle, MainBusy

\* While the copy runs the main summary stands for the same bits throughout: a
\* chunk that is still to come is at the port or in the shadow.
LEMMA SameContents ==
  ASSUME NEW f, NEW g, \A c \in Chunks : f[c] = g[c]
  PROVE  Contents(f) = Contents(g)
BY SameOperators DEF Contents

LEMMA CopyStands ==
  ASSUME TypeOK, CInv, OutFIFODepth >= 2, MainCycle, ShadowCycle, mState = "Copying"
  PROVE  absMain' = absMain
<1>1. /\ Main!TypeOK /\ Shadow!TypeOK /\ CopyRight
      /\ mBloom \in [Chunks -> Values] /\ sBloom \in [Chunks -> Values]
      /\ mResp \in Chunks \cup {-1} /\ sResp \in Chunks \cup {-1}
  BY MainTypes, ShadowTypes DEF TypeOK, Types, CInv
<1>2. absMain = Contents([c \in Chunks |-> InCopy(c)])
  BY SameOperators, Stands
<1>3. CASE sState # "Copying"
  <2>1. mResp = -1 /\ mState' = "Free" /\ mBloom' = mBloom
    BY <1>1, <1>3, MainCopies DEF CopyRight
  <2>2. \A c \in Chunks : InCopy(c) = mBloom[c]
    BY <2>1, SameOperators DEF InCopy
  <2>3. Contents([c \in Chunks |-> InCopy(c)]) = Contents(mBloom)
    BY <2>2, SameContents
  <2> QED BY <1>2, <2>1, <2>3, StandsNext
<1>4. CASE sState = "Copying" /\ mResp = 0 /\ sResp = 0 /\ sReq = 0 /\ sPortB = <<>>
  <2>1. /\ mState' = "Copying" /\ mResp' = 0 /\ mBloom' = mBloom
        /\ sBloom' = [sBloom EXCEPT ![0] = {}] /\ sPortB' = <<sBloom[0]>>
    BY <1>4, CopyBegins
  <2>2. Len(sPortB) = 0 /\ Len(sPortB') = 1 /\ sPortB'[1] = sBloom[0]
    BY <1>4, <2>1, EmptySeq
  <2>3. ASSUME NEW c \in Chunks PROVE InCopy(c)' = InCopy(c)
    <3>1. c \in Nat /\ ~ (c < 0) /\ ~ (c - 0 < 0)
      BY AtIs
    <3>2. InCopy(c) = sBloom[c]
      BY <1>4, <2>2, <3>1, SameOperators DEF InCopy
    <3>3. InCopy(c)' = IF c - 0 < 1 THEN sPortB'[c - 0 + 1] ELSE sBloom'[c]
      BY <2>1, <2>2, <3>1, SameOperators DEF InCopy
    <3>4. CASE c = 0
      BY <2>2, <3>2, <3>3, <3>4
    <3>5. CASE c # 0
      BY <1>1, <2>1, <3>1, <3>2, <3>3, <3>5
    <3> QED BY <3>4, <3>5
  <2>4. absMain' = Contents([c \in Chunks |-> InCopy(c)'])
    BY <2>1, SameOperators, StandsNext
  <2>5. Contents([c \in Chunks |-> InCopy(c)']) = Contents([c \in Chunks |-> InCopy(c)])
    BY <2>3, SameContents
  <2> QED BY <1>2, <2>4, <2>5
<1>5. CASE /\ sState = "Copying"
           /\ mResp # -1 /\ At(sResp) = mResp + 1 /\ sReq = sResp /\ Len(sPortB) = 1
  <2>1. /\ mState' = "Copying" /\ mResp \in Chunks
        /\ mBloom' = [mBloom EXCEPT ![mResp] = sPortB[1]]
        /\ sResp = -1 => sBloom' = sBloom /\ mResp' = -1
        /\ sResp # -1 => /\ sResp \in Chunks /\ mResp' = sResp
                         /\ sBloom' = [sBloom EXCEPT ![sResp] = {}]
                         /\ sPortB' = <<sBloom[sResp]>>
    BY <1>5, CopyGoesOn
  <2>2. ASSUME NEW c \in Chunks PROVE InCopy(c)' = InCopy(c)
    <3>1. /\ c \in Nat /\ mResp \in Nat /\ c < NumBloomChunks /\ NumBloomChunks \in Nat
          /\ sResp = -1 => NumBloomChunks = mResp + 1
          /\ sResp # -1 => sResp = mResp + 1
      BY <1>5, <2>1, AtIs
    <3>2. InCopy(c) = IF c < mResp THEN mBloom[c]
                      ELSE IF c - mResp < 1 THEN sPortB[c - mResp + 1] ELSE sBloom[c]
      BY <1>5, SameOperators DEF InCopy
    <3>3. mBloom'[c] = IF c = mResp THEN sPortB[1] ELSE mBloom[c]
      BY <1>1, <2>1
    <3>4. CASE sResp = -1
      <4>1. InCopy(c)' = mBloom'[c]
        BY <2>1, <3>4, SameOperators DEF InCopy
      <4>2. c < mResp \/ c = mResp
        BY <3>1, <3>4
      <4>3. CASE c < mResp
        BY <3>1, <3>2, <3>3, <4>1, <4>3
      <4>4. CASE c = mResp
        BY <3>1, <3>2, <3>3, <4>1, <4>4
      <4> QED BY <4>2, <4>3, <4>4
    <3>5. CASE sResp # -1
      <4>1. Len(sPortB') = 1 /\ sPortB'[1] = sBloom[sResp] /\ mResp' = mResp + 1
        BY <2>1, <3>1, <3>5
      <4>2. InCopy(c)' = IF c < mResp + 1 THEN mBloom'[c]
                         ELSE IF c - (mResp + 1) < 1 THEN sPortB'[c - (mResp + 1) + 1]
                         ELSE sBloom'[c]
        BY <2>1, <3>1, <3>5, <4>1, SameOperators DEF InCopy
      <4>3. c # sResp => sBloom'[c] = sBloom[c]
        BY <1>1, <2>1, <3>5
      <4>4. CASE c < mResp
        BY <3>1, <3>2, <3>3, <4>2, <4>4
      <4>5. CASE c = mResp
        BY <3>1, <3>2, <3>3, <4>2, <4>5
      <4>6. CASE c = mResp + 1
        BY <3>1, <3>2, <3>5, <4>1, <4>2, <4>6
      <4>7. CASE c > mResp + 1
        BY <3>1, <3>2, <3>5, <4>2, <4>3, <4>7
      <4> QED BY <3>1, <4>4, <4>5, <4>6, <4>7
    <3> QED BY <3>4, <3>5
  <2>3. absMain' = Contents([c \in Chunks |-> InCopy(c)'])
    BY <2>1, SameOperators, StandsNext
  <2>4. Contents([c \in Chunks |-> InCopy(c)']) = Contents([c \in Chunks |-> InCopy(c)])
    BY <2>2, SameContents
  <2> QED BY <1>2, <2>3, <2>4
<1> QED BY <1>1, <1>3, <1>4, <1>5 DEF CopyRight, Together

\* The same for the shadow summary, which is empty for the rules from the
\* moment the exchange starts.
LEMMA ShadowMaps ==
  ASSUME TypeOK, CInv, ShadowCycle
  PROVE  Abs!ShadowNext
<1>1. /\ Main!TypeOK /\ Shadow!TypeOK /\ ShadowRight /\ sState # "Checking"
      /\ sTxn \in Main!TxnFingerprint /\ sBloom \in [Chunks -> Values]
  BY ShadowTypes DEF TypeOK, Types, CInv, ShadowRight
<1>2. CASE Shadow!Done("Resetting") \/ Shadow!Copying(Transfer, Shadow!canSet, {})
  <2>1. /\ sState \in {"Resetting", "Copying"}
        /\ sState' = "Free" => sResp = -1 /\ sBloom' = sBloom
        /\ sState' # "Free" => sState' = "Copying"
    <3>1. CASE Shadow!Done("Resetting")
      BY <3>1, SameOperators DEF Shadow!Done, Shadow!Finish
    <3>2. CASE Shadow!Copying(Transfer, Shadow!canSet, {})
      BY <1>1, <3>2, SameOperators DEF Shadow!Copying, Shadow!Finish
    <3> QED BY <1>2, <3>1, <3>2
  <2>2. CASE sState' = "Free"
    <3>1. Contents(sBloom) = {}
      BY <1>1, <2>1, <2>2, NoBits DEF ShadowRight
    <3>2. absShadow' = absShadow
      BY <2>1, <2>2, <3>1, Stands, StandsNext
    <3> QED BY <3>2 DEF Abs!ShadowNext
  <2>3. CASE sState' # "Free"
    <3>1. absShadow' = absShadow
      BY <2>1, <2>3, Stands, StandsNext
    <3> QED BY <3>1 DEF Abs!ShadowNext
  <2> QED BY <2>2, <2>3
<1>3. CASE Shadow!Done("Adding")
  <2>1. sState = "Adding" /\ sResp = -1 /\ sState' = "Free" /\ sBloom' = sBloom
    BY <1>3, SameOperators DEF Shadow!Done, Shadow!Finish
  <2>2. FpBits(sTxn) \subseteq Contents(sBloom)
    BY <1>1, <2>1, AddedBits DEF ShadowRight
  <2>3. absShadow' = absShadow
    BY <2>1, <2>2, Stands, StandsNext
  <2> QED BY <2>3 DEF Abs!ShadowNext
<1>4. CASE Shadow!doReset
  <2>1. sState = "Resetting" /\ sState' = "Resetting"
    BY <1>4 DEF Shadow!doReset
  <2>2. absShadow' = absShadow
    BY <2>1, Stands, StandsNext
  <2> QED BY <2>2 DEF Abs!ShadowNext
<1>5. CASE Shadow!doAdd_resp
  <2>1. /\ sState = "Adding" /\ sState' = "Adding" /\ sTxn' = sTxn /\ sResp \in Chunks
        /\ sBloom' = [sBloom EXCEPT ![sResp] =
                          sBloom[sResp] \cup Main!ChunkBits(sResp, sTxn)]
    BY <1>1, <1>5, ShadowAddRight DEF ShadowRight, Shadow!doAdd_resp
  <2>2. Contents(sBloom') \cup FpBits(sTxn) = Contents(sBloom) \cup FpBits(sTxn)
    BY <1>1, <2>1, AddBits
  <2>3. absShadow' = absShadow
    BY <2>1, <2>2, Stands, StandsNext
  <2> QED BY <2>3 DEF Abs!ShadowNext
<1>6. CASE Shadow!Wait \/ Shadow!Idle
  <2>1. sState \in {"Adding", "Free"} /\ UNCHANGED <<sState, sTxn, sBloom>>
    BY <1>1, <1>6 DEF Shadow!Wait, Shadow!Idle
  <2>2. absShadow' = absShadow
    BY <2>1, Stands, StandsNext
  <2> QED BY <2>2 DEF Abs!ShadowNext
<1>7. CASE \E t \in Fingerprints : Shadow!txns_put(t)
  <2>1. PICK t \in Fingerprints :
          sState = "Free" /\ sState' = "Adding" /\ sTxn' = t /\ sBloom' = sBloom
    BY <1>7 DEF Shadow!txns_put, Shadow!Start
  <2>2. absShadow' = absShadow \cup FpBits(t)
    BY <2>1, Stands, StandsNext
  <2> QED BY <2>2 DEF Abs!ShadowNext, Abs!AddShadow
<1>8. ~ Shadow!doCheck_resp
  BY <1>1 DEF Shadow!doCheck_resp
<1> QED
  BY <1>2, <1>3, <1>4, <1>5, <1>6, <1>7, <1>8
     DEF ShadowCycle, Shadow!Internal, Shadow!resetDone, Shadow!addDone

LEMMA RefreshMaps ==
  ASSUME TypeOK, CInv, NoStaleAnswers, startRefresh
  PROVE  Abs!Refresh
<1>1. /\ mState = "Free" /\ sState = "Free" /\ mState' = "Copying" /\ sState' = "Copying"
      /\ mResp' = 0 /\ sPortB' = <<>> /\ sBloom' = sBloom /\ UNCHANGED isCompat
  BY DEF startRefresh, Main!startCopy, Shadow!startCopy, Main!Start, Shadow!Start,
         NoStaleAnswers, Shadow!isFree
<1>2. ASSUME NEW c \in Chunks PROVE InCopy(c)' = sBloom[c]
  <2>1. c \in Nat /\ ~ (c < 0) /\ ~ (c - 0 < 0) /\ Len(<<>>) = 0
    BY AtIs, EmptySeq
  <2> QED BY <1>1, <2>1, SameOperators DEF InCopy
<1>3. Contents([c \in Chunks |-> InCopy(c)']) = Contents(sBloom)
  BY <1>2, SameContents
<1>4. absMain' = Contents([c \in Chunks |-> InCopy(c)'])
  BY <1>1, SameOperators, StandsNext
<1>5. absShadow = Contents(sBloom) /\ absShadow' = {} /\ absAsked = {} /\ absAsked' = {}
  BY <1>1, Stands, StandsNext
<1> QED BY <1>1, <1>3, <1>4, <1>5 DEF Abs!Refresh

LEMMA NextMaps ==
  ASSUME OutFIFODepth >= 2
  PROVE  TypeOK /\ CInv /\ NoStaleAnswers /\ [Next]_vars => [Abs!FNext]_Abs!fvars
<1> SUFFICES ASSUME TypeOK, CInv, NoStaleAnswers, [Next]_vars
             PROVE  [Abs!FNext]_Abs!fvars
  OBVIOUS
<1>1. CASE Cycle
  <2>1. Abs!ShadowNext
    BY <1>1, ShadowMaps DEF Cycle
  <2>2. CASE mState # "Copying"
    BY <1>1, <2>1, <2>2, MainMaps DEF Cycle, Abs!FNext
  <2>3. CASE mState = "Copying"
    <3>1. /\ MainCycle /\ ShadowCycle /\ Main!TypeOK /\ Shadow!TypeOK
          /\ CopyRight
      BY <1>1 DEF Cycle, TypeOK, CInv
    <3>2. absMain' = absMain
      BY <2>3, <3>1, CopyStands
    <3>3. UNCHANGED isCompat /\ mState' # "Checking"
      BY <2>3, <3>1, MainCopies
    <3>4. absAsked' = absAsked
      BY <2>3, <3>3, Stands, StandsNext
    <3> QED BY <2>1, <3>2, <3>3, <3>4 DEF Abs!FNext, Abs!MainNext
  <2> QED BY <2>2, <2>3
<1>2. CASE startRefresh
  BY <1>2, RefreshMaps DEF Abs!FNext
<1>3. CASE UNCHANGED vars
  BY <1>3 DEF vars, Main!vars, Shadow!vars, Abs!fvars, absMain, absShadow, absAsked, InCopy
<1> QED BY <1>1, <1>2, <1>3 DEF Next

LEMMA InitMaps == Init => Abs!FInit
BY DEF Init, Main!Init, Shadow!Init, Abs!FInit, absMain, absShadow, absAsked

\* Up to the first step that leaves answers over the summaries implement
\* Filters: two sets of bits, to which a transaction is added in one step and
\* which are exchanged in one step.
THEOREM FiltersUntilLeft ==
  ASSUME OutFIFODepth >= 2
  PROVE  Spec => ImplementsFilters
<1>1. TypeOK /\ Known /\ [Next]_vars => (~ left' => [Abs!FNext]_Abs!fvars)
  BY NotLeft, NextMaps
<1>2. [][TypeOK /\ Known /\ [Next]_vars]_vars => [][~ left' => [Abs!FNext]_Abs!fvars]_vars
  BY <1>1, PTL
<1> QED
  BY <1>2, InitMaps, TypeCorrect, RightUntilLeft, PTL DEF Spec, ImplementsFilters
=============================================================================
