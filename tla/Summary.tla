------------------------------- MODULE Summary ------------------------------
(***************************************************************************)
(* mkSummary of new-pmhw/src/Summary.bsv: the Bloom filter of the objects  *)
(* of the active transactions, in a dual-ported BRAM that is traversed one *)
(* chunk per cycle.                                                        *)
(*                                                                         *)
(* A step is a clock cycle: the one rule or method that is ready in this   *)
(* state of the traversal, together with the rule requestChunks, which     *)
(* reads ahead through port B, and the answer of the BRAM.  A read         *)
(* requested in one cycle is answered in the next, with the contents at    *)
(* the time of the request.                                                *)
(***************************************************************************)
EXTENDS Integers, Sequences

CONSTANTS NumBloomParts, NumBloomChunks, BloomChunkSize,
          OutFIFODepth      \* reads of port B that may be outstanding

Parts  == 0..(NumBloomParts - 1)
Chunks == 0..(NumBloomChunks - 1)
Bits   == 0..(BloomChunkSize - 1)

\* Where the bits of one object are, one per part.  A transaction's
\* fingerprint is the set of its objects' locations.
BloomLocation == [Parts -> Chunks \X Bits]
TxnFingerprint == SUBSET BloomLocation
BloomChunkParts == SUBSET (Parts \X Bits)

Invalid == -1

\* Faulty variant: a plain counter that wraps around.
NextChunk_Wraps(c) == (c + 1) % NumBloomChunks

NextChunk(c) == IF c < NumBloomChunks - 1 THEN c + 1 ELSE Invalid

VARIABLES
  state,        \* "Resetting", "Free", "Adding", "Checking", "Copying"
  txn,          \* the fingerprint of the operation in progress
  compat,       \* the bits of txn found so far, as <<location, part>>
  mReqChunk,    \* next chunk to request, or Invalid
  mRespChunk,   \* next chunk to process, or Invalid when all are
  bloom,        \* the BRAM
  portB         \* its answers, oldest first

vars == <<state, txn, compat, mReqChunk, mRespChunk, bloom, portB>>

TypeOK ==
  /\ state \in {"Resetting", "Free", "Adding", "Checking", "Copying"}
  /\ txn \in TxnFingerprint /\ compat \subseteq txn \X Parts
  /\ mReqChunk \in Chunks \cup {Invalid} /\ mRespChunk \in Chunks \cup {Invalid}
  /\ state = "Free" => mReqChunk = Invalid /\ mRespChunk = Invalid
  /\ bloom \in [Chunks -> BloomChunkParts]
  /\ portB \in Seq(BloomChunkParts) /\ Len(portB) <= OutFIFODepth

-----------------------------------------------------------------------------
\* checkOrAddToChunk: the bits of a fingerprint in a chunk, and those of them
\* that are set.
ChunkBits(chunk, t) ==
  UNION {{<<j, loc[j][2]>> : j \in {i \in Parts : loc[i][1] = chunk}} : loc \in t}

ChunkFound(parts, chunk, t) ==
  {f \in t \X Parts : /\ f[1][f[2]][1] = chunk
                      /\ <<f[2], f[1][f[2]][2]>> \in parts}

\* Faulty variant: one part found is enough.
checkResultIsGood_AnyPart(found, t) == found = {}

\* No object has all its bits set.
checkResultIsGood(found, t) ==
  ~ \E loc \in t : \A j \in Parts : <<loc, j>> \in found

-----------------------------------------------------------------------------
\* The contents of the BRAM are undefined until the reset has run.
Init ==
  /\ state = "Resetting"
  /\ txn = {} /\ compat = {}
  /\ mReqChunk = Invalid /\ mRespChunk = 0
  /\ bloom \in [Chunks -> {{}, Parts \X Bits}]
  /\ portB = <<>>

\* Faulty variant: nothing limits the outstanding reads.
requestChunks_NoLimit(taken) ==
  LET rest == SubSeq(portB, taken + 1, Len(portB))
  IN IF mReqChunk # Invalid
     THEN /\ portB' = Append(rest, bloom[mReqChunk])
          /\ mReqChunk' = NextChunk(mReqChunk)
     ELSE portB' = rest /\ UNCHANGED mReqChunk

\* The rule requestChunks, with the answers taken from port B in the same cycle.
requestChunks(taken) ==
  LET rest == SubSeq(portB, taken + 1, Len(portB))
  IN IF mReqChunk # Invalid /\ Len(portB) < OutFIFODepth
     THEN /\ portB' = Append(rest, bloom[mReqChunk])
          /\ mReqChunk' = NextChunk(mReqChunk)
     ELSE portB' = rest /\ UNCHANGED mReqChunk

\* The end of an operation preempts requestChunks.
Finish(taken) ==
  /\ state' = "Free"
  /\ mReqChunk' = Invalid /\ mRespChunk' = Invalid
  /\ txn' = {} /\ compat' = {}
  /\ portB' = SubSeq(portB, taken + 1, Len(portB))
  /\ UNCHANGED bloom

Start(op, t) ==
  /\ state = "Free"
  /\ state' = op /\ txn' = t /\ compat' = {}
  /\ mReqChunk' = 0 /\ mRespChunk' = 0
  /\ UNCHANGED <<bloom, portB>>

Write(chunk, parts) == bloom' = [bloom EXCEPT ![chunk] = parts]

doReset ==
  /\ state = "Resetting" /\ mRespChunk # Invalid
  /\ Write(mRespChunk, {})
  /\ mRespChunk' = NextChunk(mRespChunk)
  /\ UNCHANGED <<state, txn, compat, mReqChunk, portB>>

\* Faulty variant: the chunk is overwritten rather than merged.
doAdd_resp_Overwrites ==
  /\ state = "Adding" /\ mRespChunk # Invalid /\ portB # <<>>
  /\ Write(mRespChunk, ChunkBits(mRespChunk, txn))
  /\ mRespChunk' = NextChunk(mRespChunk)
  /\ requestChunks(1)
  /\ UNCHANGED <<state, txn, compat>>

doAdd_resp ==
  /\ state = "Adding" /\ mRespChunk # Invalid /\ portB # <<>>
  /\ Write(mRespChunk, Head(portB) \cup ChunkBits(mRespChunk, txn))
  /\ mRespChunk' = NextChunk(mRespChunk)
  /\ requestChunks(1)
  /\ UNCHANGED <<state, txn, compat>>

\* Ends early once the transaction is known to be incompatible; the reads
\* that requestChunks has issued by then are still to be answered.
doCheck_resp ==
  /\ state = "Checking" /\ mRespChunk # Invalid /\ portB # <<>>
  /\ compat' = compat \cup ChunkFound(Head(portB), mRespChunk, txn)
  /\ mRespChunk' = IF checkResultIsGood(compat', txn) THEN NextChunk(mRespChunk)
                                                      ELSE Invalid
  /\ requestChunks(1)
  /\ UNCHANGED <<state, txn, bloom>>

\* A cycle in which the operation waits: for the BRAM, or for its result to
\* be taken.
Wait ==
  /\ \/ state \in {"Adding", "Checking"} /\ mRespChunk # Invalid /\ portB = <<>>
     \/ state = "Checking" /\ mRespChunk = Invalid
  /\ requestChunks(0)
  /\ UNCHANGED <<state, txn, compat, mRespChunk, bloom>>

Done(op) ==
  /\ state = op /\ mRespChunk = Invalid
  /\ Finish(0)

resetDone == Done("Resetting")
addDone   == Done("Adding")

Idle ==
  /\ state = "Free"
  /\ UNCHANGED <<state, txn, compat, mReqChunk, mRespChunk, bloom, portB>>

-----------------------------------------------------------------------------
(* The methods.                                                            *)

txns_put(t)   == Start("Adding", t)
checks_put(t) == Start("Checking", t)
checks_get    == Done("Checking")
startCopy     == Start("Copying", {})

checkResult == checkResultIsGood(compat, txn)
isFree == state = "Free"

\* A cycle of the copy mode in which the chunks of port B are taken (get) and,
\* unless all are written, parts is written; copyDone when all are.
canGet == state = "Copying" /\ portB # <<>>
canSet == state = "Copying" /\ mRespChunk # Invalid

Copying(get, set, parts) ==
  /\ state = "Copying"
  /\ get => canGet
  /\ set => canSet
  /\ LET taken == IF get THEN 1 ELSE 0
     IN IF mRespChunk = Invalid
        THEN Finish(taken)
        ELSE /\ IF set THEN Write(mRespChunk, parts) ELSE UNCHANGED bloom
             /\ mRespChunk' = IF set THEN NextChunk(mRespChunk) ELSE mRespChunk
             /\ requestChunks(taken)
             /\ UNCHANGED <<state, txn, compat>>

\* The rules that need no caller.
Internal == doReset \/ resetDone \/ doAdd_resp \/ addDone \/ doCheck_resp
=============================================================================
