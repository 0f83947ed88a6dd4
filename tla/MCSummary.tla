------------------------------ MODULE MCSummary -----------------------------
(***************************************************************************)
(* Instances of the two summaries with the code's four chunks and three    *)
(* outstanding reads, and two parts.                                       *)
(*                                                                         *)
(* early: the checks of both transactions may end before the last chunk    *)
(* has been read.  both: that of the first may, the second has an object   *)
(* with a bit in the last chunk, so that chunk decides; the objects share  *)
(* bits.                                                                   *)
(***************************************************************************)
EXTENDS SummaryPair, TLC

Loc(c0, b0, c1, b1) == (0 :> <<c0, b0>>) @@ (1 :> <<c1, b1>>)

early == {{Loc(0, 0, 1, 0)}, {Loc(2, 0, 3, 1)}}
both  == {{Loc(0, 0, 1, 0)}, {Loc(0, 0, 3, 0), Loc(2, 0, 3, 0)}}
=============================================================================
