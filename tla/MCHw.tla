-------------------------------- MODULE MCHw --------------------------------
(***************************************************************************)
(* The first transaction conflicts with each of the others, of which 2 and *)
(* 4 may run together.  The size of the lookahead buffer and the width of  *)
(* its counter are those of the source; the other buffers are as small as  *)
(* lets them fill up.                                                      *)
(***************************************************************************)
EXTENDS HwProperties

mcObjects == {"a", "b"}
mcReads   == [t \in Txns |-> <<{}, {"a"}, {"a"}, {}>>[t]]
mcWrites  == [t \in Txns |-> <<{"a", "b"}, {}, {"a"}, {"b"}>>[t]]
=============================================================================
