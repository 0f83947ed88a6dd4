-------------------------------- MODULE MCSw --------------------------------
(***************************************************************************)
(* An instance of the software scheduler.  Transactions 1, 2 and 3 may run *)
(* together (2 and 3 share a read), which fills two one-slot puppets; 4    *)
(* conflicts with 1 (write-read) and with 3 (read-write), and 5 with 3 and *)
(* with 4 (write-write).                                                   *)
(***************************************************************************)
EXTENDS SwProperties

mcObjects == {"a", "b", "c"}
mcReads   == [t \in Txns |-> <<{}, {"b"}, {"b", "c"}, {"a"}, {}>>[t]]
mcWrites  == [t \in Txns |-> <<{"a"}, {}, {}, {"c"}, {"c"}>>[t]]
=============================================================================
