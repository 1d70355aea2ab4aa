--------------------------- MODULE MCPjsuaInstance ---------------------------
(***************************************************************************)
(* PjsuaInstance on a small instance.                                      *)
(***************************************************************************)
EXTENDS PjsuaInstanceProofs

AllFaults == FaultNames
=============================================================================
