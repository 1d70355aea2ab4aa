----------------------------- MODULE MCSoftphone -----------------------------
(***************************************************************************)
(* Softphone on a small instance.                                          *)
(***************************************************************************)
EXTENDS SoftphoneProofs

AllFaults == FaultNames
=============================================================================
