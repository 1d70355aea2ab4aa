---------------------------- MODULE MCMediaPorts ----------------------------
(***************************************************************************)
(* MediaPorts on small instances.                                          *)
(***************************************************************************)
EXTENDS MediaPortsProofs
=============================================================================
