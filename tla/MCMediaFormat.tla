---------------------------- MODULE MCMediaFormat ----------------------------
(***************************************************************************)
(* MediaFormat over the formats that telephony uses, and some at the edge; *)
(* clocks of 10^9, 10^6 and 24 * 10^6 ticks a second, and a faster one.    *)
(***************************************************************************)
EXTENDS MediaFormatProofs

TestClocks == {[nanos |-> 1, ticks |-> 1], [nanos |-> 1000, ticks |-> 1],
               [nanos |-> 125, ticks |-> 3], [nanos |-> 2, ticks |-> 5]}
=============================================================================
