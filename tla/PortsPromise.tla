---------------------------- MODULE PortsPromise ----------------------------
(***************************************************************************)
(* What becomes of the two media ports of a call, without the bridge's     *)
(* clock, frames, channels, or the steps in which they come and go.        *)
(*                                                                         *)
(* MediaPorts implements this module, step by step of the bridge, and so   *)
(* does each call of PjsuaCall, where adding and dropping the ports are    *)
(* one step each: seen from outside, the two models do the same.           *)
(***************************************************************************)

VARIABLES
    sink,     \* "none" (not added), "added", "destroyed" (its on_destroy has run),
    stream,   \* "lost" (gone without it)
    over      \* the call is over

vars == <<sink, stream, over>>

InBridge == "added" \in {sink, stream}

Init == sink = "none" /\ stream = "none" /\ over = FALSE

\* Both ports are added, or the second fails and the first goes with the call, or
\* neither is.
Add ==
    /\ ~over /\ sink = "none" /\ stream = "none"
    /\ \/ sink' = "added" /\ stream' = "added"
       \/ sink' = "added" /\ stream' = "lost"
       \/ sink' = "lost" /\ stream' = "lost"

\* What was added leaves, and is destroyed.
Leave ==
    /\ InBridge
    /\ sink' = IF sink = "added" THEN "destroyed" ELSE sink
    /\ stream' = IF stream = "added" THEN "destroyed" ELSE stream

\* A port is dropped that was never added.
Discard ==
    /\ {sink, stream} \subseteq {"none", "lost"}
    /\ \/ sink = "none" /\ sink' = "lost" /\ UNCHANGED stream
       \/ stream = "none" /\ stream' = "lost" /\ UNCHANGED sink

\* The call may end in any step, once, and leaves nothing in the bridge.
Next ==
    /\ Add \/ Leave \/ Discard \/ UNCHANGED <<sink, stream>>
    /\ over => over'
    /\ over' => ~InBridge'

Spec == Init /\ [][Next]_vars
=============================================================================
