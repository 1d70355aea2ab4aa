------------------------------ MODULE MediaSink ------------------------------
(***************************************************************************)
(* CustomSinkMediaPort: frames from the conference bridge to a reader.     *)
(*                                                                         *)
(* The bridge's clock calls put_frame on the port while it is in the       *)
(* bridge.  put_frame never waits: it drops a frame that finds the channel *)
(* full.  The reader awaits recv in a task of its own.  The channel's only *)
(* sender is in the MediaPortData, which on_destroy frees.                 *)
(***************************************************************************)
EXTENDS Naturals, Sequences

CONSTANTS
    SinkCap,     \* capacity of the channel (512 in the code)
    SinkFrames   \* bound: how many audio frames the bridge offers

ASSUME SinkAssumption == SinkCap \in Nat \ {0} /\ SinkFrames \in Nat

VARIABLES
    sink,      \* life of the port, see PortLives
    offered,   \* how many audio frames put_frame was called with; they are numbered
    rxq,       \* the channel
    reader,    \* "reading", "ended" (recv returned None), "gone" (receiver dropped)
    got,       \* history: the frames recv returned
    wasFull    \* history: a frame found the channel full

sinkVars == <<sink, offered, rxq, reader, got, wasFull>>

\* "made": not yet in the bridge.  "added": in the bridge, nobody transmits to
\* it.  "connected": a call transmits to it.  "removed": out of the bridge, not
\* destroyed.  "destroyed": on_destroy has run.  "lost": the port is gone, but
\* on_destroy never runs.
PortLives == {"made", "added", "connected", "removed", "destroyed", "lost"}
InBridge(p) == p \in {"added", "connected"}

SinkTypeOK ==
    /\ sink \in PortLives
    /\ offered \in 0..SinkFrames
    /\ rxq \in Seq(1..SinkFrames) /\ Len(rxq) <= SinkCap
    /\ reader \in {"reading", "ended", "gone"}
    /\ got \in Seq(1..SinkFrames)
    /\ wasFull \in BOOLEAN

\* CustomSinkMediaPort::new
SinkInit ==
    /\ sink = "made"
    /\ offered = 0
    /\ rxq = <<>>
    /\ reader = "reading"
    /\ got = <<>>
    /\ wasFull = FALSE

-----------------------------------------------------------------------------
(* The bridge's clock                                                       *)

\* Mutation: a full channel makes room by dropping what it holds.
PutFrameDropsQueue(f) ==
    /\ rxq' = IF Len(rxq) < SinkCap THEN Append(rxq, f) ELSE <<f>>
    /\ UNCHANGED wasFull

\* put_frame with an audio frame: try_send, whose failure is only logged.  Frames
\* with a buffer are all of type audio, so the assertion on the type never fails.
PutFrame(f) ==
    \/ /\ reader = "reading" /\ Len(rxq) < SinkCap
       /\ rxq' = Append(rxq, f)
       /\ UNCHANGED wasFull
    \/ /\ reader = "reading" /\ Len(rxq) >= SinkCap
       /\ wasFull' = TRUE
       /\ UNCHANGED rxq
    \/ /\ reader # "reading"
       /\ UNCHANGED <<rxq, wasFull>>

\* The clock ticks on a port that a call transmits to.  A port nobody transmits
\* to gets frames without a buffer, which put_frame ignores: no step.
SinkTick ==
    /\ sink = "connected"
    /\ offered < SinkFrames
    /\ offered' = offered + 1
    /\ PutFrame(offered + 1)
    /\ UNCHANGED <<sink, reader, got>>

-----------------------------------------------------------------------------
(* The reader                                                               *)

\* recv (and poll_next): the oldest frame, or None when the channel is empty and
\* its sender is gone; otherwise the reader waits.
Recv ==
    /\ reader = "reading"
    /\ \/ /\ rxq # <<>>
          /\ got' = Append(got, Head(rxq))
          /\ rxq' = Tail(rxq)
          /\ UNCHANGED reader
       \/ /\ rxq = <<>> /\ sink = "destroyed"
          /\ reader' = "ended"
          /\ UNCHANGED <<rxq, got>>
    /\ UNCHANGED <<sink, offered, wasFull>>

\* The application drops the CustomSinkMediaPortRx, and what is in the channel.
DropRx ==
    /\ reader = "reading"
    /\ reader' = "gone"
    /\ rxq' = <<>>
    /\ UNCHANGED <<sink, offered, got, wasFull>>

-----------------------------------------------------------------------------
(* The life of the port                                                     *)

SinkBecomes(from, to) ==
    /\ sink = from
    /\ sink' = to
    /\ UNCHANGED <<offered, rxq, reader, got, wasFull>>

AddSink == SinkBecomes("made", "added")
LoseSink == SinkBecomes("made", "lost")
ConnectSink == SinkBecomes("added", "connected")
DisconnectSink == SinkBecomes("connected", "added")
RemoveSink == InBridge(sink) /\ SinkBecomes(sink, "removed")

\* Mutation: on_destroy forgets the MediaPortData.
DestroySinkLeaks == SinkBecomes("removed", "lost")

\* pjmedia_port_destroy: on_destroy frees the MediaPortData and with it the sender.
DestroySink == SinkBecomes("removed", "destroyed")

-----------------------------------------------------------------------------
(* Properties                                                               *)

\* What the reader has got, and what it will get, are the bridge's frames in the
\* bridge's order; frames are missing only if one found the channel full.
FramesInOrder ==
    LET all == got \o rxq
    IN  /\ \A i, j \in 1..Len(all) : i < j => all[i] < all[j]
        /\ ~wasFull /\ reader # "gone" => all = [i \in 1..offered |-> i]
=============================================================================
