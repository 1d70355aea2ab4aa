----------------------------- MODULE MediaStream -----------------------------
(***************************************************************************)
(* CustomStreamMediaPort: frames from a writer to the conference bridge.   *)
(*                                                                         *)
(* send waits for room in a futures channel; the bridge's clock takes a    *)
(* frame with try_next in get_frame and plays silence when there is none.  *)
(* The channel lets its sender put one message in excess of its buffer and *)
(* parks it then; taking a message unparks it.  send returns when the      *)
(* message is queued and the sender is not parked.  The receiver is in the *)
(* MediaPortData, which on_destroy frees.                                  *)
(***************************************************************************)
EXTENDS Naturals, Sequences, FiniteSets, SequencesExt

CONSTANTS
    StreamBuffer,   \* buffer of the channel (512 in the code)
    StreamFrames    \* bound: how many frames the writer has, numbered

ASSUME StreamAssumption == StreamBuffer \in Nat /\ StreamFrames \in Nat

VARIABLES
    stream,     \* life of the port, as in MediaSink
    txq,        \* the channel
    parked,     \* the sender is parked
    writer,     \* "idle", "ready" (in poll_ready), "flush" (in poll_flush), "done"
    next,       \* the frame that send was, or will be, called with
    accepted,   \* history: frames for which send returned Ok
    doubtful,   \* history: frames whose send was cancelled when already queued
    played      \* history: frames that get_frame gave to the bridge

streamVars == <<stream, txq, parked, writer, next, accepted, doubtful, played>>

StreamLives == {"made", "added", "connected", "removed", "destroyed", "lost"}
Waiting == writer \in {"ready", "flush"}

\* The channel is closed: its receiver is gone.
Closed == stream = "destroyed"

StreamTypeOK ==
    /\ stream \in StreamLives
    /\ txq \in Seq(1..StreamFrames) /\ Len(txq) <= StreamBuffer + 1
    /\ parked \in BOOLEAN
    /\ writer \in {"idle", "ready", "flush", "done"}
    /\ next \in 1..(StreamFrames + 1)
    /\ accepted \subseteq 1..StreamFrames
    /\ doubtful \subseteq 1..StreamFrames
    /\ played \in Seq(1..StreamFrames)

\* CustomStreamMediaPort::new
StreamInit ==
    /\ stream = "made"
    /\ txq = <<>>
    /\ parked = FALSE
    /\ writer = "idle"
    /\ next = 1
    /\ accepted = {}
    /\ doubtful = {}
    /\ played = <<>>

-----------------------------------------------------------------------------
(* The writer                                                               *)

\* send is called with the next frame.
SendFrame ==
    /\ writer = "idle" /\ next <= StreamFrames
    /\ writer' = "ready"
    /\ UNCHANGED <<stream, txq, parked, next, accepted, doubtful, played>>

\* Mutation: the sender is never parked.
PollReadyNeverParks ==
    /\ writer = "ready"
    /\ ~Closed
    /\ txq' = Append(txq, next)
    /\ writer' = "flush"
    /\ UNCHANGED <<stream, parked, next, accepted, doubtful, played>>

\* poll_ready and start_send: an error ends the writer (its unwrap), a parked
\* sender waits, and the frame is queued otherwise.
PollReady ==
    /\ writer = "ready"
    /\ \/ /\ Closed
          /\ writer' = "done"
          /\ UNCHANGED <<txq, parked>>
       \/ /\ ~Closed /\ ~parked
          /\ txq' = Append(txq, next)
          /\ parked' = (Len(txq) + 1 > StreamBuffer)
          /\ writer' = "flush"
    /\ UNCHANGED <<stream, next, accepted, doubtful, played>>

\* poll_flush: waits while the sender is parked; a closed channel counts as
\* flushed, so send returns Ok although the frame went with the receiver.
PollFlush ==
    /\ writer = "flush"
    /\ Closed \/ ~parked
    /\ writer' = "idle"
    /\ accepted' = accepted \cup {next}
    /\ next' = next + 1
    /\ UNCHANGED <<stream, txq, parked, doubtful, played>>

\* The future of send is dropped.  A frame already queued stays queued; the
\* application cannot tell, and goes on or sends the frame again.  Bound: it gives
\* up a queued frame once.
CancelSend ==
    /\ Waiting
    /\ writer = "flush" => next \notin doubtful
    /\ writer' = "idle"
    /\ doubtful' = IF writer = "flush" THEN doubtful \cup {next} ELSE doubtful
    /\ next' \in {next, next + 1}
    /\ UNCHANGED <<stream, txq, parked, accepted, played>>

\* The CustomStreamMediaPortTx is dropped between two frames.
DropTx ==
    /\ writer = "idle"
    /\ writer' = "done"
    /\ UNCHANGED <<stream, txq, parked, next, accepted, doubtful, played>>

-----------------------------------------------------------------------------
(* The bridge's clock                                                       *)

\* Mutation: a frame is taken whatever the bridge asks for.
GetFrameAnyType(type) ==
    /\ txq' = IF txq # <<>> THEN Tail(txq) ELSE txq
    /\ played' = IF type = "audio" /\ txq # <<>> THEN Append(played, Head(txq)) ELSE played
    /\ parked' = FALSE

\* Mutation: taking a frame does not wake the sender.
GetFrameLeavesParked(type) ==
    /\ IF type = "audio" /\ txq # <<>>
       THEN played' = Append(played, Head(txq)) /\ txq' = Tail(txq)
       ELSE UNCHANGED <<played, txq>>
    /\ UNCHANGED parked

\* Mutation: the latest frame first.
GetFrameTakesLast(type) ==
    \/ /\ type = "audio" /\ txq # <<>>
       /\ played' = Append(played, Last(txq))
       /\ txq' = Front(txq)
       /\ parked' = FALSE
    \/ /\ type # "audio" \/ txq = <<>>
       /\ UNCHANGED <<txq, parked, played>>

\* get_frame: for a frame of type audio, the oldest in the channel, or silence.
GetFrame(type) ==
    \/ /\ type = "audio" /\ txq # <<>>
       /\ played' = Append(played, Head(txq))
       /\ txq' = Tail(txq)
       /\ parked' = FALSE
    \/ /\ type # "audio" \/ txq = <<>>
       /\ UNCHANGED <<txq, parked, played>>

\* The clock asks a port that a call listens to for audio.
StreamTick ==
    /\ stream = "connected"
    /\ GetFrame("audio")
    /\ UNCHANGED <<stream, writer, next, accepted, doubtful>>

\* get_frame is also registered as put_frame.  Nobody transmits to this port, so
\* the bridge puts frames of type none, in every tick and from the start.
StreamPutTick ==
    /\ stream \in {"added", "connected"}
    /\ GetFrame("none")
    /\ UNCHANGED <<stream, writer, next, accepted, doubtful>>

-----------------------------------------------------------------------------
(* The life of the port                                                     *)

StreamBecomes(from, to) ==
    /\ stream = from
    /\ stream' = to
    /\ UNCHANGED <<txq, parked, writer, next, accepted, doubtful, played>>

AddStream == StreamBecomes("made", "added")
LoseStream == StreamBecomes("made", "lost")
ConnectStream == StreamBecomes("added", "connected")
DisconnectStream == StreamBecomes("connected", "added")
RemoveStream == stream \in {"added", "connected"} /\ StreamBecomes(stream, "removed")

\* on_destroy: the receiver goes, and the frames it still holds.
DestroyStream ==
    /\ stream = "removed"
    /\ stream' = "destroyed"
    /\ txq' = <<>>
    /\ UNCHANGED <<parked, writer, next, accepted, doubtful, played>>

-----------------------------------------------------------------------------
(* Properties                                                               *)

\* A frame for which send returned Ok is played or will be, until the port is
\* destroyed: nothing else takes frames from the channel, the put_frame alias
\* included.  The destruction takes the tail of the stream, the frames after the
\* last that was played, and no more of them than the channel has places, the one
\* included that poll_flush reports as flushed afterwards.
AcceptedIsKept ==
    LET lost == accepted \ ToSet(played \o txq)
    IN  /\ stream # "destroyed" => lost = {}
        /\ Cardinality(lost) <= StreamBuffer + 1
        /\ \A f \in lost : \A i \in 1..Len(played) : played[i] < f

\* The bridge gets the writer's frames in order, and one twice only if its send
\* was cancelled after it was queued, and repeated.
PlayedInOrder ==
    LET all == played \o txq
    IN  \A i, j \in 1..Len(all) : i < j =>
            all[i] < all[j] \/ (all[i] = all[j] /\ all[i] \in doubtful)
=============================================================================
