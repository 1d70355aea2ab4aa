----------------------------- MODULE MediaPorts -----------------------------
(***************************************************************************)
(* The two media ports of one call: MediaSink and MediaStream, driven by   *)
(* the call that adopts them.                                              *)
(*                                                                         *)
(* PjsuaCallSetup::add registers the sink, then the stream.  A media       *)
(* report connects the call's own port to the sink, then the stream to it, *)
(* once, on pjsua's thread.  A drop takes both out of the bridge and       *)
(* destroys them, whatever that thread is doing; the clock goes on ticking *)
(* in between, and so do reader and writer.                                *)
(***************************************************************************)
EXTENDS MediaSink, MediaStream

VARIABLES
    call,    \* "none", "adding" (sink added, stream not yet), "adopted",
             \* "dropping", "over"
    report   \* the media report: "none", "half" (sink connected), "done", "ended"
             \* (the media is over), "failed" (its assertion ended the process)

vars == <<sinkVars, streamVars, call, report>>

TypeOK ==
    /\ SinkTypeOK
    /\ StreamTypeOK
    /\ call \in {"none", "adding", "adopted", "dropping", "over"}
    /\ report \in {"none", "half", "done", "ended", "failed"}

Init == SinkInit /\ StreamInit /\ call = "none" /\ report = "none"

Running == report # "failed"

CallBecomes(from, to) ==
    /\ Running
    /\ call \in from
    /\ call' = to
    /\ UNCHANGED report

-----------------------------------------------------------------------------
(* The owning thread                                                        *)

\* A port that is dropped before it is added is lost.
DropMadeSink == CallBecomes({"none"}, "over") /\ LoseSink /\ UNCHANGED streamVars
DropMadeStream == CallBecomes({"none"}, "over") /\ LoseStream /\ UNCHANGED sinkVars

\* The application then drops the other port as well: it has no other use.
DropOtherMade ==
    /\ CallBecomes({"over"}, "over")
    /\ \/ LoseSink /\ UNCHANGED streamVars
       \/ LoseStream /\ UNCHANGED sinkVars

\* sink.add; its failure loses both ports.
AddFirst ==
    \/ CallBecomes({"none"}, "adding") /\ AddSink /\ UNCHANGED streamVars
    \/ CallBecomes({"none"}, "over") /\ LoseSink /\ LoseStream

\* Mutation: the sink is forgotten when the stream cannot be added.
AddSecondForgetsSink ==
    \/ CallBecomes({"adding"}, "adopted") /\ AddStream /\ UNCHANGED sinkVars
    \/ CallBecomes({"adding"}, "over") /\ LoseStream /\ UNCHANGED sinkVars

\* stream.add; its failure loses the stream and drops the sink.
AddSecond ==
    \/ CallBecomes({"adding"}, "adopted") /\ AddStream /\ UNCHANGED sinkVars
    \/ CallBecomes({"adding"}, "dropping") /\ LoseStream /\ UNCHANGED sinkVars

\* The call is dropped, or the future that holds it.
DropCall ==
    /\ CallBecomes({"adopted"}, "dropping")
    /\ UNCHANGED <<sinkVars, streamVars>>

\* Custom*MediaPortAdded::drop for both, one after the other: the sink first out
\* of a PjsuaCall, the stream first out of add's local variables.
DropPorts ==
    /\ Running
    /\ call = "dropping"
    /\ \/ /\ stream # "removed" /\ (RemoveSink \/ DestroySink)
          /\ UNCHANGED <<streamVars, call>>
       \/ /\ sink # "removed" /\ (RemoveStream \/ DestroyStream)
          /\ UNCHANGED <<sinkVars, call>>
       \/ /\ ~InBridge(sink) /\ sink # "removed"
          /\ ~InBridge(stream) /\ stream # "removed"
          /\ call' = "over"
          /\ UNCHANGED <<sinkVars, streamVars>>
    /\ UNCHANGED report

-----------------------------------------------------------------------------
(* pjsua's worker thread                                                    *)

\* on_call_media_state, once add has handed both slots over: the port of the call,
\* then connect_slots for the sink.  Neither waits for a drop, and a port that a drop
\* has taken out of the bridge cannot be connected; any failure ends the process.
ConnectFirst ==
    /\ Running
    /\ report = "none" /\ stream \notin {"made", "lost"}
    /\ \/ ConnectSink /\ report' = "half"
       \/ report' = "failed" /\ UNCHANGED sinkVars
    /\ UNCHANGED <<streamVars, call>>

\* The same callback goes on: connect_slots for the stream.
ConnectSecond ==
    /\ Running
    /\ report = "half"
    /\ \/ ConnectStream /\ report' = "done"
       \/ report' = "failed" /\ UNCHANGED streamVars
    /\ UNCHANGED <<sinkVars, call>>

\* The call's media ends, and with it the connections that are left.
MediaEnds ==
    /\ Running
    /\ report = "done" /\ report' = "ended"
    /\ DisconnectSink \/ (sink # "connected" /\ UNCHANGED sinkVars)
    /\ DisconnectStream \/ (stream # "connected" /\ UNCHANGED streamVars)
    /\ UNCHANGED call

-----------------------------------------------------------------------------

Owner ==
    \/ DropMadeSink \/ DropMadeStream \/ DropOtherMade
    \/ AddFirst \/ AddSecond \/ DropCall \/ DropPorts

Bridge ==
    /\ Running
    /\ \/ SinkTick /\ UNCHANGED streamVars
       \/ (StreamTick \/ StreamPutTick) /\ UNCHANGED sinkVars
    /\ UNCHANGED <<call, report>>

Worker == ConnectFirst \/ ConnectSecond \/ MediaEnds

Tasks ==
    /\ Running
    /\ \/ (Recv \/ DropRx) /\ UNCHANGED streamVars
       \/ (SendFrame \/ PollReady \/ PollFlush \/ CancelSend \/ DropTx) /\ UNCHANGED sinkVars
    /\ UNCHANGED <<call, report>>

Next == Owner \/ Bridge \/ Worker \/ Tasks

Spec == Init /\ [][Next]_vars

\* The scheduler runs the reader and the writer, a drop runs to its end, and the
\* bridge's clock ticks.  Nothing makes a call connect, end or be dropped.
Fairness ==
    /\ WF_vars(Running /\ Recv /\ UNCHANGED <<streamVars, call, report>>)
    /\ WF_vars(Running /\ (PollReady \/ PollFlush) /\ UNCHANGED <<sinkVars, call, report>>)
    /\ WF_vars(Running /\ StreamTick /\ UNCHANGED <<sinkVars, call, report>>)
    /\ WF_vars(AddSecond)
    /\ WF_vars(DropPorts)

FairSpec == Spec /\ Fairness

-----------------------------------------------------------------------------
(* What this looks like from outside, where adding and dropping take no time *)

Outside(port) ==
    IF call = "adding" \/ port = "made" THEN "none"
    ELSE IF port = "lost" \/ (port = "destroyed" /\ call = "over") THEN port
    ELSE "added"

Promised ==
    INSTANCE PortsPromise WITH
        sink   <- Outside(sink),
        stream <- Outside(stream),
        over   <- call = "over"

-----------------------------------------------------------------------------
(* Properties                                                               *)

\* Nothing of a call stays in the bridge: whichever of its steps failed, when the
\* call is over neither port is known to the bridge, and no port that was added
\* is left without its on_destroy (pjsua_call.rs:272, the drops of both ports).
PortsLeaveWithTheCall ==
    call = "over" => {sink, stream} \cap {"added", "connected", "removed"} = {}

\* The reader of a sink that was added ends once its call is dropped, also when
\* the call failed halfway and whatever a media report is about, unless this ends
\* the process.  Only a port that was lost keeps its reader waiting.
ReaderEnds == call = "dropping" ~> reader # "reading" \/ ~Running

\* A send waits for ever only on a port that no call listens to: one not yet
\* added or connected, disconnected since, or lost.
SendReturns == Waiting ~> ~Waiting \/ stream \in {"made", "added", "lost"} \/ ~Running

\* Every way in which ports are added, connected, disconnected and dropped, with
\* each step that may fail, comes to one of the outcomes of PortsPromise.
KeepsPorts == Promised!Spec
=============================================================================
