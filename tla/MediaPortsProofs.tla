-------------------------- MODULE MediaPortsProofs --------------------------
(***************************************************************************)
(* Proofs about MediaPorts, for channels of any capacity and any number of *)
(* frames: frames keep their order in both directions, the tail of the     *)
(* stream is all that a destroyed port loses, and no port stays in the     *)
(* bridge.                                                                 *)
(***************************************************************************)
EXTENDS MediaPorts, FiniteSetTheorems, TLAPS

\* What went through a channel, and what is in it.
InOrder == got \o rxq
OutOrder == played \o txq

\* A reader that has heard the end has read everything.
EndInv == reader = "ended" => sink = "destroyed" /\ rxq = <<>>

\* The reader's side: frames come from the bridge in order, all of them unless one
\* found the channel full or the reader left.
SinkInv ==
    /\ SinkTypeOK
    /\ EndInv
    /\ \A i \in 1..Len(InOrder) : InOrder[i] <= offered
    /\ \A i, j \in 1..Len(InOrder) : i < j => InOrder[i] < InOrder[j]
    /\ ~wasFull /\ reader # "gone" =>
          Len(InOrder) = offered /\ \A i \in 1..offered : InOrder[i] = i

\* The writer's side.  A sender is parked exactly as long as its message in excess
\* of the buffer is in the channel, and it has a frame to send.
RoomInv ==
    /\ ~parked => Len(txq) <= StreamBuffer
    /\ parked /\ ~Closed => Len(txq) = StreamBuffer + 1
    /\ Waiting => next <= StreamFrames

\* The frame that send is at is the latest that went through the channel, and is
\* there only if its send has queued it, this time or one that was cancelled.
LatestInv ==
    \A i \in 1..Len(OutOrder) :
        /\ OutOrder[i] <= next
        /\ OutOrder[i] = next => writer = "flush" \/ next \in doubtful

\* Until the port is destroyed, accepted frames are there, and the one that send
\* has queued.
KeptInv ==
    ~Closed =>
        /\ \A f \in accepted : \E i \in 1..Len(OutOrder) : OutOrder[i] = f
        /\ writer = "flush" => \E i \in 1..Len(OutOrder) : OutOrder[i] = next

StreamInv ==
    /\ StreamTypeOK
    /\ Closed => txq = <<>>
    /\ RoomInv
    /\ LatestInv
    /\ PlayedInOrder
    /\ KeptInv

\* Frames that send has queued or reported, and of them those not played.
Due == accepted \cup (IF writer = "flush" THEN {next} ELSE {})
Unplayed == {f \in Due : \A i \in 1..Len(played) : played[i] # f}

\* What a destroyed port has lost fits in the channel and came after what it played.
LostInv ==
    Closed =>
        /\ IsFiniteSet(Unplayed) /\ Cardinality(Unplayed) <= StreamBuffer + 1
        /\ \A f \in Unplayed : \A i \in 1..Len(played) : played[i] < f

\* Where the ports of a call are at each point of its life, and of its media report.
CallInv ==
    /\ call = "none" => sink = "made" /\ stream = "made"
    /\ call = "adding" => sink = "added" /\ stream = "made"
    /\ call = "adopted" => InBridge(sink) /\ InBridge(stream)
    /\ call = "dropping" => /\ sink \notin {"made", "lost"} /\ stream # "made"
                            /\ sink = "removed" => stream # "removed"
    /\ call = "over" => \/ sink = "destroyed" /\ stream \in {"destroyed", "lost"}
                        \/ sink \in {"made", "lost"} /\ stream \in {"made", "lost"}
    /\ stream \in {"made", "lost"} => report = "none"

\* The inductive invariant of the two ports and their call.
PortsInv == TypeOK /\ SinkInv /\ StreamInv /\ LostInv /\ CallInv

-----------------------------------------------------------------------------
(* Sequences                                                                *)

\* Lengths and elements of concatenations.
LEMMA ConcatFacts ==
    ASSUME NEW S, NEW s \in Seq(S), NEW t \in Seq(S)
    PROVE  /\ s \o t \in Seq(S)
           /\ Len(s \o t) = Len(s) + Len(t)
           /\ \A i \in 1..Len(s) : (s \o t)[i] = s[i]
           /\ \A i \in 1..Len(t) : (s \o t)[Len(s) + i] = t[i]
OBVIOUS

\* Sequences are equal if their lengths and elements are.
LEMMA SequenceEquality ==
    ASSUME NEW S, NEW s \in Seq(S), NEW t \in Seq(S), Len(s) = Len(t),
           \A i \in 1..Len(s) : s[i] = t[i]
    PROVE  s = t
OBVIOUS

\* Taking the head of a queue into a history changes nothing of the two together.
LEMMA MoveHead ==
    ASSUME NEW S, NEW s \in Seq(S), NEW t \in Seq(S), t # <<>>
    PROVE  /\ Append(s, Head(t)) \o Tail(t) = s \o t
           /\ Append(s, Head(t)) \in Seq(S)
           /\ Tail(t) \in Seq(S) /\ Len(Tail(t)) = Len(t) - 1
<1> DEFINE a == Append(s, Head(t))
           all == a \o Tail(t)
<1>1. Head(t) \in S /\ Tail(t) \in Seq(S) /\ Len(t) > 0 /\ Len(Tail(t)) = Len(t) - 1
  OBVIOUS
<1>2. /\ a \in Seq(S) /\ Len(a) = Len(s) + 1 /\ a[Len(s) + 1] = Head(t)
      /\ \A i \in 1..Len(s) : a[i] = s[i]
  BY <1>1
<1>3. \A i \in 1..Len(Tail(t)) : Tail(t)[i] = t[i + 1]
  BY <1>1
<1> HIDE DEF a
<1>4. /\ all \in Seq(S) /\ s \o t \in Seq(S)
      /\ Len(all) = Len(s \o t)
  BY <1>1, <1>2
<1>5. \A i \in 1..Len(all) : all[i] = (s \o t)[i]
  BY <1>1, <1>2, <1>3
<1> HIDE DEF all
<1>6. all = s \o t
  BY <1>4, <1>5, SequenceEquality
<1> QED BY <1>1, <1>2, <1>6 DEF all, a

\* The elements of a sequence of frame numbers are numbers.
LEMMA NumberedFrames ==
    ASSUME NEW N \in Nat, NEW s \in Seq(1..N)
    PROVE  Len(s) \in Nat /\ \A i \in 1..Len(s) : s[i] \in Nat
<1>1. ASSUME NEW i \in 1..Len(s) PROVE s[i] \in 1..N
  OBVIOUS
<1> QED BY <1>1

\* Putting something into the queue puts it last.
LEMMA AppendConcat ==
    ASSUME NEW S, NEW s \in Seq(S), NEW t \in Seq(S), NEW e \in S
    PROVE  /\ Append(t, e) \in Seq(S) /\ Len(Append(t, e)) = Len(t) + 1
           /\ s \o Append(t, e) \in Seq(S)
           /\ Len(s \o Append(t, e)) = Len(s \o t) + 1
           /\ \A i \in 1..Len(s \o t) : (s \o Append(t, e))[i] = (s \o t)[i]
           /\ (s \o Append(t, e))[Len(s \o t) + 1] = e
OBVIOUS

\* A sequence has no more elements than places.
LEMMA SequenceElements ==
    ASSUME NEW S, NEW s \in Seq(S), NEW T, NEW n \in Nat, Len(s) <= n,
           \A e \in T : \E i \in 1..Len(s) : s[i] = e
    PROVE  IsFiniteSet(T) /\ Cardinality(T) <= n
<1> DEFINE all == {s[i] : i \in 1..Len(s)}
           f == [i \in 1..Len(s) |-> s[i]]
<1>1. Len(s) \in Nat
  OBVIOUS
<1>2. f \in Surjection(1..Len(s), all)
  BY DEF Surjection
<1>3. IsFiniteSet(1..Len(s)) /\ Cardinality(1..Len(s)) = Len(s)
  <2>1. ASSUME NEW m \in Nat PROVE IsFiniteSet(1..m) /\ Cardinality(1..m) = m
    <3>1. 1 \in Int /\ m \in Int
      OBVIOUS
    <3>2. IsFiniteSet(1..m) /\ Cardinality(1..m) = IF 1 > m THEN 0 ELSE m - 1 + 1
      BY <3>1, FS_Interval
    <3> QED BY <3>2
  <2> QED BY <1>1, <2>1
<1>4. IsFiniteSet(all) /\ Cardinality(all) <= Len(s)
  <2> HIDE DEF f, all
  <2>1. IsFiniteSet(all) /\ Cardinality(all) <= Cardinality(1..Len(s))
    BY <1>2, <1>3, FS_Surjection
  <2> QED BY <1>3, <2>1
<1>5. T \in SUBSET all
  OBVIOUS
<1> HIDE DEF all
<1>6. IsFiniteSet(T) /\ Cardinality(T) <= Cardinality(all)
  BY <1>4, <1>5, FS_Subset
<1>7. Cardinality(T) \in Nat /\ Cardinality(all) \in Nat
  BY <1>4, <1>6, FS_CardinalityType
<1> QED BY <1>1, <1>4, <1>6, <1>7

-----------------------------------------------------------------------------
(* The sink                                                                 *)

\* A step of the sink, or of its reader.
SinkStep ==
    \/ SinkTick \/ Recv \/ DropRx
    \/ AddSink \/ LoseSink \/ ConnectSink \/ DisconnectSink \/ RemoveSink \/ DestroySink
    \/ UNCHANGED sinkVars

\* Every step of a sink keeps the sink's invariant.
LEMMA SinkStepInv == SinkInv /\ SinkStep => SinkInv'
<1> SUFFICES ASSUME SinkInv, SinkStep PROVE SinkInv'
  OBVIOUS
<1>0. /\ got \in Seq(1..SinkFrames) /\ rxq \in Seq(1..SinkFrames)
      /\ InOrder \in Seq(1..SinkFrames)
      /\ offered \in Nat /\ SinkFrames \in Nat /\ SinkCap \in Nat
      /\ Len(rxq) \in Nat /\ Len(rxq) <= SinkCap
  BY ConcatFacts, SinkAssumption DEF SinkInv, SinkTypeOK, InOrder
<1>a. /\ SinkTypeOK /\ EndInv
      /\ \A i \in 1..Len(InOrder) : InOrder[i] <= offered
      /\ \A i, j \in 1..Len(InOrder) : i < j => InOrder[i] < InOrder[j]
      /\ ~wasFull /\ reader # "gone" =>
            Len(InOrder) = offered /\ \A i \in 1..offered : InOrder[i] = i
  BY DEF SinkInv
<1>b. Len(InOrder) \in Nat /\ \A i \in 1..Len(InOrder) : InOrder[i] \in Nat
  BY <1>0, NumberedFrames
<1>1. CASE SinkTick
  <2>1. /\ offered' = offered + 1 /\ offered' \in 1..SinkFrames
        /\ UNCHANGED <<sink, reader, got>> /\ sink = "connected"
        /\ reader \in {"reading", "gone"}
    BY <1>1, <1>0, <1>a DEF SinkTick, SinkTypeOK, EndInv
  <2>2. CASE reader = "reading" /\ Len(rxq) < SinkCap /\ rxq' = Append(rxq, offered + 1)
             /\ UNCHANGED wasFull
    <3>1. /\ rxq' \in Seq(1..SinkFrames) /\ Len(rxq') <= SinkCap
          /\ Len(InOrder') = Len(InOrder) + 1
          /\ \A i \in 1..Len(InOrder) : InOrder'[i] = InOrder[i]
          /\ InOrder'[Len(InOrder) + 1] = offered + 1
      <4> DEFINE f == offered + 1
      <4>1. f \in 1..SinkFrames
        BY <2>1
      <4> HIDE DEF f
      <4>2. /\ Append(rxq, f) \in Seq(1..SinkFrames)
            /\ Len(Append(rxq, f)) = Len(rxq) + 1
            /\ Len(got \o Append(rxq, f)) = Len(got \o rxq) + 1
            /\ \A i \in 1..Len(got \o rxq) :
                  (got \o Append(rxq, f))[i] = (got \o rxq)[i]
            /\ (got \o Append(rxq, f))[Len(got \o rxq) + 1] = f
        BY <1>0, <4>1, AppendConcat
      <4>3. Len(rxq) + 1 <= SinkCap
        BY <1>0, <2>2
      <4> QED BY <2>1, <2>2, <4>2, <4>3 DEF InOrder, f
    <3>3. SinkTypeOK' /\ EndInv'
      BY <1>0, <1>a, <2>1, <2>2, <3>1 DEF SinkTypeOK, EndInv
    <3>4. ASSUME NEW i \in 1..Len(InOrder')
          PROVE  \/ /\ i \in 1..Len(InOrder) /\ InOrder'[i] = InOrder[i]
                    /\ InOrder'[i] <= offered
                 \/ i = Len(InOrder) + 1 /\ InOrder'[i] = offered + 1
      <4>1. i \in 1..Len(InOrder) \/ i = Len(InOrder) + 1
        BY <1>b, <3>1
      <4> QED BY <1>a, <3>1, <4>1
    <3>5. \A i \in 1..Len(InOrder') : InOrder'[i] <= offered'
      <4> TAKE i \in 1..Len(InOrder')
      <4>1. CASE i \in 1..Len(InOrder) /\ InOrder'[i] = InOrder[i] /\ InOrder'[i] <= offered
        BY <1>0, <1>b, <2>1, <4>1
      <4>2. CASE InOrder'[i] = offered + 1
        BY <1>0, <2>1, <4>2
      <4> QED BY <3>4, <4>1, <4>2
    <3>6. ASSUME NEW i \in 1..Len(InOrder'), NEW j \in 1..Len(InOrder'), i < j
          PROVE  InOrder'[i] < InOrder'[j]
      <4>1. i \in 1..Len(InOrder) /\ InOrder'[i] = InOrder[i] /\ InOrder'[i] <= offered
        BY <1>b, <3>1, <3>4, <3>6
      <4>2. CASE j \in 1..Len(InOrder) /\ InOrder'[j] = InOrder[j]
        BY <1>a, <3>6, <4>1, <4>2
      <4>3. CASE InOrder'[j] = offered + 1
        <5>1. InOrder[i] \in Nat /\ offered \in Nat
          BY <1>0, <1>b, <4>1
        <5> HIDE DEF InOrder
        <5>2. InOrder[i] < offered + 1
          BY <4>1, <5>1
        <5> QED BY <4>1, <4>3, <5>2
      <4> QED BY <3>4, <4>2, <4>3
    <3>7. ASSUME ~wasFull'
          PROVE  Len(InOrder') = offered' /\ \A i \in 1..offered' : InOrder'[i] = i
      <4>1. Len(InOrder) = offered /\ \A i \in 1..offered : InOrder[i] = i
        <5>1. ~wasFull /\ reader # "gone"
          BY <2>2, <3>7
        <5> QED BY <1>a, <5>1
      <4>2. ASSUME NEW i \in 1..(offered + 1) PROVE InOrder'[i] = i
        <5>1. i \in 1..offered \/ i = offered + 1
          BY <1>0
        <5> QED BY <3>1, <4>1, <5>1
      <4> QED BY <2>1, <3>1, <4>1, <4>2
    <3> QED BY <3>3, <3>5, <3>6, <3>7 DEF SinkInv
  <2>3. CASE \/ reader = "reading" /\ wasFull' = TRUE /\ UNCHANGED rxq
             \/ reader # "reading" /\ UNCHANGED <<rxq, wasFull>>
    <3>1. InOrder' = InOrder /\ (reader = "gone" \/ wasFull')
      BY <2>1, <2>3 DEF InOrder
    <3>2. SinkTypeOK' /\ EndInv'
      <4>1. rxq' = rxq /\ wasFull' \in BOOLEAN
        BY <1>a, <2>3 DEF SinkTypeOK
      <4>2. offered' \in 0..SinkFrames
        BY <1>0, <2>1
      <4> QED BY <1>a, <2>1, <4>1, <4>2 DEF SinkTypeOK, EndInv
    <3>3. \A i \in 1..Len(InOrder') : InOrder'[i] <= offered'
      BY <1>0, <1>a, <1>b, <2>1, <3>1
    <3> QED BY <1>a, <2>1, <3>1, <3>2, <3>3 DEF SinkInv
  <2> QED BY <1>1, <2>2, <2>3 DEF SinkTick, PutFrame
<1>2. CASE Recv
  <2>0. UNCHANGED <<sink, offered, wasFull>> /\ reader = "reading"
    BY <1>2 DEF Recv
  <2>1. CASE rxq # <<>> /\ got' = Append(got, Head(rxq)) /\ rxq' = Tail(rxq)
             /\ UNCHANGED reader
    <3>1. /\ got' \in Seq(1..SinkFrames) /\ rxq' \in Seq(1..SinkFrames)
          /\ Len(rxq') = Len(rxq) - 1 /\ InOrder' = InOrder
      <4>1. /\ Append(got, Head(rxq)) \o Tail(rxq) = got \o rxq
            /\ Append(got, Head(rxq)) \in Seq(1..SinkFrames)
            /\ Tail(rxq) \in Seq(1..SinkFrames) /\ Len(Tail(rxq)) = Len(rxq) - 1
        BY <1>0, <2>1, MoveHead
      <4> QED BY <2>1, <4>1 DEF InOrder
    <3>2. SinkTypeOK' /\ EndInv'
      BY <1>0, <1>a, <2>0, <2>1, <3>1 DEF SinkTypeOK, EndInv
    <3> QED BY <1>a, <2>0, <2>1, <3>1, <3>2 DEF SinkInv
  <2>2. CASE rxq = <<>> /\ sink = "destroyed" /\ reader' = "ended" /\ UNCHANGED <<rxq, got>>
    <3>1. InOrder' = InOrder
      BY <2>2 DEF InOrder
    <3>2. SinkTypeOK' /\ EndInv'
      BY <1>a, <2>0, <2>2 DEF SinkTypeOK, EndInv
    <3> QED BY <1>a, <2>0, <2>2, <3>1, <3>2 DEF SinkInv
  <2> QED BY <1>2, <2>1, <2>2 DEF Recv
<1>3. CASE DropRx
  <2>1. /\ rxq' = <<>> /\ reader' = "gone"
        /\ UNCHANGED <<sink, offered, got, wasFull>>
    BY <1>3 DEF DropRx
  <2>2. <<>> \in Seq(1..SinkFrames) /\ Len(<<>>) = 0
    OBVIOUS
  <2>3. InOrder' = got
    BY <1>0, <2>1 DEF InOrder
  <2>4. \A i \in 1..Len(got) : i \in 1..Len(InOrder) /\ InOrder[i] = got[i]
    BY <1>0, ConcatFacts DEF InOrder
  <2>5. SinkTypeOK' /\ EndInv'
    BY <1>0, <1>a, <2>1, <2>2 DEF SinkTypeOK, EndInv
  <2>6. /\ \A i \in 1..Len(got) : got[i] <= offered
        /\ \A i, j \in 1..Len(got) : i < j => got[i] < got[j]
    BY <1>a, <2>4
  <2> QED BY <2>1, <2>3, <2>5, <2>6 DEF SinkInv
<1>4. CASE \/ AddSink \/ LoseSink \/ ConnectSink \/ DisconnectSink \/ RemoveSink
           \/ DestroySink \/ UNCHANGED sinkVars
  <2>1. /\ UNCHANGED <<offered, rxq, reader, got, wasFull>>
        /\ sink' \in PortLives /\ (sink = "destroyed" => sink' = "destroyed")
    BY <1>4, <1>a DEF AddSink, LoseSink, ConnectSink, DisconnectSink, RemoveSink, InBridge,
                DestroySink, SinkBecomes, sinkVars, PortLives, SinkTypeOK
  <2>2. InOrder' = InOrder
    BY <2>1 DEF InOrder
  <2>3. SinkTypeOK' /\ EndInv'
    BY <1>a, <2>1 DEF SinkTypeOK, EndInv
  <2> QED BY <1>a, <2>1, <2>2, <2>3 DEF SinkInv
<1> QED BY <1>1, <1>2, <1>3, <1>4 DEF SinkStep

-----------------------------------------------------------------------------
(* The stream                                                               *)

\* A step of the writer, or of the bridge on the stream, or of its life.
StreamStep ==
    \/ SendFrame \/ PollReady \/ PollFlush \/ CancelSend \/ DropTx
    \/ StreamTick \/ StreamPutTick
    \/ AddStream \/ LoseStream \/ ConnectStream \/ DisconnectStream \/ RemoveStream
    \/ DestroyStream
    \/ UNCHANGED streamVars

\* The stream's invariant speaks of nothing but the stream.
LEMMA StreamUnchanged == StreamInv /\ UNCHANGED streamVars => StreamInv'
BY SMTT(30) DEF StreamInv, StreamTypeOK, Closed, Waiting, OutOrder, PlayedInOrder, RoomInv,
       LatestInv, KeptInv, streamVars

\* Every step of a stream keeps the stream's invariant.
LEMMA StreamStepInv == StreamInv /\ StreamStep => StreamInv'
<1> SUFFICES ASSUME StreamInv, StreamStep PROVE StreamInv'
  OBVIOUS
<1>0. /\ played \in Seq(1..StreamFrames) /\ txq \in Seq(1..StreamFrames)
      /\ OutOrder \in Seq(1..StreamFrames)
      /\ next \in Nat /\ StreamFrames \in Nat /\ StreamBuffer \in Nat
      /\ Len(txq) \in Nat
  BY ConcatFacts, StreamAssumption DEF StreamInv, StreamTypeOK, OutOrder
<1>a. Len(OutOrder) \in Nat /\ \A i \in 1..Len(OutOrder) : OutOrder[i] \in Nat
  BY <1>0, NumberedFrames
<1>b. StreamTypeOK /\ PlayedInOrder /\ (Closed => txq = <<>>)
  BY DEF StreamInv
<1>c. RoomInv /\ LatestInv /\ KeptInv
  BY DEF StreamInv
<1>1. CASE SendFrame \/ DropTx
  <2>1. /\ UNCHANGED <<stream, txq, parked, next, accepted, doubtful, played>>
        /\ writer = "idle" /\ writer' \in {"ready", "done"}
        /\ writer' = "ready" => next <= StreamFrames
    BY <1>1 DEF SendFrame, DropTx
  <2>2. OutOrder' = OutOrder
    BY <2>1 DEF OutOrder
  <2>3. StreamTypeOK' /\ PlayedInOrder' /\ (Closed' => txq' = <<>>)
    BY <1>b, <2>1 DEF StreamTypeOK, PlayedInOrder, Closed
  <2>4. RoomInv'
    BY <1>c, <2>1 DEF RoomInv, Waiting, Closed
  <2>5. LatestInv' /\ KeptInv'
    BY <1>c, <2>1, <2>2 DEF LatestInv, KeptInv, Closed
  <2> QED BY <2>3, <2>4, <2>5 DEF StreamInv
<1>2. CASE PollReady
  <2>0. writer = "ready" /\ UNCHANGED <<stream, next, accepted, doubtful, played>>
    BY <1>2 DEF PollReady
  <2>1. CASE Closed /\ writer' = "done" /\ UNCHANGED <<txq, parked>>
    <3>1. OutOrder' = OutOrder
      BY <2>0, <2>1 DEF OutOrder
    <3>2. StreamTypeOK' /\ PlayedInOrder' /\ (Closed' => txq' = <<>>)
      BY <1>b, <2>0, <2>1 DEF StreamTypeOK, PlayedInOrder, Closed
    <3>3. RoomInv' /\ LatestInv' /\ KeptInv'
      BY <1>c, <2>0, <2>1, <3>1 DEF RoomInv, Waiting, LatestInv, KeptInv, Closed
    <3> QED BY <3>2, <3>3 DEF StreamInv
  <2>2. CASE /\ ~Closed /\ ~parked /\ txq' = Append(txq, next)
             /\ parked' = (Len(txq) + 1 > StreamBuffer) /\ writer' = "flush"
    <3>2. next \in 1..StreamFrames
      BY <1>0, <1>b, <1>c, <2>0 DEF StreamTypeOK, RoomInv, Waiting
    <3>3. /\ txq' \in Seq(1..StreamFrames) /\ Len(txq') = Len(txq) + 1
          /\ Len(OutOrder') = Len(OutOrder) + 1
          /\ \A i \in 1..Len(OutOrder) : OutOrder'[i] = OutOrder[i]
          /\ OutOrder'[Len(OutOrder) + 1] = next
      BY <1>0, <2>0, <2>2, <3>2, AppendConcat DEF OutOrder
    <3>4. Len(txq) <= StreamBuffer
      BY <1>c, <2>2 DEF RoomInv
    <3>5. Len(txq') <= StreamBuffer + 1 /\ (~parked' => Len(txq') <= StreamBuffer)
          /\ parked' \in BOOLEAN
      <4>1. parked' <=> Len(txq) + 1 > StreamBuffer
        BY <2>2
      <4>2. parked' \in BOOLEAN
        BY <2>2
      <4> QED BY <1>0, <3>3, <3>4, <4>1, <4>2
    <3>6. StreamTypeOK' /\ RoomInv' /\ ~Closed'
      BY <1>0, <1>b, <2>0, <2>2, <3>2, <3>3, <3>5
         DEF StreamTypeOK, RoomInv, Waiting, Closed
    <3>7. ASSUME NEW i \in 1..Len(OutOrder')
          PROVE  \/ i \in 1..Len(OutOrder) /\ OutOrder'[i] = OutOrder[i]
                 \/ i = Len(OutOrder) + 1 /\ OutOrder'[i] = next
      BY <1>a, <3>3
    <3>8. LatestInv'
      <4>1. ASSUME NEW i \in 1..Len(OutOrder') PROVE OutOrder'[i] <= next
        BY <1>0, <1>c, <3>7 DEF LatestInv
      <4> QED BY <2>0, <2>2, <4>1 DEF LatestInv
    <3>9. ASSUME NEW i \in 1..Len(OutOrder'), NEW j \in 1..Len(OutOrder'), i < j
          PROVE  \/ OutOrder'[i] < OutOrder'[j]
                 \/ OutOrder'[i] = OutOrder'[j] /\ OutOrder'[i] \in doubtful
      <4>1. i \in 1..Len(OutOrder) /\ OutOrder'[i] = OutOrder[i]
        BY <1>a, <3>3, <3>7, <3>9
      <4>2. CASE j \in 1..Len(OutOrder) /\ OutOrder'[j] = OutOrder[j]
        BY <1>b, <3>9, <4>1, <4>2 DEF PlayedInOrder, OutOrder
      <4>3. CASE OutOrder'[j] = next
        <5>1. OutOrder[i] <= next /\ (OutOrder[i] = next => next \in doubtful)
          BY <1>c, <2>0, <4>1 DEF LatestInv
        <5> QED BY <1>0, <1>a, <4>1, <4>3, <5>1
      <4> QED BY <3>7, <4>2, <4>3
    <3>10. PlayedInOrder'
      BY ZenonT(40), <2>0, <3>9 DEF PlayedInOrder, OutOrder
    <3>11. KeptInv'
      <4>1. ASSUME NEW f \in accepted PROVE \E i \in 1..Len(OutOrder') : OutOrder'[i] = f
        <5>1. PICK i \in 1..Len(OutOrder) : OutOrder[i] = f
          BY <1>c, <2>2 DEF KeptInv
        <5> QED BY <1>a, <3>3, <5>1
      <4>2. Len(OutOrder) + 1 \in 1..Len(OutOrder')
        BY <1>a, <3>3
      <4> QED BY <2>0, <3>3, <4>1, <4>2 DEF KeptInv
    <3> QED BY <3>6, <3>8, <3>10, <3>11 DEF StreamInv
  <2> QED BY <1>2, <2>1, <2>2 DEF PollReady
<1>3. CASE PollFlush
  <2>1. /\ writer = "flush" /\ writer' = "idle" /\ next' = next + 1
        /\ accepted' = accepted \cup {next}
        /\ UNCHANGED <<stream, txq, parked, doubtful, played>>
    BY <1>3 DEF PollFlush
  <2>2. OutOrder' = OutOrder /\ next \in 1..StreamFrames
    BY <1>0, <1>b, <1>c, <2>1 DEF OutOrder, StreamTypeOK, RoomInv, Waiting
  <2>3. StreamTypeOK' /\ PlayedInOrder' /\ (Closed' => txq' = <<>>)
    BY SMTT(30), <1>0, <1>b, <2>1, <2>2 DEF StreamTypeOK, PlayedInOrder, Closed
  <2>4. RoomInv' /\ KeptInv'
    BY <1>c, <2>1, <2>2 DEF RoomInv, Waiting, KeptInv, Closed
  <2>5. LatestInv'
    BY <1>0, <1>a, <1>c, <2>1, <2>2 DEF LatestInv
  <2> QED BY <2>3, <2>4, <2>5 DEF StreamInv
<1>4. CASE CancelSend
  <2>1. /\ Waiting /\ writer' = "idle" /\ next' \in {next, next + 1}
        /\ doubtful' = IF writer = "flush" THEN doubtful \cup {next} ELSE doubtful
        /\ UNCHANGED <<stream, txq, parked, accepted, played>>
    BY <1>4 DEF CancelSend
  <2>2. OutOrder' = OutOrder /\ next \in 1..StreamFrames /\ doubtful \subseteq doubtful'
    BY <1>0, <1>b, <1>c, <2>1 DEF OutOrder, StreamTypeOK, RoomInv
  <2>3. StreamTypeOK'
    BY <1>0, <1>b, <2>1, <2>2 DEF StreamTypeOK
  <2>4. PlayedInOrder' /\ (Closed' => txq' = <<>>)
    BY <1>b, <2>1, <2>2 DEF PlayedInOrder, Closed
  <2>5. RoomInv' /\ KeptInv'
    BY <1>c, <2>1, <2>2 DEF RoomInv, Waiting, KeptInv, Closed
  <2>6. ASSUME NEW i \in 1..Len(OutOrder)
        PROVE  OutOrder[i] <= next' /\ (OutOrder[i] = next' => next' \in doubtful')
    <3>1. OutOrder[i] <= next /\ (OutOrder[i] = next => writer = "flush" \/ next \in doubtful)
      BY <1>c DEF LatestInv
    <3>2. CASE next' = next
      BY <2>1, <3>1, <3>2
    <3>3. CASE next' = next + 1
      BY <1>0, <1>a, <3>1, <3>3
    <3> QED BY <2>1, <3>2, <3>3
  <2>7. LatestInv'
    BY <2>2, <2>6 DEF LatestInv
  <2> QED BY <2>3, <2>4, <2>5, <2>7 DEF StreamInv
<1>6. CASE StreamTick \/ StreamPutTick
  <2>1. /\ UNCHANGED <<stream, writer, next, accepted, doubtful>> /\ ~Closed
        /\ GetFrame("audio") \/ GetFrame("none")
    BY <1>6 DEF StreamTick, StreamPutTick, Closed
  <2>2. CASE /\ txq # <<>> /\ played' = Append(played, Head(txq))
             /\ txq' = Tail(txq) /\ parked' = FALSE
    <3>1. /\ played' \in Seq(1..StreamFrames) /\ txq' \in Seq(1..StreamFrames)
          /\ Len(txq') = Len(txq) - 1 /\ OutOrder' = OutOrder
      BY SMTT(30), <1>0, <2>2, MoveHead DEF OutOrder
    <3>2. Len(txq') <= StreamBuffer /\ Len(txq') <= StreamBuffer + 1
      BY <1>0, <1>b, <3>1 DEF StreamTypeOK
    <3>3. StreamTypeOK' /\ ~Closed'
      BY <1>b, <2>1, <2>2, <3>1, <3>2 DEF StreamTypeOK, Closed
    <3>4. RoomInv' /\ LatestInv' /\ KeptInv'
      BY <1>c, <2>1, <2>2, <3>1, <3>2 DEF RoomInv, Waiting, LatestInv, KeptInv, Closed
    <3>5. PlayedInOrder'
      BY <1>b, <2>1, <3>1 DEF PlayedInOrder, OutOrder
    <3> QED BY <3>3, <3>4, <3>5 DEF StreamInv
  <2>3. CASE UNCHANGED <<txq, parked, played>>
    <3>1. UNCHANGED streamVars
      BY <2>1, <2>3 DEF streamVars
    <3> QED BY <3>1, StreamUnchanged
  <2> QED BY <2>1, <2>2, <2>3 DEF GetFrame
<1>7. CASE AddStream \/ LoseStream \/ ConnectStream \/ DisconnectStream \/ RemoveStream
  <2>1. /\ UNCHANGED <<txq, parked, writer, next, accepted, doubtful, played>>
        /\ stream' \in StreamLives /\ (Closed' <=> Closed)
    BY <1>7, <1>b DEF AddStream, LoseStream, ConnectStream, DisconnectStream, RemoveStream,
                StreamBecomes, StreamLives, Closed
  <2>2. OutOrder' = OutOrder
    BY <2>1 DEF OutOrder
  <2>3. StreamTypeOK' /\ PlayedInOrder' /\ (Closed' => txq' = <<>>)
    BY <1>b, <2>1 DEF StreamTypeOK, PlayedInOrder
  <2>4. RoomInv' /\ LatestInv' /\ KeptInv'
    BY <1>c, <2>1, <2>2 DEF RoomInv, Waiting, LatestInv, KeptInv
  <2> QED BY <2>3, <2>4 DEF StreamInv
<1>8. CASE DestroyStream
  <2>1. /\ stream' = "destroyed" /\ txq' = <<>>
        /\ UNCHANGED <<parked, writer, next, accepted, doubtful, played>>
    BY <1>8 DEF DestroyStream
  <2>2. <<>> \in Seq(1..StreamFrames) /\ Len(<<>>) = 0
    OBVIOUS
  <2>3. OutOrder' = played
    BY <1>0, <2>1 DEF OutOrder
  <2>4. \A i \in 1..Len(played) : i \in 1..Len(OutOrder) /\ OutOrder[i] = played[i]
    BY <1>0, ConcatFacts DEF OutOrder
  <2>5. StreamTypeOK' /\ Closed'
    BY <1>0, <1>b, <2>1, <2>2 DEF StreamTypeOK, StreamLives, Closed
  <2>6. ASSUME NEW i \in 1..Len(played), NEW j \in 1..Len(played), i < j
        PROVE  played[i] < played[j] \/ (played[i] = played[j] /\ played[i] \in doubtful)
    <3>1. \/ OutOrder[i] < OutOrder[j]
          \/ OutOrder[i] = OutOrder[j] /\ OutOrder[i] \in doubtful
      BY <1>b, <2>4, <2>6 DEF PlayedInOrder, OutOrder
    <3> QED BY <2>4, <3>1
  <2>7. PlayedInOrder'
    BY <2>1, <2>3, <2>6 DEF PlayedInOrder, OutOrder
  <2>8. RoomInv'
    BY <1>0, <1>c, <2>1, <2>2, <2>5 DEF RoomInv, Waiting
  <2>9. LatestInv' /\ KeptInv'
    BY <1>c, <2>1, <2>3, <2>4, <2>5 DEF LatestInv, KeptInv
  <2> QED BY <2>1, <2>5, <2>7, <2>8, <2>9 DEF StreamInv
<1>9. CASE UNCHANGED streamVars
  BY <1>9, StreamUnchanged
<1> QED BY <1>1, <1>2, <1>3, <1>4, <1>6, <1>7, <1>8, <1>9 DEF StreamStep

\* A port loses what its channel held when it was destroyed, and nothing later.
LEMMA LostStepInv == StreamInv /\ LostInv /\ StreamStep => LostInv'
<1> SUFFICES ASSUME StreamInv, LostInv, StreamStep, Closed' PROVE LostInv'
  BY DEF LostInv
<1>0. /\ played \in Seq(1..StreamFrames) /\ txq \in Seq(1..StreamFrames)
      /\ StreamBuffer + 1 \in Nat /\ Len(txq) <= StreamBuffer + 1
      /\ Len(played) \in Nat /\ Len(txq) \in Nat
  BY StreamAssumption DEF StreamInv, StreamTypeOK
<1>1. CASE DestroyStream
  <2>1. UNCHANGED <<writer, next, accepted, played>> /\ ~Closed
    BY <1>1 DEF DestroyStream, Closed
  <2>2. Unplayed' = Unplayed
    BY <2>1 DEF Unplayed, Due
  <2>3. /\ Len(OutOrder) = Len(played) + Len(txq)
        /\ \A i \in 1..Len(played) : OutOrder[i] = played[i]
        /\ \A i \in 1..Len(txq) : OutOrder[Len(played) + i] = txq[i]
    BY <1>0, ConcatFacts DEF OutOrder
  <2>4. ASSUME NEW f \in Unplayed
        PROVE  \E i \in 1..Len(txq) : txq[i] = f /\ OutOrder[Len(played) + i] = f
    <3>1. PICK k \in 1..Len(OutOrder) : OutOrder[k] = f
      BY <2>1 DEF StreamInv, KeptInv, Unplayed, Due
    <3>2. k \notin 1..Len(played)
      BY <2>3, <3>1 DEF Unplayed
    <3>3. k - Len(played) \in 1..Len(txq) /\ Len(played) + (k - Len(played)) = k
      BY <1>0, <2>3, <3>2
    <3> QED BY <2>3, <3>1, <3>3
  <2>5. IsFiniteSet(Unplayed) /\ Cardinality(Unplayed) <= StreamBuffer + 1
    BY <1>0, <2>4, SequenceElements
  <2>6. ASSUME NEW f \in Unplayed, NEW i \in 1..Len(played)
        PROVE  played[i] < f
    <3>1. PICK j \in 1..Len(txq) : OutOrder[Len(played) + j] = f
      BY <2>4
    <3>2. /\ i \in 1..Len(OutOrder) /\ Len(played) + j \in 1..Len(OutOrder)
          /\ i < Len(played) + j
      BY <1>0, <2>3
    <3>3. OutOrder[i] < f \/ OutOrder[i] = f
      BY <3>1, <3>2 DEF StreamInv, PlayedInOrder, OutOrder
    <3> QED BY <2>3, <3>3 DEF Unplayed
  <2> QED BY <2>1, <2>2, <2>5, <2>6 DEF LostInv
<1>2. CASE ~DestroyStream
  <2>1. Closed /\ played' = played /\ (UNCHANGED streamVars \/ SendFrame \/ PollReady
            \/ PollFlush \/ CancelSend \/ DropTx)
    BY <1>2 DEF StreamStep, Closed, StreamTick, StreamPutTick, AddStream, LoseStream,
       ConnectStream, DisconnectStream, RemoveStream, StreamBecomes, streamVars,
       SendFrame, PollReady, PollFlush, CancelSend, DropTx
  <2>2. Due' \subseteq Due
    <3>1. CASE PollFlush
      BY <3>1 DEF PollFlush, Due
    <3>2. CASE ~PollFlush
      BY <2>1, <3>2 DEF streamVars, SendFrame, PollReady, CancelSend, DropTx, Due
    <3> QED BY <3>1, <3>2
  <2>3. Unplayed' \in SUBSET Unplayed
    BY <2>1, <2>2 DEF Unplayed
  <2>4. /\ IsFiniteSet(Unplayed) /\ Cardinality(Unplayed) <= StreamBuffer + 1
        /\ \A f \in Unplayed : \A i \in 1..Len(played) : played[i] < f
    BY <2>1 DEF LostInv
  <2>5. IsFiniteSet(Unplayed') /\ Cardinality(Unplayed') <= Cardinality(Unplayed)
    BY <2>3, <2>4, FS_Subset
  <2>6. Cardinality(Unplayed) \in Nat /\ Cardinality(Unplayed') \in Nat
    BY <2>4, <2>5, FS_CardinalityType
  <2>7. Cardinality(Unplayed)' <= StreamBuffer + 1
    BY <1>0, <2>4, <2>5, <2>6
  <2> QED BY <2>1, <2>3, <2>4, <2>5, <2>7 DEF LostInv
<1> QED BY <1>1, <1>2

-----------------------------------------------------------------------------
(* The ports with their call                                                *)

\* The invariant of both ports holds before the call adds them.
LEMMA PortsInitInv == Init => PortsInv
<1> SUFFICES ASSUME Init PROVE PortsInv
  OBVIOUS
<1> USE DEF Init, SinkInit, StreamInit
<1>1. /\ <<>> \in Seq(1..SinkFrames) /\ <<>> \in Seq(1..StreamFrames)
      /\ Len(<<>>) = 0 /\ <<>> \o <<>> = <<>>
  OBVIOUS
<1>2. SinkTypeOK /\ StreamTypeOK
  <2>1. 0 \in 0..SinkFrames /\ 0 <= SinkCap
    BY SinkAssumption
  <2>2. 1 \in 1..(StreamFrames + 1) /\ 0 <= StreamBuffer + 1
    BY StreamAssumption
  <2>3. SinkTypeOK
    BY <1>1, <2>1 DEF SinkTypeOK, PortLives
  <2>4. StreamTypeOK
    BY <1>1, <2>2 DEF StreamTypeOK, StreamLives
  <2> QED BY <2>3, <2>4
<1>3. SinkInv
  BY <1>1, <1>2 DEF SinkInv, InOrder, EndInv
<1>4. StreamInv
  BY <1>1, <1>2, StreamAssumption
     DEF StreamInv, OutOrder, PlayedInOrder, Closed, Waiting, RoomInv, LatestInv, KeptInv
<1>5. TypeOK /\ CallInv
  BY <1>2 DEF TypeOK, CallInv
<1>6. LostInv
  BY DEF LostInv, Closed
<1> QED BY <1>3, <1>4, <1>5, <1>6 DEF PortsInv

\* Each step of the whole is a step of the sink's side, of the stream's, or both.
LEMMA StepsApart == [Next]_vars => SinkStep /\ StreamStep
<1> SUFFICES ASSUME [Next]_vars PROVE SinkStep /\ StreamStep
  OBVIOUS
<1> USE DEF SinkStep, StreamStep
<1>1. CASE Owner
  BY <1>1 DEF Owner, DropMadeSink, DropMadeStream, DropOtherMade, AddFirst, AddSecond,
              DropCall, DropPorts, sinkVars, streamVars
<1>2. CASE Bridge
  BY <1>2 DEF Bridge, sinkVars, streamVars
<1>3. CASE Worker
  BY <1>3 DEF Worker, ConnectFirst, ConnectSecond, MediaEnds
<1>4. CASE Tasks
  BY <1>4 DEF Tasks
<1>5. CASE UNCHANGED vars
  BY <1>5 DEF vars, sinkVars, streamVars
<1> QED BY <1>1, <1>2, <1>3, <1>4, <1>5 DEF Next

\* What the call has added and dropped agrees with where its ports are.
LEMMA CallStepInv ==
    ASSUME PortsInv, [Next]_vars
    PROVE  /\ CallInv'
           /\ call' \in {"none", "adding", "adopted", "dropping", "over"}
           /\ report' \in {"none", "half", "done", "ended", "failed"}
<1> USE DEF PortsInv, CallInv, TypeOK, SinkTypeOK, StreamTypeOK, PortLives, StreamLives,
            sinkVars, streamVars, CallBecomes, SinkBecomes, StreamBecomes, InBridge
<1>1. CASE DropMadeSink \/ DropMadeStream \/ DropOtherMade
  BY <1>1 DEF DropMadeSink, DropMadeStream, DropOtherMade, LoseSink, LoseStream
<1>2. CASE AddFirst \/ AddSecond \/ DropCall
  BY <1>2 DEF AddFirst, AddSecond, DropCall, AddSink, LoseSink, AddStream, LoseStream
<1>3. CASE DropPorts
  BY <1>3 DEF DropPorts, RemoveSink, DestroySink, RemoveStream, DestroyStream
<1>4. CASE Bridge
  BY <1>4 DEF Bridge, SinkTick, StreamTick, StreamPutTick
<1>5. CASE Worker
  BY <1>5 DEF Worker, ConnectFirst, ConnectSecond, MediaEnds, ConnectSink, ConnectStream,
              DisconnectSink, DisconnectStream
<1>6. CASE Tasks
  BY <1>6 DEF Tasks, Recv, DropRx, SendFrame, PollReady, PollFlush, CancelSend, DropTx
<1>7. CASE UNCHANGED vars
  BY <1>7 DEF vars
<1> QED BY <1>1, <1>2, <1>3, <1>4, <1>5, <1>6, <1>7 DEF Next, Owner

\* Every step of a call with its ports keeps the invariant.
LEMMA PortsNextInv == PortsInv /\ [Next]_vars => PortsInv'
<1> SUFFICES ASSUME PortsInv, [Next]_vars PROVE PortsInv'
  OBVIOUS
<1>1. SinkInv' /\ StreamInv'
  BY StepsApart, SinkStepInv, StreamStepInv DEF PortsInv
<1>3. LostInv'
  BY StepsApart, LostStepInv DEF PortsInv
<1>2. CallInv' /\ TypeOK'
  BY <1>1, CallStepInv DEF TypeOK, SinkInv, StreamInv
<1> QED BY <1>1, <1>2, <1>3 DEF PortsInv

\* The invariant of the two ports, for any capacities.
THEOREM PortsInvariant == Spec => []PortsInv
BY PortsInitInv, PortsNextInv, PTL DEF Spec

\* The reader gets the bridge's frames in order, and all unless the channel was full.
THEOREM ReaderGetsFramesInOrder == Spec => []FramesInOrder
<1>1. PortsInv => FramesInOrder
  <2> SUFFICES ASSUME PortsInv PROVE FramesInOrder
    OBVIOUS
  <2>1. /\ got \in Seq(1..SinkFrames) /\ rxq \in Seq(1..SinkFrames)
        /\ InOrder \in Seq(1..SinkFrames) /\ offered \in Nat
    BY ConcatFacts, SinkAssumption DEF PortsInv, SinkInv, SinkTypeOK, InOrder
  <2>2. ASSUME ~wasFull, reader # "gone"
        PROVE  InOrder = [i \in 1..offered |-> i]
    <3>1. Len(InOrder) = offered /\ \A i \in 1..offered : InOrder[i] = i
      BY <2>2 DEF PortsInv, SinkInv
    <3>2. InOrder = [i \in 1..Len(InOrder) |-> InOrder[i]]
      BY <2>1
    <3> QED BY <3>1, <3>2
  <2> QED BY <2>2 DEF FramesInOrder, PortsInv, SinkInv, InOrder
<1> QED BY <1>1, PortsInvariant, PTL

\* The bridge gets the writer's frames in order, none twice but by a repeated send.
THEOREM BridgeGetsFramesInOrder == Spec => []PlayedInOrder
<1>1. PortsInv => PlayedInOrder
  BY DEF PortsInv, StreamInv
<1> QED BY <1>1, PortsInvariant, PTL

\* A frame that send accepted is played, unless the port is destroyed with the tail
\* of the stream in its channel.
THEOREM AcceptedFramesAreKept == Spec => []AcceptedIsKept
<1>1. PortsInv => AcceptedIsKept
  <2> SUFFICES ASSUME PortsInv PROVE AcceptedIsKept
    OBVIOUS
  <2> DEFINE lost == accepted \ ToSet(played \o txq)
  <2>1. /\ OutOrder \in Seq(1..StreamFrames) /\ StreamBuffer + 1 \in Nat
        /\ DOMAIN OutOrder = 1..Len(OutOrder)
    BY ConcatFacts, StreamAssumption DEF PortsInv, StreamInv, StreamTypeOK, OutOrder
  <2>2. ToSet(played \o txq) = {OutOrder[i] : i \in 1..Len(OutOrder)}
    BY <2>1 DEF ToSet, OutOrder
  <2>3. CASE ~Closed
    <3>1. lost = {}
      BY <2>2, <2>3 DEF PortsInv, StreamInv, KeptInv
    <3>2. Cardinality(lost) = 0
      BY <3>1, FS_EmptySet
    <3> QED BY <2>1, <3>1, <3>2 DEF AcceptedIsKept
  <2>4. CASE Closed
    <3>1. OutOrder = played
      BY <2>4 DEF PortsInv, StreamInv, StreamTypeOK, OutOrder
    <3>2. lost \in SUBSET Unplayed
      BY <2>2, <3>1 DEF Unplayed, Due
    <3>3. /\ IsFiniteSet(Unplayed) /\ Cardinality(Unplayed) <= StreamBuffer + 1
          /\ \A f \in Unplayed : \A i \in 1..Len(played) : played[i] < f
      BY <2>4 DEF PortsInv, LostInv
    <3> HIDE DEF lost
    <3>4. IsFiniteSet(lost) /\ Cardinality(lost) <= Cardinality(Unplayed)
      BY <3>2, <3>3, FS_Subset
    <3>5. Cardinality(lost) \in Nat /\ Cardinality(Unplayed) \in Nat
      BY <3>3, <3>4, FS_CardinalityType
    <3>6. /\ Cardinality(lost) <= StreamBuffer + 1
          /\ \A f \in lost : \A i \in 1..Len(played) : played[i] < f
      BY <2>1, <3>2, <3>3, <3>4, <3>5
    <3> QED BY <2>4, <3>6 DEF AcceptedIsKept, Closed, lost
  <2> QED BY <2>3, <2>4
<1> QED BY <1>1, PortsInvariant, PTL

\* When a call is over, whatever failed, its ports have left the bridge.
THEOREM PortsAlwaysLeave == Spec => []PortsLeaveWithTheCall
<1>1. PortsInv => PortsLeaveWithTheCall
  BY DEF PortsInv, CallInv, PortsLeaveWithTheCall
<1> QED BY <1>1, PortsInvariant, PTL

-----------------------------------------------------------------------------
(* The safety half of SendReturns: what a waiting send waits for is there.  *)

\* Every audio frame that the bridge asks for leaves the sender awake: a parked
\* sender has its excess message in the channel, so get_frame finds a message, and
\* taking it unparks (pjmedia_port_audio_stream.rs:39, try_next).
TicksWakeTheSender == [][StreamTick => ~parked']_vars

\* A parked sender never waits for a message that nobody will take.
THEOREM SendersAreWoken == Spec => TicksWakeTheSender
<1>1. PortsInv /\ StreamTick => ~parked'
  <2> SUFFICES ASSUME PortsInv, StreamTick PROVE ~parked'
    OBVIOUS
  <2>1. parked => Len(txq) = StreamBuffer + 1
    BY DEF PortsInv, StreamInv, RoomInv, StreamTick, Closed
  <2>2. txq = <<>> => Len(txq) = 0
    OBVIOUS
  <2>3. txq = <<>> => ~parked
    BY <2>1, <2>2, StreamAssumption
  <2> QED BY <2>3 DEF StreamTick, GetFrame
<1>2. PortsInv /\ [Next]_vars => [StreamTick => ~parked']_vars
  BY <1>1
<1> QED BY <1>2, PortsInvariant, PTL DEF Spec, TicksWakeTheSender

-----------------------------------------------------------------------------
(* Refinement: from outside, adding and dropping the ports are one step.    *)

\* Each step of the owner, the bridge, pjsua's thread and the tasks is a step of
\* PortsPromise, or none.
LEMMA PortsStepKept ==
    ASSUME PortsInv, PortsInv', [Next]_vars
    PROVE  [Promised!Next]_(Promised!vars)
<1> DEFINE seen == <<Outside(sink), Outside(stream), call = "over">>
<1> SUFFICES Promised!Next \/ seen' = seen
  BY DEF Promised!vars
<1> USE DEF CallBecomes, SinkBecomes, StreamBecomes, InBridge
<1>1. /\ CallInv /\ CallInv'
      /\ sink \in PortLives /\ stream \in PortLives
      /\ sink' \in PortLives /\ stream' \in PortLives
  BY DEF PortsInv, SinkInv, StreamInv, SinkTypeOK, StreamTypeOK, PortLives, StreamLives
<1>2. CASE DropMadeSink \/ DropMadeStream \/ DropOtherMade
  BY <1>1, <1>2 DEF DropMadeSink, DropMadeStream, DropOtherMade, LoseSink, LoseStream,
     CallInv, Outside, sinkVars, streamVars, Promised!Next, Promised!Discard,
     Promised!InBridge
<1>3. CASE AddFirst
  BY <1>1, <1>3 DEF AddFirst, AddSink, LoseSink, LoseStream, CallInv, Outside, streamVars,
     Promised!Next, Promised!Add, Promised!InBridge
<1>4. CASE AddSecond
  BY <1>1, <1>4 DEF AddSecond, AddStream, LoseStream, CallInv, Outside, sinkVars,
     Promised!Next, Promised!Add, Promised!InBridge
<1>5. CASE DropCall
  BY <1>1, <1>5 DEF DropCall, CallInv, Outside, sinkVars, streamVars
<1>6. CASE DropPorts
  <2>1. CASE call' = call
    BY <1>1, <1>6, <2>1 DEF DropPorts, RemoveSink, DestroySink, RemoveStream,
       DestroyStream, CallInv, Outside, sinkVars, streamVars, PortLives
  <2>2. CASE call' = "over" /\ UNCHANGED <<sink, stream>>
    <3>1. /\ sink = "destroyed" /\ stream \in {"destroyed", "lost"}
          /\ call = "dropping"
      BY <1>1, <1>6, <2>2 DEF DropPorts, CallInv, PortLives
    <3>2. Promised!Leave /\ Promised!Next
      BY <2>2, <3>1 DEF Outside, Promised!Leave, Promised!Next, Promised!InBridge
    <3> QED BY <3>2
  <2> QED BY <1>6, <2>1, <2>2 DEF DropPorts, sinkVars, streamVars
<1>7. CASE Worker
  BY <1>1, <1>7 DEF Worker, ConnectFirst, ConnectSecond, MediaEnds, ConnectSink,
     ConnectStream, DisconnectSink, DisconnectStream, Outside, sinkVars, streamVars
<1>8. CASE Bridge \/ Tasks \/ UNCHANGED vars
  <2>1. UNCHANGED <<sink, stream, call>>
    BY <1>8 DEF Bridge, Tasks, SinkTick, StreamTick, StreamPutTick, Recv, DropRx,
       SendFrame, PollReady, PollFlush, CancelSend, DropTx, vars, sinkVars, streamVars
  <2> QED BY <2>1 DEF Outside
<1> QED
  BY <1>2, <1>3, <1>4, <1>5, <1>6, <1>7, <1>8 DEF Next, Owner

\* MediaPorts implements PortsPromise, for channels of any capacity.
THEOREM MediaPortsKeepPorts == Spec => KeepsPorts
<1>1. Init => Promised!Init
  BY DEF Init, SinkInit, StreamInit, Outside, Promised!Init
<1>2. PortsInv /\ PortsInv' /\ [Next]_vars => [Promised!Next]_(Promised!vars)
  BY PortsStepKept
<1> QED BY <1>1, <1>2, PortsInvariant, PTL DEF Spec, KeepsPorts, Promised!Spec

-----------------------------------------------------------------------------
(* The safety half of ReaderEnds: a drop always has a next step, and an end. *)

StepsOf(port) == IF InBridge(port) THEN 2 ELSE IF port = "removed" THEN 1 ELSE 0

\* How many steps of DropPorts are left in a drop.
StepsLeft == StepsOf(sink) + StepsOf(stream) + (IF call = "dropping" THEN 1 ELSE 0)

\* One of the ports can take its next step, or both have left.
DropCanGoOn ==
    \/ stream # "removed" /\ (InBridge(sink) \/ sink = "removed")
    \/ sink # "removed" /\ (InBridge(stream) \/ stream = "removed")
    \/ {StepsOf(sink), StepsOf(stream)} = {0}

\* A drop of the ports never waits for anything, and each of its steps brings it
\* nearer to its end, whatever the bridge, the reader and the writer do meanwhile
\* (pjmedia_port_audio_sink.rs:192, pjmedia_port_audio_stream.rs, both drops).
DropsTakeFiveSteps ==
    /\ [](call = "dropping" => DropCanGoOn /\ StepsLeft \in 1..5)
    /\ [][call = "dropping" => /\ DropPorts => StepsLeft' < StepsLeft
                               /\ StepsLeft' <= StepsLeft]_vars

\* Every drop of a call's ports gets done, for channels of any capacity.
THEOREM DropsGetDone == Spec => DropsTakeFiveSteps
<1>1. PortsInv => (call = "dropping" => DropCanGoOn /\ StepsLeft \in 1..5)
  <2> SUFFICES ASSUME PortsInv, call = "dropping"
               PROVE  DropCanGoOn /\ StepsLeft \in 1..5
    OBVIOUS
  <2>1. StepsOf(sink) \in 0..2 /\ StepsOf(stream) \in 0..2
    BY DEF StepsOf
  <2>2. sink = "removed" => stream # "removed"
    BY DEF PortsInv, CallInv
  <2>3. DropCanGoOn
    BY <2>2 DEF DropCanGoOn, StepsOf
  <2> QED BY <2>1, <2>3 DEF StepsLeft
<1>2. PortsInv /\ [Next]_vars =>
          [call = "dropping" => /\ DropPorts => StepsLeft' < StepsLeft
                                /\ StepsLeft' <= StepsLeft]_vars
  <2> SUFFICES ASSUME PortsInv, Next, call = "dropping"
               PROVE  /\ DropPorts => StepsLeft' < StepsLeft
                      /\ StepsLeft' <= StepsLeft
    OBVIOUS
  <2> USE DEF CallBecomes, SinkBecomes, StreamBecomes
  <2>1. CASE DropPorts
    <3>1. \/ /\ StepsOf(sink') < StepsOf(sink) /\ stream' = stream /\ call' = call
          \/ /\ StepsOf(stream') < StepsOf(stream) /\ sink' = sink /\ call' = call
          \/ /\ call' = "over" /\ UNCHANGED <<sink, stream>>
      BY <2>1 DEF DropPorts, RemoveSink, DestroySink, RemoveStream, DestroyStream,
         StepsOf, InBridge, sinkVars, streamVars
    <3>2. /\ StepsOf(sink) \in 0..2 /\ StepsOf(stream) \in 0..2
          /\ StepsOf(sink') \in 0..2 /\ StepsOf(stream') \in 0..2
      BY DEF StepsOf
    <3> QED BY <3>1, <3>2 DEF StepsLeft
  <2>2. CASE Bridge \/ Tasks
    <3>1. UNCHANGED <<sink, stream, call>>
      BY <2>2 DEF Bridge, Tasks, SinkTick, StreamTick, StreamPutTick, Recv, DropRx,
         SendFrame, PollReady, PollFlush, CancelSend, DropTx, sinkVars, streamVars
    <3>2. StepsLeft' = StepsLeft /\ StepsLeft \in Nat
      BY <3>1 DEF StepsLeft, StepsOf
    <3>3. ~DropPorts
      BY <3>1 DEF DropPorts, RemoveSink, DestroySink, RemoveStream, DestroyStream, InBridge
    <3> QED BY <3>2, <3>3
  <2>3. CASE Worker
    <3>1. /\ call' = call
          /\ sink' = sink \/ {sink, sink'} = {"added", "connected"}
          /\ stream' = stream \/ {stream, stream'} = {"added", "connected"}
      BY <2>3 DEF Worker, ConnectFirst, ConnectSecond, MediaEnds, ConnectSink,
         ConnectStream, DisconnectSink, DisconnectStream, sinkVars, streamVars
    <3>2. StepsLeft' = StepsLeft /\ StepsLeft \in Nat
      BY <3>1 DEF StepsLeft, StepsOf, InBridge
    <3>3. ~DropPorts
      BY <2>3 DEF DropPorts, Worker, ConnectFirst, ConnectSecond, MediaEnds
    <3> QED BY <3>2, <3>3
  <2>4. Owner => DropPorts
    BY DEF Owner, DropMadeSink, DropMadeStream, DropOtherMade, AddFirst, AddSecond, DropCall
  <2> QED BY <2>1, <2>2, <2>3, <2>4 DEF Next
<1> QED BY <1>1, <1>2, PortsInvariant, PTL DEF Spec, DropsTakeFiveSteps
=============================================================================
