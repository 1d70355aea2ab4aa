----------------------------- MODULE MediaFormat -----------------------------
(***************************************************************************)
(* The arithmetic of pjsip-client's media: the format of a port, the size  *)
(* of a frame on its way from send to the bridge, the time of a frame on   *)
(* its way from the bridge to recv.                                        *)
(*                                                                         *)
(* A behaviour makes one stream port from the arguments of new, passes one *)
(* frame to the bridge and takes any number from it.  What the bridge      *)
(* computes from the format is external: it keeps the length of a frame in *)
(* microseconds and derives the number of samples from that                *)
(* (PJMEDIA_AFD_SPF).  So is pj_elapsed_nanosec, which takes the stamps of *)
(* frames for ticks of the machine's clock.                                *)
(***************************************************************************)
EXTENDS Integers

CONSTANTS
    Rates,          \* sample_rate
    ChannelCounts,  \* channels_count
    FrameLengths,   \* samples_per_frame
    Stamps,         \* time stamps of the bridge's frames, in samples
    Clocks,         \* the machine's clock: so many ticks last so many nanoseconds
    FieldRange,     \* values of a u32 of pjmedia_audio_format_detail (2^32)
    StampRange      \* values of the u32 of pj_elapsed_nanosec (2^32)

Usec == 1000000
BitsPerSample == 16
BytesInSample == BitsPerSample \div 8

\* channels_count as u32 is exact; the u64 products of lengths do not overflow,
\* as numbers here never do.
ASSUME FormatAssumption ==
    /\ FieldRange \in Nat /\ FieldRange >= Usec
    /\ StampRange \in Nat \ {0}
    /\ Rates \cup ChannelCounts \subseteq 0..(FieldRange - 1)
    /\ FrameLengths \cup Stamps \subseteq Nat
    /\ Clocks \subseteq [nanos : Nat \ {0}, ticks : Nat \ {0}]

VARIABLES
    args,      \* the arguments of CustomStreamMediaPort::new
    clock,     \* the clock of the machine
    port,      \* "none", "ok", "refused" (Err), "panicked"
    queued,    \* length of the frame in the channel, in i16
    copied,    \* get_frame: "no", "fits", "overrun" (the bridge's frame), "panicked"
    received   \* the last frame made of what the bridge put

vars == <<args, clock, port, queued, copied, received>>

NoFrame == [time |-> 0, stamp |-> 0]

Args == [rate : Rates, channels : ChannelCounts, samples : FrameLengths]

-----------------------------------------------------------------------------
(* Formats                                                                  *)

\* Mutation: the division comes before the multiplication.
FrameTimeDividesFirst(f) == (((f.samples \div f.rate) \div f.channels) * Usec) % FieldRange

\* frame_time_usec; the multiplication first, then both divisions truncate, and
\* the field keeps the low 32 bits.
FrameTime(f) == (((f.samples * Usec) \div f.channels) \div f.rate) % FieldRange

\* Mutation: the division comes before the multiplication.
PortTimeDividesFirst(f) == ((f.samples \div f.channels) \div f.rate) * 1000

\* port_ptime in perform_pjmedia_format_checks_zero_division.
PortTime(f) == ((f.samples \div f.channels) * 1000) \div f.rate

\* The u32 product avg_bps, rate * channels * 16, does not fit: a panic in a build
\* with overflow checks; otherwise it wraps, and nothing reads it.
BitRateOverflows(f) == f.rate * f.channels >= FieldRange \div BitsPerSample

\* port_format: the divisions panic on zero before anything is checked.
PortFormat(f) ==
    IF f.channels = 0 \/ f.rate = 0 THEN {"panicked"}
    ELSE (IF BitRateOverflows(f) THEN {"panicked"} ELSE {})
         \cup {IF PortTime(f) = 0 THEN "refused" ELSE "ok"}

\* The bridge's view of a format: samples in a frame, and its length in whole
\* milliseconds, by which the bridge divides when the port is added.
BridgeSamples(f) == (FrameTime(f) * f.rate * f.channels) \div Usec
BridgeTime(f) == ((BridgeSamples(f) \div f.channels) * 1000) \div f.rate

-----------------------------------------------------------------------------
(* Frames                                                                   *)

\* Mutation: a short frame is padded to as many i16 as the port has samples.
SendPadsToSamples(len) ==
    IF len \div BytesInSample > args.samples THEN {}
    ELSE IF len < args.samples THEN {args.samples}
    ELSE {len}

\* Mutation: longer frames are let through.
SentUnchecked(len) ==
    IF len \div BytesInSample < args.samples THEN {args.samples * BytesInSample}
    ELSE {len}

\* send: the length of data, which counts i16, is divided by the bytes of one.
\* Longer frames are refused; shorter ones are padded to samples * bytes.
Sent(len) ==
    IF len \div BytesInSample > args.samples THEN {}
    ELSE IF len \div BytesInSample < args.samples THEN {args.samples * BytesInSample}
    ELSE {len}

\* get_frame makes a slice of twice the size of the bridge's frame and copies if
\* the frame has as many bytes; then more are written than the bridge asked for.
Copy(len) ==
    LET size == BridgeSamples(args) * BytesInSample
        bytes == len * BytesInSample
    IN  IF bytes # size * 2 THEN "panicked"
        ELSE IF bytes > size THEN "overrun"
        ELSE "fits"

\* Mutation: the channels are left out.
SampleDurationOfOneChannel == Usec \div args.rate

\* sample_duration, in microseconds; both divisions truncate.
SampleDuration == (Usec \div args.channels) \div args.rate

\* What pj_elapsed_nanosec counts from zero to a stamp.
Nanoseconds(stamp) == (stamp * clock.nanos) \div clock.ticks

\* Mutation: the result goes through an i32, whose sign is dropped.
ElapsedInHalf(stamp) == Nanoseconds(stamp) % (StampRange \div 2)

\* get_samples_diff: the nanoseconds, in a u32, pass for samples.
Elapsed(stamp) == Nanoseconds(stamp) % StampRange

\* from_raw_frame.
RawFrame(stamp) == [time |-> Elapsed(stamp) * SampleDuration, stamp |-> stamp]

-----------------------------------------------------------------------------

Init ==
    /\ args \in Args
    /\ clock \in Clocks
    /\ port = "none"
    /\ queued = 0
    /\ copied = "no"
    /\ received = NoFrame

New ==
    /\ port = "none"
    /\ port' \in PortFormat(args)
    /\ UNCHANGED <<args, clock, queued, copied, received>>

\* The lengths tried are those around what send compares with, and what the
\* name samples_per_frame suggests.
Send ==
    /\ port = "ok" /\ queued = 0
    /\ \E len \in {0, 1, args.samples} \cup (2 * args.samples - 1)..(2 * args.samples + 3) :
           queued' \in Sent(len)
    /\ UNCHANGED <<args, clock, port, copied, received>>

GetFrame ==
    /\ queued # 0 /\ copied = "no"
    /\ copied' = Copy(queued)
    /\ UNCHANGED <<args, clock, port, queued, received>>

\* put_frame ignores empty frames.  The bridge's stamps grow from frame to frame.
PutFrame ==
    /\ port = "ok" /\ BridgeSamples(args) > 0
    /\ \E stamp \in Stamps :
           /\ stamp > received.stamp
           /\ received' = RawFrame(stamp)
    /\ UNCHANGED <<args, clock, port, queued, copied>>

Next == New \/ Send \/ GetFrame \/ PutFrame

Spec == Init /\ [][Next]_vars

-----------------------------------------------------------------------------
(* What formats mean, without the code's truncations                        *)

Pace(f) == f.rate * f.channels

\* A frame of f lasts a whole number of microseconds.
WholeMicroseconds(f) == (f.samples * Usec) % Pace(f) = 0

\* It lasts longer than the field of the format can tell, 71 minutes.
Wraps(f) == (f.samples * Usec) \div Pace(f) >= FieldRange

\* The complete groups of n samples last a millisecond.
LongEnough(f, n) == (n - (n % f.channels)) * 1000 >= Pace(f)

\* The most samples that the bridge can miss.
Lost(f) == 1 + (Pace(f) \div Usec)

-----------------------------------------------------------------------------
(* Properties                                                               *)

TypeOK ==
    /\ args \in Args
    /\ clock \in Clocks
    /\ port \in {"none", "ok", "refused", "panicked"}
    /\ queued \in 0..(2 * args.samples + 1)
    /\ copied \in {"no", "fits", "overrun", "panicked"}
    /\ received \in [time : Nat, stamp : Nat]

\* The check refuses exactly the formats whose complete sample groups last less
\* than a millisecond, for all its truncations (pjmedia_api.rs:13).
RefusesShortFrames ==
    port \in {"ok", "refused"} => (port = "ok" <=> LongEnough(args, args.samples))

\* The check is there so that the bridge never divides by zero (pjmedia_api.rs:16).
\* It does divide by zero for an open port, but only if the length of a frame does
\* not fit its field, or is not a whole number of microseconds and within the few
\* samples that are lost by that of being refused.
BridgeDividesByTime ==
    port = "ok" =>
        /\ Wraps(args) \/ BridgeSamples(args) \in (args.samples - Lost(args))..args.samples
        /\ BridgeTime(args) = 0 =>
               \/ Wraps(args)
               \/ /\ ~WholeMicroseconds(args)
                  /\ Lost(args) <= args.samples =>
                         ~LongEnough(args, args.samples - Lost(args))

\* get_frame (stream.rs:51) ends the process for every frame that send let through,
\* padded or not, if the length of a frame is no whole number of microseconds, or
\* does not fit its field; and for those of odd length.  Any other it copies, and
\* writes past the end of the bridge's frame.
SentFramesMatch ==
    copied # "no" =>
        copied = IF WholeMicroseconds(args) /\ ~Wraps(args) /\ queued % 2 = 0
                   THEN "overrun"
                   ELSE "panicked"

\* If the clock has a tick in every nanosecond, or fewer nanoseconds than ticks, the
\* time of a received frame is never ahead of the samples that have passed.  If a
\* tick is a nanosecond, and until the u32 wraps, it lags behind by less than a
\* microsecond a sample, and not at all when a sample lasts whole microseconds.
TimesLag ==
    LET n == received.stamp
        pace == Pace(args)
    IN  n > 0 /\ clock.nanos <= clock.ticks =>
            /\ received.time * pace <= n * Usec
            /\ clock.nanos = clock.ticks /\ n < StampRange =>
                   /\ n * Usec < (received.time + n) * pace
                   /\ Usec % pace = 0 => received.time * pace = n * Usec

\* From one received frame to the next time goes back only if the u32 of
\* pj_elapsed_nanosec has wrapped in between, whatever the clock.
TimesGoForward ==
    [][received'.time < received.time =>
           Nanoseconds(received'.stamp) \div StampRange
               > Nanoseconds(received.stamp) \div StampRange]_received
=============================================================================
