# A verification development for pjsip-client

`pjsip-client` wraps the C library pjsua in async Rust: one instance per process,
accounts that receive calls, handles that own a call, and custom media ports. This
directory holds TLA+ modules of that code, TLC configurations that check them on small
instances, and TLAPS proofs of the results that should hold for every instance. Source
paths below are relative to `src/src/`, unless they begin with `examples/`.

## 1. The system

| Component | State it keeps | Operations | Modelled by |
|---|---|---|---|
| Instance typestate (`pjsua_softphone_api.rs`) | `INSTANCE_CRATED` under a static mutex; the value a thread holds and its fields; pjsua's own state | `get_instance`, `init`, `set_transport`, `start`, drops | `PjsuaInstance`, `InstancePromise`, `Softphone` |
| Accounts (`pjsua_account_config.rs`) | user data lent to pjsua; a channel of 10 incoming calls | `add_account`, `next_call`, drop | `PjsuaCall`, `Softphone` |
| Calls and handles (`pjsua_call.rs`) | call id, boxed user data lent to pjsua, a channel of 3 call states, a oneshot with the media slots | `new`, `answer_session_progress`, `reject`, `add`, `await_hangup`, `hangup`, drop | `PjsuaCall`, `CallPromise` |
| Callbacks (`pjsua_config.rs`) | none of their own: they follow the lent pointers | `on_incoming_call`, `on_call_state`, `on_call_media_state` | `PjsuaCall` |
| Blocking pool (`tokio_utils.rs`) | registration of pool threads with pjlib | `spawn_blocking_pjsua` | `BlockingPool`, `Softphone`; the jobs' effects in `PjsuaCall` |
| Media ports (`pjmedia/pjmedia_port_audio_{sink,stream}.rs`) | `MediaPortData` lent to pjmedia, queues of 512 frames | `new`, `add`, frame callbacks, `send`, `recv`, `on_destroy`, drop | `MediaSink`, `MediaStream`, `MediaPorts`; `add` and drop also in `PjsuaCall`, tied together by `PortsPromise` |
| Formats and frames (`pjmedia/pjmedia_api.rs`) | none (arithmetic) | `port_format` and its check, `sample_duration`, `from_raw_frame`, sizes in `send` and `get_frame` | `MediaFormat` |
| Memory pool, strings (`pjsua_memory_pool.rs`, `pj_types.rs`) | a pjlib pool | `new`, `alloc`, drop | `Softphone` (lifetimes only) |
| Errors (`error.rs`) | none | `get_error_as_result`, `ffi_assert*` | faults, and the ends of the process, in every module |
| Examples (`examples/`) | reader and writer tasks of `example2` | | `MediaPorts`, `PjsuaCall` |
| Transport (`transport.rs`), crate root, build script | configuration, declarations | | no |

How they interact. The thread that owns the instance creates, awaits and drops every
handle: they all borrow `PjsuaInstanceStarted`, which is neither `Send` nor `Sync`.
Requests that block (`answer`, `reject`) run on tokio's blocking pool and outlive a
dropped future. pjsua's own threads run the callbacks, which find their Rust side only
through raw pointers: the account's user data, the call's user data, the port's data. A
call is known by its `pjsua_call_id`, an index into pjsua's call table that is used again
for a later call. The clock of pjsua's conference bridge calls the ports' frame functions;
the other ends of the ports' channels are tasks of the application.

What is hard, and untested in the repository (it has no tests): callbacks that overlap
drops; ids that change their meaning while a queue or a handle remembers them; bounded
channels filled from callbacks with `try_send`, where a failure ends the process or loses a
frame; error paths that unwind half of a set-up; futures that wait for a report, and
futures that are dropped; jobs that outlive what they were started for; divisions whose
truncations disagree; the order in which Rust drops fields. `PROJECT.json` lists these
hazards one by one, at their lines, with the properties that cover them.

What makes each component correct:

- *Calls*: user data is not freed under a live call; events reach the handle of the call,
  in order, and never overflow its channel; a handle that is gone has ended its call and
  left no port; a handle touches its own call only; futures resume.
- *Accounts*: every call that is announced is queued for the account it came to, once;
  user data lives as long as pjsua may follow it.
- *Instance*: pjsua is created at most once, by one owner, destroyed exactly when that
  owner's handle goes, after everything else; its state is the one the type says.
- *Blocking pool*: a thread that calls pjlib is registered, once; a job finds the pjsua it
  was started for.
- *Media ports*: frames come out in the order they went in, none is lost in silence; both
  ends learn that the port is gone; no port stays behind in the bridge.
- *Formats, frames*: the check keeps the bridge from dividing by zero, sizes are in one unit,
  times do not drift or go back.

## 2. The modules

```
PjsuaCall <- PjsuaCallProofs <- PjsuaCallLifeProofs <- PjsuaCallPromiseProofs <- MCPjsuaCall
                                                  \ <- PjsuaCallQueueProofs
PjsuaInstance <- PjsuaInstanceProofs <- MCPjsuaInstance
PjsuaInstance + BlockingPool <- Softphone (with PjsuaInstanceProofs: SoftphoneProofs <- MCSoftphone)
MediaSink + MediaStream <- MediaPorts <- MediaPortsProofs <- MCMediaPorts
MediaFormat <- MediaFormatProofs <- MCMediaFormat

PjsuaCall      implements  CallPromise, and PortsPromise for each call
MediaPorts     implements  PortsPromise
PjsuaInstance  implements  InstancePromise
Softphone      implements  PjsuaInstance and BlockingPool
```

`A <- B` reads: B extends A. Operators with a comment "Mutation:" are variants of an
operator of the specification with a plausible bug. They are not part of any
specification: each property has one that violates it, which shows that the property
depends on the code being as it is.

### PjsuaCall

One specification holds the accounts' queues, the handles, the callbacks and the effects of the
pool's jobs, because each of the interesting behaviours needs all four.

| Variable | Code |
|---|---|
| `status` | the process runs, or the assertion that ended it (`ffi_assert*`, `expect`, `unwrap`, use of a dangling pointer) |
| `acc`, `queue` | `AccountConfig` / `AccountConfigAdded` and its `mpsc::channel(10)` |
| `slotOf`, `accOf` | the `(call_id, acc_id)` of `on_incoming_call` |
| `occ`, `userData`, `inv`, `cbPtr` | pjsua's call table: occupant and user data of an entry, state of an INVITE session, the pointer that a running `on_call_state(DISCONNECTED)` read |
| `stage` | the value the application holds (`PjsuaIncomingCall`, `PjsuaCallSetup`, `PjsuaCall`), the await it is in, or how far its drop has come |
| `box`, `chan`, `job`, `media`, `ports` | the boxed `StateChangedUserData`, the `mpsc::channel(3)`, the blocking job, the oneshot of media slots, the two ports |
| `answeredBy`, `endedBy` | history only, for the properties |

A SIP call is a member of `Calls`; it is queued once, so the same member names the handle
made from its queue entry. The handle acts on *whatever occupies its entry*, as the code
does. Actions are grouped by thread: `Worker` (pjsua), `Pool`, `Owner`. A drop runs on the
owner's thread without interruption by other work of that thread (`MainIdle`), but
pjsua's threads and the pool interleave with its steps: the ports, then the check
`is_call_active`, then `pjsua_call_hangup`. The steps end where another thread can tell
the difference. `add` is one step up to its first await, which covers registering both
ports, handing over the slots and starting the job.

What pjsua does is not in the repository. It is modelled as the code relies on it, and
mapped as external:

- E1. A free entry's user data is null when an INVITE takes it, and null again when the
  call has ended. Any free entry may be taken.
- E2. Taking the entry and `on_incoming_call` are one step under pjsua's lock, which
  `pjsua_acc_del` takes too (the assumption of the comment in `AccountConfigAdded::drop`).
- E3. Callbacks for a call hold that call's lock, and so does a hangup or an answer. They
  are one step each, with one exception: `pjsua_call_is_active` takes no lock, so the
  report of a remote hangup is three steps (`RemoteEnd`, `RemoteEndReads`, which takes the
  user data pointer, and `RemoteEndReported`, which uses it). Between them a drop can run, and
  `next_call`, whose `pjsua_call_set_user_data` takes no lock either.
- E4. `pjsua_call_hangup` reports DISCONNECTED on the calling thread, and fails on an entry
  without an active call. `pjsua_call_answer` reports CONNECTING before it returns.
- E5. `pjsua_call_set_user_data` does not check that the call is active.
- E6. An answered call is acknowledged, ended by the remote side, or timed out.
- E7. Active media on a confirmed call may be reported at any time, any number of times.

A panic on the owner's thread (the `expect` in a handle's drop, the `unwrap` in a port's) is
taken as the end of the process, like an `ffi_assert`: an application that catches it
and goes on is not modelled.

### CallPromise

What an application may rely on, in four variables: the process runs; the phase of each
call on the wire; how each handle is held; on whose request a call was answered. It has
no call table, no channels, no user data, no jobs and no stages of a drop. It says that a
call is offered, or withdrawn with its account; that only a handle that was asked to
answers, and only a call it speaks for (its own, or any once its own is over); that a
handle becomes a `PjsuaCall` only if it answered a call and its own is confirmed or
over; and that a handle is released only when its call is over, ending at most one call it
speaks for in the same step.

`PjsuaCall!Promised` instantiates it with the mapping: `up` is `Running`; `phase` is
`inv`, with the early states as ringing; `hold` comes from `box`, `stage` and the queues
(`HoldOf`); `by` is `answeredBy`; a `Take` may fail only where `pjsua_call_set_user_data`
may. `KeepsPromise` is the abstract specification as a property of the detailed one. A
stronger promise, that a `PjsuaCall` has answered *its own* call, is false: with an id used again
a handle may answer a later call of its entry and read that call's CONFIRMED.

### PortsPromise

The life of the two ports of a call as both `MediaPorts` and `PjsuaCall` must show it: added
together, or the sink alone when the stream fails, or neither; gone from the bridge together;
nothing left there when the call is over. `MediaPorts` takes several steps for each of
these, with the clock in between, so its mapping (`Outside`) shows a port as added only when
`add` has returned from both, and as destroyed only when both drops are done. `PjsuaCall`
takes one step for `add` and one for a drop; its mapping is `ports[h]` itself. That both
implement the same module is what justifies the coarser steps of `PjsuaCall`: a caller of
`add`, or of a drop, cannot tell the two models apart.

### PjsuaInstance

`guard` and `crated` are the static `Mutex<bool>`; `stage[t]` is the place of a thread in
`get_instance`, or the type of the value it holds; `value[t]` is what that value consists
of, in the order Rust would drop it; `pjsua` is the library's state. A step that fails
drops its parameters from the last to the first and a value field by field, each field in
a step of its own (`DropField`); the handle's drop calls `pjsua_destroy`. Only one value per thread
is modelled: that there is at most one handle is then a theorem about the mutex and the
flag. `pjsua_destroy` is taken to end the library whatever it returns, since the code
ignores the result.

`InstancePromise` is what the threads may rely on: pjsua is obtained by one of them, once,
goes through its states in order in that thread's hands, and goes with them; a failed
`pjsua_create` spoils it for everyone. In the mapping (`Promised`) the owners are the
threads whose value contains the handle, and pjsua is spoilt when the flag is set while
nothing is created and nobody is creating.

### MediaSink, MediaStream, MediaPorts

`MediaSink` is `CustomSinkMediaPort`: `put_frame` on the bridge's clock, a tokio channel
(`rxq`), a reader in `recv`. `MediaStream` is `CustomStreamMediaPort`: a writer in `send`, a
futures channel (`txq`), `get_frame` on the clock, which is registered as `put_frame` too.
`send` is followed through the `Sink` trait, `poll_ready` with `start_send`, then
`poll_flush`, since a future dropped in between leaves its frame behind (`CancelSend`).
`MediaPorts` drives both through the life of one call (`call`): `add` registers the sink,
then the stream, and each may fail; a drop removes and destroys the ports one after the other
while the clock ticks on. The media report (`report`) goes its own way on pjsua's thread: it
connects the sink, then the stream, also while a drop is under way, and ends the process
(`Running`) if the call has no port or one of the connections fails, as it does on a port that
the drop has taken out; a second report, which finds the oneshot consumed, is left to
`PjsuaCall`. The writer is `read_pcm_and_send_task` of `examples/example2.rs`; the
reader is a task that awaits `recv` until it returns None, as the example's `recv_task` would,
if the example spawned it.

Taken from outside the crate, and mapped as external: the bridge calls a port only between
`pjsua_conf_add_port` and `pjsua_conf_remove_port`, never afterwards; a port to which nobody
transmits gets frames without a buffer (type NONE), which `put_frame` ignores; a port that
nobody listens to is not asked for audio; `pjmedia_port_destroy` calls `on_destroy`
once. tokio's channel returns what is queued before it returns None. The futures channel
takes one message per sender beyond its buffer and parks the sender then; taking a
message wakes it; when the receiver is gone, `poll_ready` fails and `poll_flush` succeeds.

### MediaFormat

A behaviour makes one stream port from the arguments of `new`, passes one frame to the bridge
and takes any number from it. `FrameTime`, `PortTime`, `SampleDuration`, `Sent`, `Copy` and
`Elapsed` compute what the code computes, with its truncations in its order and the width of its
fields: `frame_time_usec` is cast to 32 bits (`FieldRange`), elapsed samples are a u32
(`StampRange`). Overflow of `avg_bps` and division by zero end in a panic, as they do in Rust.
`Copy` compares with what `get_frame` takes for the bridge's buffer, a slice of twice the
frame's size: equal lengths are no clean copy but an overrun of that frame.

External: the bridge keeps `frame_time_usec` and derives its samples per frame from it
(`PJMEDIA_AFD_SPF`), and divides by the whole milliseconds of a frame when the port is added.
Time stamps count samples and grow from frame to frame. `pj_elapsed_nanosec` takes them for ticks
of the machine's clock and converts these to nanoseconds (`Nanoseconds`); the code takes the
result for samples. Both agree where the clock ticks once a nanosecond, as pjlib's does on
Linux; elsewhere the times of received frames are off by the factor between the two. `Clocks`
is a parameter, and no theorem assumes a nanosecond clock unless its property says so.
Lengths are taken to be below the 2^44 samples from which on `samples_per_frame * 1_000_000`
overflows a u64.

### BlockingPool, Softphone

`BlockingPool` is `spawn_blocking_pjsua`: jobs queue, start on any idle worker, register
its thread with pjlib unless it is registered (a failure ends the process), and call
pjsua; idle workers end, as tokio's keep-alive has them do. `Softphone` composes it with
`PjsuaInstance` and with what borrows the instance: `Borrows` lists the references that
each type holds, `Free` is Rust's rule that a borrowed value is not dropped, and `strays`
records whoever called pjsua when it was not there. A future that is dropped frees its
borrows at once while its job runs on; a memory pool borrows nothing.

## 3. The runs

| Run | Instance | Shows |
|---|---|---|
| `CallsOneAccount` | 2 calls, 2 call ids, 1 account, no faults | lifetimes, order, and that every report gets where it is awaited, in all interleavings |
| `CallsFaults` | 2 calls, 1 call id, 2 accounts, all faults, queue of 1 | the error paths; reuse of an id across accounts; a full queue; `CallPromise` and `PortsPromise` under all of it |
| `CallsLive` | 2 calls, 1 call id, 2 accounts, fair | the awaits of `add` and `await_hangup` end |
| `Instance` | 3 threads, all faults | one owner, one creation, a winner in every race; `InstancePromise` is implemented |
| `MediaPorts` | channels of 2 and 1, 3 frames each way, fair | order, loss and end of frames on both ports; readers and writers resume; `PortsPromise` is implemented, so the ports leave the bridge |
| `MediaFormat` | 8 rates, 6 channel counts, 22 frame lengths, 4 clocks | the arithmetic, also at the edges of every division and cast |
| `Softphone` | 2 threads, 2 workers, 2 jobs, all faults | who calls pjsua, and from which thread, as things end |
| `CallsUserData`, `CallsMediaData`, `CallsHangupError` | 1 call | counterexamples, see below |
| `CallsOwnHangup` | 2 calls, 1 call id | counterexample, see below |
| `InstanceDropOrder` | 3 threads | counterexample, see below |

Bounds. Two calls are what id reuse needs: a stale handle and the call that took its id.
With two ids they may also run side by side. Two accounts are what it takes for a stale
queue entry of one account to meet a fresh call of another. The state channel has its real
capacity of 3. The channel of incoming calls is 2 or 1 instead of 10: with `CallsFaults`'
capacity of 1 the second call can find it full. Calls are finite in number, and each
history is therefore finite; nothing else is bounded. `CallsLive` cannot use symmetry,
which is unsound for liveness; its `LiveSpec` instead has the calls arrive in a fixed order, the
first on the first account (`FirstGoesFirst`), which loses no behaviour but for the names
of calls and accounts. Three threads let one create
while two others race. In `MediaPorts` the sink's channel has 2 places, so the third frame
can find it full; the stream's has a buffer of 1, so the second frame can park the sender
and the third has to wait; `CancelSend` gives up a queued frame once. In `MediaFormat` the rates are those of
telephony, some of which do not divide 10^6, and 0 and 1; the channel counts include one whose
products with those rates overflow; the frame lengths lie on both sides of a millisecond; the
clocks tick once in a nanosecond, in 1000, in 125/3 and in 2/5. The 32-bit fields are narrowed
so that both wrap: `FieldRange` is 2^30, since TLC's own integers have 32 bits, and a
frame of 1074 samples at a rate of 1 exceeds it; the u32 of elapsed samples wraps at 100. In `Softphone` each type has one value alive at a time,
which a second value of the type could not tell apart; two jobs on two workers can
overlap, follow each other on one, or outlive the instance. What the bounds leave out the
proofs cover: every safety property of the passing runs is also a theorem.

Deadlock is not checked: each system may stop legally, when all calls are over, all frames
passed, all jobs done, or an assertion ended the process.

The properties of the calls:

- `IInv`: the inductive invariant of section 5, here checked on the instance.
- `StateChannelSuffices`: `on_call_state` never finds its channel full.
- `ActiveCallDataLive`: callbacks of a live call find live user data.
- `OwnEvents`: while a call and its handle live, its events come to that handle; the one
  exception is an outdated entry in another account's queue, whose handle takes the
  user data over. (Within an account this cannot happen: the newer call's entry is later
  in the same queue, so its own handle has the last word.)
- `NobodyWaitsInVain`: an await of `add` or `await_hangup` whose state the call has reached
  finds that report in its channel, or the callback is about to send it, unless another
  account's handle took the reports over (`Undisturbed`). It is what `AddReturns` and
  `HangupSeen` rest on: a lost report is a violation here before it is an endless wait there.
- `NoCallOutlivesHandle`, `Released`: what a handle leaves behind, on every path and whatever
  fails. A call goes on without a handle only if `next_call` could make none
  (`pjsua_call_set_user_data` failed, stage `unmade`).
- `MediaReady`: the media data is there before the ACK can ask for it.
- `EventsOrdered`: `await_call_state` reads states in the session's order.
- `OthersOnlyWhenOver`: a handle whose call is alive touches no other call.
- `ConnectFailsInDropOnly`: `connect_slots` fails, the bridge's own errors apart, only while
  a drop has removed the ports and not yet hung up.
- `FullQueueIsStale`: with no more ids than places, the `expect` on `try_send` in
  `on_incoming_call` fails only if the very queue that the new call finds full has a call in
  it that has ended. The failure itself is not excluded: nobody has to call `next_call`.
- `UndefinedHasCause`: the three ways to a freed or null pointer, and no other.
- `KeepsPromise`: `PjsuaCall` implements `CallPromise`.
- `CallsKeepPorts`: the ports of each call go the way of `PortsPromise`.
- `AddReturns`, `HangupSeen`: liveness of the awaits. Both make an exception of a handle
  whose reports were taken over by a handle of another account, through an outdated queue
  entry: it may wait for ever.

Of the rest:

- `HandleOwnsPjsua`, `RefusedForAReason`, `DestroyedForGood`, and `KeepsPromise` of
  `PjsuaInstance`: the instance, section 2.
- `FramesInOrder`: frames come to the reader in order, and are missing only if one found the
  channel full.
- `AcceptedIsKept`, `PlayedInOrder`: a frame that `send` returned Ok for is played, or
  will be, until the port is destroyed. The destruction costs the tail of the stream and
  nothing before it: at most what the channel holds, the frame included for which
  `poll_flush` then takes the closed channel for a flushed one. Frames are played in order,
  and twice only after a cancelled `send` was repeated.
- `KeepsPorts`, `ReaderEnds`, `SendReturns`: `PortsPromise`, of which it is a part that no
  port stays in the bridge (`PortsLeaveWithTheCall`); the
  reader of a registered port ends with the call; `send` waits for ever only on a port that no
  call listens to, or that was lost. A lost port does keep its reader waiting for ever, and
  a port that no call listens to its writer: that is what the code does, and the properties
  say it of no other port.
- `RefusesShortFrames`, `BridgeDividesByTime`: the check of `port_format` refuses exactly
  the formats of less than a millisecond. This does not keep the bridge from dividing by
  zero: rate 11025, one channel, 12 samples passes the check and is 11 samples, 0 ms, to the
  bridge; and a frame of 2^32 microseconds wraps to none. The property says for which
  formats alone it can happen, and how many samples the bridge may miss.
- `SentFramesMatch`: for every length that `send` lets through, and every format, `get_frame`
  either panics in `copy_from_slice` or writes twice the bytes of the bridge's frame; it
  panics if the length is odd, or the frame lasts no whole number of microseconds or more of
  them than 32 bits hold. (`send` lets a frame one i16 too long through.)
- `TimesLag`, `TimesGoForward`: with a nanosecond clock times lag behind the samples by less
  than a microsecond a sample, until the u32 wraps; with a faster clock they never lead; with
  any clock they go back only when it wraps.
- `CallsFromRegisteredThreads`, `OnlyStraysMissPjsua`: every job calls pjsua from a thread
  that is registered, once; only memory pools, and jobs whose futures were dropped, may
  call pjsua when it is gone.

Five runs end in a counterexample, each against a comment or an assertion of the code:

- `CallsUserData`: `pjsua_call.rs:165` says that after a drop the user data will no longer
  be used. A drop during the report of a remote hangup frees it under the callback. What
  does hold, and is proved, is `ActiveCallDataLive`.
- `CallsOwnHangup`: the same comment says that a drop hangs up *the* call. With a reused
  id it hangs up another one. What holds, and is proved, is `OthersOnlyWhenOver`.
- `CallsMediaData`: `pjsua_config.rs:136` asserts that the media data arrives. The second
  report of active media on a confirmed call (hold and resume) finds the oneshot consumed
  and ends the process.
- `CallsHangupError`: `pjsua_call.rs:168` expects the hangup to succeed. A remote hangup
  right after the check makes it fail.
- `InstanceDropOrder`: `pjsua_softphone_api.rs:56` says that what uninitializes pjsua must
  be dropped last. `PjsuaInstanceInitTransportConfigured` declares it first.

Also seen while modelling, without a promise in the code to hold against it: the `expect` in
`on_incoming_call` fires on a full channel, though its text speaks of a closed one;
`reject` hangs up with 200 before its 486 is sent; a handle that answered another call
than its own, or whose reports another account's handle took over, may wait in `add` for ever
(the exceptions in `AddReturns`); a port that is
dropped or fails before it is registered is lost, and its reader waits for ever; the check of
odd frame sizes (`size % size`) never fires; `get_frame` writes past the bridge's frame.

## 4. Fairness

Calls: `FairSpec` assumes weak fairness of what the schedulers run on their own: jobs of
the pool that were started, futures that can resume (tokio polls a woken task), drops that
have begun, the end of a callback that has begun, and E6, since pjsip's transaction timers
settle a session that waits for its ACK. Media ports: weak fairness of the reader's and the
writer's polls, of the clock on a stream that a call listens to, of `stream.add` once
`sink.add` is done (no await lies between) and of a drop that has begun. Nothing is assumed
of the application (it may never drop, add, send or wait) nor of the remote side (it may
never hang up; a call may never connect). So the properties say only that a started
operation ends once there is something to end it. Fairness is stated for whole actions
and per call or handle, never for the choice of one outcome: a step that may fail may always
fail.

## 5. The proofs

TLAPS checks eight modules, for every value of the constants: any sets of calls, ids,
accounts, threads, workers and jobs, any capacities, numbers of frames, formats and
faults. Assumed are only `CallAssumption`, `InstanceAssumption`, `SinkAssumption`,
`StreamAssumption`, `FormatAssumption` and `PoolAssumption`: the null values are none of
the things they stand for, capacities are positive (the stream's buffer may be 0), formats are natural numbers,
fields hold at least a million, clocks have positive rates, faults are among the named ones; and, for `FullQueuesWantCleaning` alone, that pjsua's
table is finite.

*Calls, the table* (`PjsuaCallProofs`). `IInv` has six parts. `TypeOK`; `TableInv`
(an active call is in its entry; an entry outlives its call exactly as long as the callback
that reports the end); `BegunInv` (a queued call has arrived and has no handle yet, and is
queued once); `PointerInv` (the pointers lent to pjsua are to boxes that were made, by
handles of that entry); `ChannelInv` (no more states are in a channel than its call has
gone through since the handle was made); `ActiveCallDataLive` and `StateChannelSuffices`
themselves. `ActiveCallDataLive` alone is not inductive: a handle is dropped by looking at
its *entry*, so one must know that a pointer belongs to a handle of the entry it is stored
in, and that an inactive occupant means a call that has ended. `StateChannelSuffices` needs
to know that a channel holds at most as many states as the entry's occupant reported, and
that INCOMING is reported before any handle exists, which leaves three.
From `IInv` follow, as theorems: `TypeCorrect`, `DataOfActiveCallsLives`,
`ChannelOfThreeSuffices`, and, with one further induction each, `CallsEndWithTheirHandles`
(`NoCallOutlivesHandle`, under all faults) and `LiveHandlesKeepToTheirCall` (`OthersOnlyWhenOver`).

*Calls, the handles* (`PjsuaCallLifeProofs`) adds four invariants, each inductive given the
ones before. `LifeInv` says what a handle owns at each stage: box, job, ports; `Released`
is one line of it. `AnswerInv` ties the answers on record to the media data and the ports:
a handle hands the slots over before its job starts, keeps its ports until a drop, and an
answered call has an answer on record. It gives `MediaReady` and
`ConnectFailsInDropOnly`. `QueueInv` is the order argument for `OwnEvents`: of the calls an
account queued for one entry only the last can still be in it, and once that one has its
handle the others are gone from the queue, so no later handle of the account takes its
events away. `ReportInv` bounds what is in a channel by the state of the call in the entry,
which is why a new report is later than all queued ones: `EventsOrdered`. Together
they give the action property `UndefinedHasCause`.

*The refinement* (`PjsuaCallPromiseProofs`). `CallsKeepThePromise` proves
`Spec => Promised!Spec` by step simulation: one lemma per action says how `phase` and
`hold` move and which abstract step that is. `EndCall` needs `OthersOnlyWhenOver`'s
argument (an occupant other than the handle's own call means that the own call is over),
`Establish` needs `AnswerInv` (a handle past its answer has one on record) and `ReportInv`
(whoever reads CONFIRMED has a call that is confirmed or over), and releasing a handle
needs that an inactive entry means an ended call.

*The ports of a call, and its drop* (`PjsuaCallLifeProofs`). `CallsKeepTheirPorts` is the
refinement of `PortsPromise` for every call; it needs from `LifeInv` that ports are
untouched before `add` and out of the bridge when a handle is done. `DropsGetDone` gives the
drops a measure: whether the ports go first (a `PjsuaCall` that is dropped) or the handle
(`hangup(self)`), four steps at most are left, each step of the drop lowers the number or ends
the process, and nobody else's step changes it.

*Counting and waiting* (`PjsuaCallQueueProofs`). `FullQueuesWantCleaning`: the calls of one
queue that have not ended are in entries of their own (`LivePlaces`), none of them the free entry
that a new call takes, so there are fewer of them than entries (the pigeonhole principle of
`FiniteSetTheorems`); a queue that is full with as many places therefore holds another one.
`NoReportIsMissed` is `NobodyWaitsInVain` for every instance. Its invariant, `ToldInv`, says of a
handle that nobody disturbed which reports it must have: from the answer on, CONNECTING is in
the channel until it is read, then CONFIRMED once the call is confirmed, then DISCONNECTED
once it has ended, or is about to be sent. It is inductive only with `OwnPointer` (while the
call is in its entry, the entry's user data is the handle's own, by `QueueInv` for the own
account and by `Undisturbed` for the others) and `ReportHeard` (a callback that found the
handle's pointer had room, by `StateChannelSuffices`).

*The instance* (`PjsuaInstanceProofs`). `IInv` ties the mutex to the one thread inside
`get_instance`, the flag to the creation, and each thread's value to its stage, with at most
one handle in any value. `OneHandleOwnsPjsua`, `RefusalsHaveAReason` and the action property
`NeverCreatedAgain` follow. `InstanceKeepsPromise` is the refinement, by two lemmas that say
what each action does to who holds the handle (`OwnersStep`) and to whether the creation
has failed (`SpoiltStep`).

*Media ports* (`MediaPortsProofs`). `PortsInv`: for each side, the frames out and the frames
queued form one sequence in order, for the sink complete unless a frame found the channel
full; for the stream, the frame that `send` is at is the latest in it and is there only if
its send, or a cancelled one, put it there; a sender that is not parked has room
(hence the channel's bound), and one that is parked has its excess message in the channel;
what a destroyed port has not played (`LostInv`) is what its channel held then, later than all it
played, and only shrinks. `CallInv` says where both ports are at each point of the call,
which `PortsLeaveWithTheCall` needs at its end, and `MediaPortsKeepPorts`, the refinement
of `PortsPromise`, at every step. Two theorems are the safety halves of liveness properties:
`SendersAreWoken` (every audio frame that the bridge asks for leaves the sender awake, so a
`send` waits for the clock and for nothing else) for `SendReturns`, and `DropsGetDone` (a drop
always has a next step and at most five of them, whatever the others do) for `ReaderEnds`.

*Formats* (`MediaFormatProofs`). `FormatInv` says only where the values come from; the
properties then are arithmetic: lemmas about products, quotients and remainders, then
about the check, the bridge's view of a format and the lengths that `send` leaves. That times go
forward rests on three monotonic steps: stamps grow, the clock's conversion is monotonic, and a
remainder falls only when its quotient rises.

*Instance and jobs* (`SoftphoneProofs`). `SoftphoneInv` adds to the instance's and the
pool's invariants that values which borrow the instance, and futures being awaited, exist
only while it is started, so that whoever still calls pjsua after its end is a pool, a port, or a
job whose future was dropped. `PjsuaOutlivesBorrowers` is the same as a statement about
states: pjsua is running as long as anything borrows it. `SoftphoneImplementsInstance` and
`SoftphoneImplementsPool` are step simulations without a mapping: a step of the composition is one
of the part, or leaves it alone. So what is proved of the parts holds in the
composition, `SoftphoneKeepsPromise` among it.

Every invariant, action property and refinement that a passing run checks is a theorem.
Only model-checked are the liveness properties, `AddReturns`, `HangupSeen`, `ReaderEnds` and
`SendReturns`: fairness and ENABLED are beyond the prover. What each of them needs of the
states is proved (`NoReportIsMissed`, `SendersAreWoken`, both `DropsGetDone`); that the
scheduler then takes the step is the assumption of section 4.

## 6. Not modelled

- `transport.rs` is a configuration record; its use is the action `SetTransport`. `lib.rs`
  and `build.rs` declare modules and link flags. `examples/example1.rs` calls pjsua
  directly and does not use the crate.
- Data without consequences for control: credentials, the strings given to pjsua, default
  configurations, `port_info` beyond the format, the counters behind port numbers and
  signatures, error texts, logs (`on_media_event`, `on_create_media_transport` and the sink's
  `get_frame` only log), SIP status codes, the numbers of ids and bridge slots.
- Failures of `pjsua_call_get_info`, which pjsua does not return for an entry whose callback
  is running. (That of `pjsua_call_get_conf_port` is the fault `call_conf_port`.) Outgoing calls, which the library does not offer.
- `poll_close` of the stream, which no code of the crate calls. The bytes of strings and of a
  pool's allocations: `PjString::alloc` counts the terminator in `slen`, and `alloc` would have the
  wrong length for types larger than a byte, which the crate never allocates; the null that
  `pj_pool_calloc` returns without memory.
- The assertion on a frame's type in `put_frame` (`pjmedia_port_audio_sink.rs:44`): the bridge's
  frames with a buffer are audio, and frames without one have returned before. An odd
  number of bytes in the bridge's frame (`pjmedia_api.rs:117`): it has two bytes a sample.
- Where the descriptor of a registered thread lives: `PjsuaThreadMeta` moves it after
  `pj_thread_register` took its address. That is so in every interleaving, and says
  nothing a model checker could find.
- Registration with a server, retransmissions and lost packets are inside pjsip; they reach
  the crate only as the reports that the modules already make nondeterministic. The crate
  stores nothing, so there is no recovery to model.

## 7. Plan

All components with behaviour of their own are modelled, and every safety property is
proved. What a later version of the code would call for: the state channel and the media oneshot when
re-INVITEs are supported (today the second media report ends the process), outgoing calls,
and the SIP codes once `reject` sends its own before the handle goes.
