------------------------------ MODULE PjsuaCall ------------------------------
(***************************************************************************)
(* The life of incoming calls in pjsip-client: an account's queue of       *)
(* incoming calls, the handle that owns a call (PjsuaIncomingCall,         *)
(* PjsuaCallSetup, PjsuaCall), the user data the handle lends to pjsua,    *)
(* and the callbacks that pjsua runs on it from its own threads.           *)
(*                                                                         *)
(* Three kinds of threads take steps.                                      *)
(*   - The thread that owns the pjsua instance.  Every handle borrows the  *)
(*     instance, which is neither Send nor Sync, so all handles are        *)
(*     created, awaited and dropped there; a drop runs to its end before   *)
(*     another task of that thread runs (MainIdle).                        *)
(*   - The threads of tokio's blocking pool, one job per answer or reject. *)
(*   - pjsua's worker thread, which reports what the remote side does.     *)
(*                                                                         *)
(* A pjsua_call_id is an entry of pjsua's call table and is used again for *)
(* a later call.  A SIP call is a member of Calls; it is queued once, so   *)
(* the handle made for its queue entry is named by the same member.  The   *)
(* handle h acts on whatever call occupies slotOf[h] at that moment.       *)
(***************************************************************************)
EXTENDS Naturals, Sequences, FiniteSets

CONSTANTS
    Calls,        \* incoming SIP calls, each also naming the handle made for it
    Slots,        \* the values of pjsua_call_id
    Accounts,     \* the values of pjsua_acc_id
    IncomingCap,  \* capacity of an account's channel of incoming calls (10 in the code)
    StateCap,     \* capacity of a handle's channel of call states (3 in the code)
    Faults,       \* the pjsua functions that may return an error of their own accord
    None,         \* a null pointer, an empty table entry
    Idle          \* no on_call_state callback is between reading and using its pointer

FaultNames ==
    {"acc_add", "acc_del", "set_user_data", "conf_add_port", "conf_remove_port",
     "conf_connect", "call_conf_port", "call_answer", "call_hangup"}

ASSUME CallAssumption ==
    /\ None \notin Calls \cup Slots \cup Accounts
    /\ Idle \notin Calls \cup {None}
    /\ {"unsent", "sent"} \cap Calls = {}   \* media holds one of these, or a call
    /\ IncomingCap \in Nat \ {0}
    /\ StateCap \in Nat \ {0}
    /\ Faults \subseteq FaultNames

VARIABLES
    \* How the process stands: "running", or the assertion that ended it.
    status,
    \* Accounts: life of the AccountConfig, and the channel of incoming calls.
    acc, queue,
    \* What on_incoming_call was told of a call: its (call_id, acc_id).
    slotOf, accOf,
    \* pjsua's call table: occupant and user data of an entry, INVITE session
    \* state of a call, pointer held by an on_call_state callback in progress.
    occ, userData, inv, cbPtr,
    \* Handles: what the application holds, the boxed user data, the channel of
    \* call states, the blocking job, the media data, the two media ports.
    stage, box, chan, job, media, ports,
    \* History: the handle whose request answered, or ended, a call.
    answeredBy, endedBy

accVars    == <<acc, queue>>
idVars     == <<slotOf, accOf>>
pjsuaVars  == <<occ, userData, inv, cbPtr>>
handleVars == <<stage, box, chan, job, media, ports>>
histVars   == <<answeredBy, endedBy>>
vars == <<status, accVars, idVars, pjsuaVars, handleVars, histVars>>

-----------------------------------------------------------------------------
(* Types                                                                   *)

Statuses ==
    {"running",
     "undefined",        \* a freed or null pointer was used
     "incoming_full",    \* on_incoming_call: expect on try_send
     "state_full",       \* on_call_state: ffi_assert_res on try_send
     "no_media_data",    \* on_call_media_state: ffi_assert!(false)
     "connect_failed",   \* on_call_media_state, connect_slots: ffi_assert_res
     "hangup_failed",    \* PjsuaCallHandle::drop: expect
     "port_failed"}      \* Custom*MediaPortAdded::drop: unwrap

\* "failed": add_to_instance_init returned Err.  "dangling": pjsua_acc_del
\* failed, so pjsua still routes calls to an account whose user data is freed.
AccountStates == {"config", "added", "failed", "deleted", "dangling"}

PjsipInvState ==
    {"Null", "Calling", "Incoming", "Early", "Connecting", "Confirmed", "Disconnected"}

\* "incoming", "setup", "call": the application holds a PjsuaIncomingCall, a
\* PjsuaCallSetup, a PjsuaCall.  "answering", "connecting", "confirming": the
\* awaits of PjsuaCallSetup::add.  "awaiting": await_hangup.  "rejecting": the
\* await of reject.  "handle", "hangup", "ports": inside a drop.  "unmade": next_call
\* failed, and there is no handle for a call that it took from the queue.
Stages ==
    {"none", "incoming", "setup", "answering", "connecting", "confirming", "call",
     "awaiting", "rejecting", "handle", "hangup", "ports", "done", "unmade"}

Dropping == {"handle", "hangup", "ports"}
Adding == {"answering", "connecting", "confirming"}

\* "lost": the port was consumed but never registered, so no drop ever runs
\* its on_destroy and its MediaPortData stays allocated.
PortStates == {"none", "added", "destroyed", "lost"}

Jobs == {"none", "answer", "willReject", "reject", "ok", "err"}

TypeOK ==
    /\ status \in Statuses
    /\ acc \in [Accounts -> AccountStates]
    /\ queue \in [Accounts -> Seq(Calls)]
    /\ \A a \in Accounts : Len(queue[a]) <= IncomingCap
    /\ slotOf \in [Calls -> Slots \cup {None}]
    /\ accOf \in [Calls -> Accounts \cup {None}]
    /\ occ \in [Slots -> Calls \cup {None}]
    /\ userData \in [Slots -> Calls \cup {None}]
    /\ inv \in [Calls -> PjsipInvState]
    /\ cbPtr \in [Slots -> Calls \cup {None, Idle}]
    /\ stage \in [Calls -> Stages]
    /\ box \in [Calls -> {"none", "live", "freed"}]
    /\ chan \in [Calls -> Seq(PjsipInvState)]
    /\ job \in [Calls -> Jobs]
    /\ media \in [Calls -> {"unsent", "sent"} \cup Calls]
    /\ ports \in [Calls -> [sink : PortStates, stream : PortStates]]
    /\ answeredBy \in [Calls -> Calls \cup {None}]
    /\ endedBy \in [Calls -> Calls \cup {None}]

Init ==
    /\ status = "running"
    /\ acc = [a \in Accounts |-> "config"]
    /\ queue = [a \in Accounts |-> <<>>]
    /\ slotOf = [c \in Calls |-> None]
    /\ accOf = [c \in Calls |-> None]
    /\ occ = [s \in Slots |-> None]
    /\ userData = [s \in Slots |-> None]
    /\ inv = [c \in Calls |-> "Null"]
    /\ cbPtr = [s \in Slots |-> Idle]
    /\ stage = [h \in Calls |-> "none"]
    /\ box = [h \in Calls |-> "none"]
    /\ chan = [h \in Calls |-> <<>>]
    /\ job = [h \in Calls |-> "none"]
    /\ media = [h \in Calls |-> "unsent"]
    /\ ports = [h \in Calls |-> [sink |-> "none", stream |-> "none"]]
    /\ answeredBy = [c \in Calls |-> None]
    /\ endedBy = [c \in Calls |-> None]

-----------------------------------------------------------------------------
(* Conditions the steps share                                              *)

Running == status = "running"

\* A drop on the owning thread runs to its end before anything else there.
MainIdle == \A h \in Calls : stage[h] \notin Dropping

\* pjsua_call_is_active, which takes no lock.
Active(c) == inv[c] \in {"Incoming", "Connecting", "Confirmed"}
SlotActive(s) == occ[s] # None /\ Active(occ[s])
Ringing(s) == occ[s] # None /\ inv[occ[s]] = "Incoming"

\* A user data pointer that may be dereferenced.
Usable(p) == p # None /\ box[p] = "live"

\* Mutation: the channel is used as if it held one message less.
HasRoomOneShort(p) == Len(chan[p]) + 1 < StateCap

\* try_send succeeds: fewer than capacity messages are waiting.
HasRoom(p) == Len(chan[p]) < StateCap

PortsAdded(h) == "added" \in {ports[h].sink, ports[h].stream}

\* Mutation: reports overtake each other.
OnCallStateOutOfOrder(p, st) ==
    /\ p = None \/ Usable(p)
    /\ IF p = None THEN UNCHANGED chan ELSE chan' = [chan EXCEPT ![p] = <<st>> \o @]
    /\ UNCHANGED status

\* Mutation: the result of a try_send that did nothing goes unnoticed.
OnCallStateForgets(p, st) == UNCHANGED <<chan, status>>

\* Mutation: DISCONNECTED is not reported.
OnCallStateIgnoresEnd(p, st) ==
    /\ p = None \/ Usable(p)
    /\ IF p = None \/ st = "Disconnected" THEN UNCHANGED chan
       ELSE chan' = [chan EXCEPT ![p] = Append(@, st)]
    /\ UNCHANGED status

\* on_call_state on the user data p: report state st to the handle that owns p.
OnCallState(p, st) ==
    \/ /\ p = None
       /\ UNCHANGED <<chan, status>>
    \/ /\ p # None
       /\ box[p] # "live"
       /\ status' = "undefined"
       /\ UNCHANGED chan
    \/ /\ Usable(p)
       /\ HasRoom(p)
       /\ chan' = [chan EXCEPT ![p] = Append(@, st)]
       /\ UNCHANGED status
    \/ /\ Usable(p)
       /\ ~HasRoom(p)
       /\ status' = "state_full"
       /\ UNCHANGED chan

\* A hangup request of handle h ends the call in h's entry.  pjsua reports
\* DISCONNECTED on the requesting thread and clears the entry.
EndCall(h) ==
    LET s == slotOf[h]
    IN  /\ inv' = [inv EXCEPT ![occ[s]] = "Disconnected"]
        /\ endedBy' = [endedBy EXCEPT ![occ[s]] = h]
        /\ OnCallState(userData[s], "Disconnected")
        /\ occ' = [occ EXCEPT ![s] = None]
        /\ userData' = [userData EXCEPT ![s] = None]

-----------------------------------------------------------------------------
(* Accounts: add_account, the drop of AccountConfigAdded                    *)

AddAccount(a) ==
    /\ Running /\ MainIdle
    /\ acc[a] = "config"
    /\ \/ acc' = [acc EXCEPT ![a] = "added"]
       \/ "acc_add" \in Faults /\ acc' = [acc EXCEPT ![a] = "failed"]
    /\ UNCHANGED <<status, queue, idVars, pjsuaVars, handleVars, histVars>>

\* The user data is freed even when pjsua_acc_del fails; the receiver and what
\* it holds go with the account.
DropAccount(a) ==
    /\ Running /\ MainIdle
    /\ acc[a] = "added"
    /\ \/ acc' = [acc EXCEPT ![a] = "deleted"]
       \/ "acc_del" \in Faults /\ acc' = [acc EXCEPT ![a] = "dangling"]
    /\ queue' = [queue EXCEPT ![a] = <<>>]
    /\ UNCHANGED <<status, idVars, pjsuaVars, handleVars, histVars>>

-----------------------------------------------------------------------------
(* pjsua's worker thread                                                    *)

\* Mutation: the latest call is the first to be taken.
OnIncomingCallInFront(a, c) ==
    /\ acc[a] = "added"
    /\ queue' = [queue EXCEPT ![a] = <<c>> \o @]
    /\ UNCHANGED status

\* Mutation: the channel is taken for full one call early.
OnIncomingCallOneShort(a, c) ==
    \/ /\ acc[a] = "added"
       /\ Len(queue[a]) + 1 < IncomingCap
       /\ queue' = [queue EXCEPT ![a] = Append(@, c)]
       /\ UNCHANGED status
    \/ /\ acc[a] = "added"
       /\ Len(queue[a]) + 1 >= IncomingCap
       /\ status' = "incoming_full"
       /\ UNCHANGED queue

\* on_incoming_call on account a: queue the call, or panic when try_send fails.
OnIncomingCall(a, c) ==
    \/ /\ acc[a] = "added"
       /\ Len(queue[a]) < IncomingCap
       /\ queue' = [queue EXCEPT ![a] = Append(@, c)]
       /\ UNCHANGED status
    \/ /\ acc[a] = "added"
       /\ Len(queue[a]) >= IncomingCap
       /\ status' = "incoming_full"
       /\ UNCHANGED queue
    \/ /\ acc[a] = "dangling"
       /\ status' = "undefined"
       /\ UNCHANGED queue

\* An INVITE takes a free entry, which pjsua clears.  Its user data is null, so
\* the report of INCOMING goes nowhere; then on_incoming_call runs.
IncomingCall(c, a, s) ==
    /\ Running
    /\ inv[c] = "Null"
    /\ occ[s] = None
    /\ acc[a] \in {"added", "dangling"}
    /\ slotOf' = [slotOf EXCEPT ![c] = s]
    /\ accOf' = [accOf EXCEPT ![c] = a]
    /\ occ' = [occ EXCEPT ![s] = c]
    /\ userData' = [userData EXCEPT ![s] = None]
    /\ inv' = [inv EXCEPT ![c] = "Incoming"]
    /\ OnIncomingCall(a, c)
    /\ UNCHANGED <<acc, cbPtr, handleVars, histVars>>

\* The ACK of an answered call.  The call stays active during the callback, and
\* a hangup waits for the call's lock, so the callback is one step.
Confirm(c) ==
    /\ Running
    /\ inv[c] = "Connecting"
    /\ inv' = [inv EXCEPT ![c] = "Confirmed"]
    /\ OnCallState(userData[slotOf[c]], "Confirmed")
    /\ UNCHANGED <<accVars, idVars, occ, userData, cbPtr, stage, box, job, media,
                   ports, histVars>>

\* The remote side cancels or hangs up, or the INVITE session times out: the
\* state is DISCONNECTED, and on_call_state reads its pointer ...
RemoteEnd(c) ==
    /\ Running
    /\ Active(c)
    /\ inv' = [inv EXCEPT ![c] = "Disconnected"]
    /\ cbPtr' = [cbPtr EXCEPT ![slotOf[c]] = userData[slotOf[c]]]
    /\ UNCHANGED <<status, accVars, idVars, occ, userData, handleVars, histVars>>

\* ... or reads it only now: next_call may have lent another one in the meantime ...
RemoteEndReads(s) ==
    /\ Running
    /\ cbPtr[s] # Idle
    /\ cbPtr' = [cbPtr EXCEPT ![s] = userData[s]]
    /\ UNCHANGED <<status, accVars, idVars, occ, userData, inv, handleVars, histVars>>

\* ... and then uses it; pjsua clears the entry when the callback has returned.
RemoteEndReported(s) ==
    /\ Running
    /\ cbPtr[s] # Idle
    /\ OnCallState(cbPtr[s], "Disconnected")
    /\ cbPtr' = [cbPtr EXCEPT ![s] = Idle]
    /\ occ' = [occ EXCEPT ![s] = None]
    /\ userData' = [userData EXCEPT ![s] = None]
    /\ UNCHANGED <<accVars, idVars, inv, stage, box, job, media, ports, histVars>>

\* on_call_media_state with active media on a confirmed call: take the media
\* data, ask for the call's port and connect it both ways.  In any other state the
\* callback changes nothing.
OnCallMediaState(s) ==
    LET p == userData[s]
    IN  /\ Running
        /\ occ[s] # None /\ inv[occ[s]] = "Confirmed"
        /\ \/ /\ ~Usable(p)
              /\ status' = "undefined"
              /\ UNCHANGED media
           \/ /\ Usable(p)
              /\ media[p] # "sent"
              /\ status' = "no_media_data"
              /\ UNCHANGED media
           \/ /\ Usable(p)
              /\ media[p] = "sent"
              /\ ports[p] = [sink |-> "added", stream |-> "added"]
              /\ media' = [media EXCEPT ![p] = occ[s]]
              /\ UNCHANGED status
           \/ /\ Usable(p)
              /\ media[p] = "sent"
              /\ \/ ports[p] # [sink |-> "added", stream |-> "added"]
                 \/ {"call_conf_port", "conf_connect"} \cap Faults # {}
              /\ media' = [media EXCEPT ![p] = occ[s]]
              /\ status' = "connect_failed"
        /\ UNCHANGED <<accVars, idVars, pjsuaVars, stage, box, chan, job, ports,
                       histVars>>

-----------------------------------------------------------------------------
(* The blocking pool                                                        *)

\* accept_incoming(call_id, 200): pjsua answers the call in the entry if it
\* still rings, and reports CONNECTING before pjsua_call_answer returns.
AnswerJob(h) ==
    LET c == occ[slotOf[h]]
    IN  /\ Running
        /\ job[h] = "answer"
        /\ \/ /\ Ringing(slotOf[h])
              /\ inv' = [inv EXCEPT ![c] = "Connecting"]
              /\ answeredBy' = [answeredBy EXCEPT ![c] = h]
              /\ OnCallState(userData[slotOf[h]], "Connecting")
              /\ job' = [job EXCEPT ![h] = "ok"]
           \/ /\ ~Ringing(slotOf[h]) \/ "call_answer" \in Faults
              /\ job' = [job EXCEPT ![h] = "err"]
              /\ UNCHANGED <<inv, answeredBy, chan, status>>
        /\ UNCHANGED <<accVars, idVars, occ, userData, cbPtr, stage, box, media,
                       ports, endedBy>>

\* reject_incoming(call_id): a hangup with 486, whatever the entry holds by now.
RejectJob(h) ==
    /\ Running
    /\ job[h] = "reject"
    /\ \/ /\ SlotActive(slotOf[h])
          /\ EndCall(h)
          /\ job' = [job EXCEPT ![h] = "ok"]
       \/ /\ ~SlotActive(slotOf[h]) \/ "call_hangup" \in Faults
          /\ job' = [job EXCEPT ![h] = "err"]
          /\ UNCHANGED <<inv, endedBy, chan, status, occ, userData>>
    /\ UNCHANGED <<accVars, idVars, cbPtr, stage, box, media, ports, answeredBy>>

-----------------------------------------------------------------------------
(* The owning thread: taking a call, setting it up, waiting for it          *)

\* Mutation: the user data goes to the entry of another call, as if the ids that the
\* callback sent had been mixed up.
NextCallLendsElsewhere(a) ==
    /\ Running /\ MainIdle
    /\ acc[a] = "added"
    /\ queue[a] # <<>>
    /\ queue' = [queue EXCEPT ![a] = Tail(@)]
    /\ box' = [box EXCEPT ![Head(queue[a])] = "live"]
    /\ \E s \in Slots : userData' = [userData EXCEPT ![s] = Head(queue[a])]
    /\ stage' = [stage EXCEPT ![Head(queue[a])] = "incoming"]
    /\ UNCHANGED <<status, acc, idVars, occ, inv, cbPtr, chan, job, media, ports,
                   histVars>>

\* next_call: PjsuaCallHandle::new boxes the user data and lends it to pjsua.
\* Without a handle nothing hangs the call up.
NextCall(a) ==
    /\ Running /\ MainIdle
    /\ acc[a] = "added"
    /\ queue[a] # <<>>
    /\ queue' = [queue EXCEPT ![a] = Tail(@)]
    /\ LET h == Head(queue[a])
       IN  \/ /\ box' = [box EXCEPT ![h] = "live"]
              /\ userData' = [userData EXCEPT ![slotOf[h]] = h]
              /\ stage' = [stage EXCEPT ![h] = "incoming"]
           \/ /\ "set_user_data" \in Faults
              /\ box' = [box EXCEPT ![h] = "freed"]
              /\ stage' = [stage EXCEPT ![h] = "unmade"]
              /\ UNCHANGED userData
    /\ UNCHANGED <<status, acc, idVars, occ, inv, cbPtr, chan, job, media, ports,
                   histVars>>

\* A step of the owning thread that moves h from one stage to another.
Move(h, from, to) ==
    /\ Running /\ MainIdle
    /\ stage[h] = from
    /\ stage' = [stage EXCEPT ![h] = to]

AnswerSessionProgress(h) ==
    /\ Move(h, "incoming", "setup")
    /\ UNCHANGED <<status, accVars, idVars, pjsuaVars, box, chan, job, media, ports,
                   histVars>>

\* reject: the handle is a temporary of the statement that reads its call_id,
\* so it is dropped, and hangs up, before the rejection is sent.
Reject(h) ==
    /\ Move(h, "incoming", "handle")
    /\ job' = [job EXCEPT ![h] = "willReject"]
    /\ UNCHANGED <<status, accVars, idVars, pjsuaVars, box, chan, media, ports,
                   histVars>>

\* Mutation: the call is answered before the slots are handed over.
AddAnswersFirst(h) ==
    /\ Move(h, "setup", "answering")
    /\ ports' = [ports EXCEPT ![h] = [sink |-> "added", stream |-> "added"]]
    /\ job' = [job EXCEPT ![h] = "answer"]
    /\ UNCHANGED <<status, accVars, idVars, pjsuaVars, box, chan, media, histVars>>

\* Mutation: the stream port is never registered.
AddForgetsStream(h) ==
    /\ Move(h, "setup", "answering")
    /\ ports' = [ports EXCEPT ![h] = [sink |-> "added", stream |-> "none"]]
    /\ media' = [media EXCEPT ![h] = "sent"]
    /\ job' = [job EXCEPT ![h] = "answer"]
    /\ UNCHANGED <<status, accVars, idVars, pjsuaVars, box, chan, histVars>>

\* add up to its first await: register the sink, register the stream, hand
\* their slots over, and only then start the job that answers.
Add(h) ==
    /\ \/ /\ "conf_add_port" \in Faults   \* sink.add fails
          /\ Move(h, "setup", "handle")
          /\ ports' = [ports EXCEPT ![h] = [sink |-> "lost", stream |-> "lost"]]
          /\ UNCHANGED <<media, job>>
       \/ /\ "conf_add_port" \in Faults   \* stream.add fails
          /\ Move(h, "setup", "ports")
          /\ ports' = [ports EXCEPT ![h] = [sink |-> "added", stream |-> "lost"]]
          /\ UNCHANGED <<media, job>>
       \/ /\ Move(h, "setup", "answering")
          /\ ports' = [ports EXCEPT ![h] = [sink |-> "added", stream |-> "added"]]
          /\ media' = [media EXCEPT ![h] = "sent"]
          /\ job' = [job EXCEPT ![h] = "answer"]
    /\ UNCHANGED <<status, accVars, idVars, pjsuaVars, box, chan, histVars>>

Answered(h) ==
    /\ job[h] \in {"ok", "err"}
    /\ Move(h, "answering", IF job[h] = "ok" THEN "connecting" ELSE "ports")
    /\ UNCHANGED <<status, accVars, idVars, pjsuaVars, box, chan, job, media, ports,
                   histVars>>

Awaited == [connecting |-> "Connecting", confirming |-> "Confirmed",
            awaiting |-> "Disconnected"]
AfterAwait == [connecting |-> "confirming", confirming |-> "call", awaiting |-> "ports"]

\* await_call_state: one message; anything but the awaited state is an error.
AwaitCallState(h) ==
    /\ stage[h] \in DOMAIN Awaited
    /\ chan[h] # <<>>
    /\ chan' = [chan EXCEPT ![h] = Tail(@)]
    /\ Move(h, stage[h], IF Head(chan[h]) = Awaited[stage[h]]
                         THEN AfterAwait[stage[h]] ELSE "ports")
    /\ UNCHANGED <<status, accVars, idVars, pjsuaVars, box, job, media, ports, histVars>>

AwaitHangup(h) ==
    /\ Move(h, "call", "awaiting")
    /\ UNCHANGED <<status, accVars, idVars, pjsuaVars, box, chan, job, media, ports,
                   histVars>>

\* Mutation: a handle goes without hanging up (no impl Drop).
DropKeepsCall(h) ==
    /\ \E st \in {"incoming", "setup", "call"} : Move(h, st, "done")
    /\ box' = [box EXCEPT ![h] = "freed"]
    /\ UNCHANGED <<status, accVars, idVars, pjsuaVars, chan, job, media, ports, histVars>>

\* The application drops what it holds, or the future it waits in.  Of a
\* PjsuaCall the ports go first, except through hangup(self), which moves the
\* handle out and drops it before the ports.  The job of a dropped future runs on.
Drop(h) ==
    /\ \/ \E st \in {"incoming", "setup"} : Move(h, st, "handle")
       \/ \E st \in {"answering", "connecting", "confirming", "call", "awaiting"} :
             Move(h, st, "ports")
       \/ Move(h, "rejecting", "done")
    /\ UNCHANGED <<status, accVars, idVars, pjsuaVars, box, chan, job, media, ports,
                   histVars>>

Hangup(h) ==
    /\ Move(h, "call", "handle")
    /\ UNCHANGED <<status, accVars, idVars, pjsuaVars, box, chan, job, media, ports,
                   histVars>>

Rejected(h) ==
    /\ job[h] \in {"ok", "err"}
    /\ Move(h, "rejecting", "done")
    /\ UNCHANGED <<status, accVars, idVars, pjsuaVars, box, chan, job, media, ports,
                   histVars>>

-----------------------------------------------------------------------------
(* The owning thread: inside a drop                                         *)

\* Mutation: a hangup forgets the media ports.
FreeHandleLeavesPorts(h) ==
    /\ box' = [box EXCEPT ![h] = "freed"]
    /\ IF job[h] = "willReject"
       THEN /\ job' = [job EXCEPT ![h] = "reject"]
            /\ stage' = [stage EXCEPT ![h] = "rejecting"]
       ELSE /\ stage' = [stage EXCEPT ![h] = "done"]
            /\ UNCHANGED job

\* After PjsuaCallHandle::drop the boxed user data and the receiver go; then
\* what is left to do where the handle was dropped.
FreeHandle(h) ==
    /\ box' = [box EXCEPT ![h] = "freed"]
    /\ \/ /\ job[h] = "willReject"
          /\ job' = [job EXCEPT ![h] = "reject"]
          /\ stage' = [stage EXCEPT ![h] = "rejecting"]
       \/ /\ job[h] # "willReject"
          /\ stage' = [stage EXCEPT ![h] = IF PortsAdded(h) THEN "ports" ELSE "done"]
          /\ UNCHANGED job

\* Mutation: the user data goes whether the call is active or not.
CheckActiveFreesAlways(h) ==
    /\ Running
    /\ stage[h] = "handle"
    /\ FreeHandle(h)
    /\ UNCHANGED <<status, accVars, idVars, pjsuaVars, chan, media, ports, histVars>>

\* Mutation: the user data is withdrawn from pjsua before the hangup.
CheckActiveWithdraws(h) ==
    /\ Running
    /\ stage[h] = "handle"
    /\ userData' = [userData EXCEPT ![slotOf[h]] = None]
    /\ \/ /\ SlotActive(slotOf[h])
          /\ stage' = [stage EXCEPT ![h] = "hangup"]
          /\ UNCHANGED <<box, job>>
       \/ /\ ~SlotActive(slotOf[h])
          /\ FreeHandle(h)
    /\ UNCHANGED <<status, accVars, idVars, occ, inv, cbPtr, chan, media, ports,
                   histVars>>

\* hangup_call, first half: an inactive call needs no hangup.
CheckActive(h) ==
    /\ Running
    /\ stage[h] = "handle"
    /\ \/ /\ SlotActive(slotOf[h])
          /\ stage' = [stage EXCEPT ![h] = "hangup"]
          /\ UNCHANGED <<box, job>>
       \/ /\ ~SlotActive(slotOf[h])
          /\ FreeHandle(h)
    /\ UNCHANGED <<status, accVars, idVars, pjsuaVars, chan, media, ports, histVars>>

\* hangup_call, second half: pjsua_call_hangup with 200; an error is a panic.
HangupCall(h) ==
    /\ Running
    /\ stage[h] = "hangup"
    /\ \/ /\ SlotActive(slotOf[h])
          /\ EndCall(h)
          /\ FreeHandle(h)
       \/ /\ ~SlotActive(slotOf[h]) \/ "call_hangup" \in Faults
          /\ status' = "hangup_failed"
          /\ UNCHANGED <<inv, endedBy, chan, occ, userData, box, job, stage>>
    /\ UNCHANGED <<accVars, idVars, cbPtr, media, ports, answeredBy>>

\* Drop of the added ports: each leaves the bridge and is destroyed.
DropPorts(h) ==
    /\ Running
    /\ stage[h] = "ports"
    /\ \/ /\ ports' = [ports EXCEPT ![h] =
                         [sink   |-> IF @.sink = "added" THEN "destroyed" ELSE @.sink,
                          stream |-> IF @.stream = "added" THEN "destroyed" ELSE @.stream]]
          /\ stage' = [stage EXCEPT ![h] = IF box[h] = "live" THEN "handle" ELSE "done"]
          /\ UNCHANGED status
       \/ /\ "conf_remove_port" \in Faults
          /\ status' = "port_failed"
          /\ UNCHANGED <<ports, stage>>
    /\ UNCHANGED <<accVars, idVars, pjsuaVars, box, chan, job, media, histVars>>

-----------------------------------------------------------------------------

Worker ==
    \/ \E c \in Calls, a \in Accounts, s \in Slots : IncomingCall(c, a, s)
    \/ \E c \in Calls : Confirm(c) \/ RemoteEnd(c)
    \/ \E s \in Slots : RemoteEndReads(s) \/ RemoteEndReported(s) \/ OnCallMediaState(s)

Pool == \E h \in Calls : AnswerJob(h) \/ RejectJob(h)

Owner ==
    \/ \E a \in Accounts : AddAccount(a) \/ DropAccount(a) \/ NextCall(a)
    \/ \E h \in Calls :
          \/ AnswerSessionProgress(h) \/ Reject(h) \/ Add(h) \/ Answered(h)
          \/ AwaitCallState(h) \/ AwaitHangup(h) \/ Drop(h) \/ Hangup(h) \/ Rejected(h)
          \/ CheckActive(h) \/ HangupCall(h) \/ DropPorts(h)

Next == Worker \/ Pool \/ Owner

Spec == Init /\ [][Next]_vars

\* The scheduler runs started work: jobs of the pool, futures that can resume,
\* drops, callbacks.  pjsip's transaction timers end an answered call that is
\* never acknowledged.  Nothing makes the application or the remote side act.
Fairness ==
    /\ \A h \in Calls :
          /\ WF_vars(AnswerJob(h)) /\ WF_vars(RejectJob(h))
          /\ WF_vars(Answered(h)) /\ WF_vars(AwaitCallState(h)) /\ WF_vars(Rejected(h))
          /\ WF_vars(CheckActive(h)) /\ WF_vars(HangupCall(h)) /\ WF_vars(DropPorts(h))
    /\ \A s \in Slots : WF_vars(RemoteEndReported(s))
    /\ \A c \in Calls : WF_vars(Confirm(c) \/ (inv[c] = "Connecting" /\ RemoteEnd(c)))

FairSpec == Spec /\ Fairness

-----------------------------------------------------------------------------
(* The promise, and how this module's state stands for the promise's        *)

PhaseOf == [Null |-> "none", Calling |-> "none", Incoming |-> "ringing",
            Early |-> "ringing", Connecting |-> "answered", Confirmed |-> "confirmed",
            Disconnected |-> "over"]

Queued(c) == \E a \in Accounts : \E i \in 1..Len(queue[a]) : queue[a][i] = c

HoldOf(h) ==
    CASE box[h] = "freed"                              -> "released"
      [] box[h] = "live" /\ stage[h] \in Dropping      -> "closing"
      [] box[h] = "live" /\ stage[h] \in {"call", "awaiting"} -> "inCall"
      [] box[h] = "live" /\ stage[h] \in Adding        -> "asked"
      [] box[h] = "live" /\ stage[h] \in {"incoming", "setup"} -> "held"
      [] box[h] = "none" /\ Queued(h)                  -> "offered"
      [] box[h] = "none" /\ ~Queued(h) /\ inv[h] # "Null" -> "withdrawn"
      [] OTHER                                         -> "none"

Promised ==
    INSTANCE CallPromise WITH
        Nobody      <- None,
        TakeMayFail <- "set_user_data" \in Faults,
        up          <- Running,
        phase       <- [c \in Calls |-> PhaseOf[inv[c]]],
        hold        <- [h \in Calls |-> HoldOf(h)],
        by          <- answeredBy

\* The ports of one call, of which MediaPorts has the single steps.
Ports(h) ==
    INSTANCE PortsPromise WITH
        sink   <- ports[h].sink,
        stream <- ports[h].stream,
        over   <- stage[h] = "done"

-----------------------------------------------------------------------------
(* Properties                                                               *)

Order == [Null |-> 0, Calling |-> 1, Incoming |-> 2, Early |-> 3, Connecting |-> 4,
          Confirmed |-> 5, Disconnected |-> 6]

\* The three messages a channel holds are all that on_call_state ever sends to
\* one handle: its try_send (pjsua_config.rs:67) never meets a full channel,
\* however late the application gets round to reading.
StateChannelSuffices == StateCap >= 3 => status # "state_full"

\* The user data of a call that has not ended is not freed: whatever the order
\* of drops, remote hangups and reuses of the entry, the callbacks of a live call
\* find the box of a handle (the comment in PjsuaCallHandle::drop).
ActiveCallDataLive ==
    \A s \in Slots : SlotActive(s) /\ userData[s] # None => box[userData[s]] = "live"

\* An undisturbed handle hears its own call: as long as the call occupies its
\* entry and the handle lives, on_call_state reports to it, unless the user data
\* was taken over by a handle of another account from an outdated queue entry, one
\* whose own call has ended.
OwnEvents ==
    \A c \in Calls :
        box[c] = "live" /\ occ[slotOf[c]] = c =>
            LET p == userData[slotOf[c]]
            IN  \/ p = c
                \/ p # None /\ accOf[p] # accOf[c] /\ inv[p] = "Disconnected"

\* No call outlives its handle: by the time the user data is freed the call has
\* ended, however the handle went (dropped, rejected, hung up, an error of add,
\* a dropped future) and whatever failed on the way.  Only a call for which
\* next_call could make no handle goes on without one.
NoCallOutlivesHandle ==
    \A h \in Calls : box[h] = "freed" /\ stage[h] # "unmade" => inv[h] = "Disconnected"

\* A call that its own handle answered has its media data waiting in the oneshot
\* or already connected, before the ACK can make on_call_media_state ask for it
\* (add sends the slots first, then answers).
MediaReady ==
    \A c \in Calls :
        answeredBy[c] = c /\ inv[c] \in {"Connecting", "Confirmed"} =>
            media[c] \in {"sent", c}

\* A handle that is gone left nothing behind: its user data is freed, and no
\* port of it stays in the bridge.
Released ==
    \A h \in Calls :
        stage[h] \in {"done", "unmade"} => box[h] = "freed" /\ ~PortsAdded(h)

\* What a handle has still to read is in the order of the INVITE session's
\* states, so await_call_state never mistakes an old report for a new one.
EventsOrdered ==
    \A h \in Calls : \A i, j \in 1..Len(chan[h]) :
        i < j => Order[chan[h][i]] < Order[chan[h][j]]

\* A handle answers, ends or feeds media to a call other than its own only when
\* its own has ended: a live call never shares its entry.
OthersOnlyWhenOver ==
    \A h, c \in Calls :
        h # c /\ (answeredBy[c] = h \/ endedBy[c] = h \/ media[h] = c) =>
            inv[h] = "Disconnected"

\* No handle of another account has been made for a call of h's entry, so that
\* nobody took the reports to h over.
Undisturbed(h) ==
    \A x \in Calls : box[x] # "none" /\ slotOf[x] = slotOf[h] => accOf[x] = accOf[h]

\* No report is lost: an undisturbed handle that finds nothing to read while it
\* awaits a state of the call it answered has been told of all that happened; the
\* state is still to come, or is being reported.  Whatever interleaving of the
\* reports with the answer, the awaits and other handles of the entry: no await
\* of a state that has passed waits for ever.
NobodyWaitsInVain ==
    Running =>
        \A h \in Calls :
            /\ stage[h] \in DOMAIN Awaited /\ chan[h] = <<>>
            /\ answeredBy[h] = h /\ Undisturbed(h)
            => \/ Order[inv[h]] < Order[Awaited[stage[h]]]
               \/ cbPtr[slotOf[h]] = h

\* PjsuaCallSetup::add returns: a future that waits for the answer, for
\* CONNECTING or for CONFIRMED resumes, because the call gets there or ends, and
\* either is reported.  It may wait for ever only if the handle answered somebody
\* else's call (its own ended and the entry was reused), or if a handle of another
\* account took its reports over.
AddReturns ==
    \A h \in Calls :
        stage[h] \in Adding ~>
            \/ ~Running
            \/ stage[h] \notin Adding
            \/ \E c \in Calls \ {h} : answeredBy[c] = h
            \/ ~Undisturbed(h)

\* await_hangup returns when the call that its handle answered has ended, unless
\* a handle of another account took its reports over.
HangupSeen ==
    \A h \in Calls :
        stage[h] = "awaiting" /\ answeredBy[h] = h /\ inv[h] = "Disconnected" ~>
            ~Running \/ stage[h] # "awaiting" \/ ~Undisturbed(h)

\* The queue of an account overflows (expect on try_send, pjsua_config.rs:37) only
\* for want of cleaning up: of the calls that fill the queue in which the arriving
\* call finds no place, all but as many as there are other call ids have ended
\* and were left there.
FullQueueIsStale ==
    [][status # "incoming_full" /\ status' = "incoming_full" =>
        \E a \in Accounts :
            /\ \E c \in Calls : inv[c] = "Null" /\ inv'[c] # "Null" /\ accOf'[c] = a
            /\ Len(queue[a]) = IncomingCap
            /\ Cardinality({i \in 1..Len(queue[a]) : inv[queue[a][i]] # "Disconnected"})
                   < Cardinality(Slots)]_vars

\* A pointer is used that may not be only in three situations: pjsua_acc_del
\* failed and a call came for the account (pjsua_account_config.rs:187); a report
\* in progress met the drop of its handle (pjsua_call.rs:165); or a call was
\* answered through the outdated handle of an earlier call of its entry.
UndefinedHasCause ==
    [][status' = "undefined" /\ status # "undefined" =>
        \/ \E a \in Accounts : acc[a] = "dangling"
        \/ \E s \in Slots : cbPtr[s] \in Calls /\ box[cbPtr[s]] = "freed"
        \/ \E c \in Calls : answeredBy[c] \notin {None, c}]_vars

\* connect_slots fails on its own account only when media is reported to a handle
\* on its way out: the ports of a PjsuaCall leave the bridge before its handle
\* hangs up (pjsua_call.rs:313).
ConnectFailsInDropOnly ==
    status = "connect_failed" /\ {"call_conf_port", "conf_connect"} \cap Faults = {} =>
        \E h \in Calls : stage[h] \in {"handle", "hangup"} /\ ports[h].sink = "destroyed"

\* The detailed behaviour is one that CallPromise allows: a handle answers and
\* ends only what it speaks for, is released only when its own call is over, and
\* becomes a PjsuaCall only if it answered a call and its own is confirmed or over.
KeepsPromise == Promised!Spec

\* pjsua_call.rs:165: dropping a handle "will hangup the call if it's still
\* active AND prevent any futher usafe of on_state_changed.  Then it follows that
\* user_data will no longer be used."  (A callback in progress still uses it.)
UserDataNoLongerUsed == \A s \in Slots : cbPtr[s] \in Calls => box[cbPtr[s]] = "live"

\* pjsua_call.rs:165: a drop hangs up "the call", the handle's own.
HangsUpOwnCall == \A c \in Calls : endedBy[c] \in {None, c}

\* pjsua_config.rs:136: ffi_assert!(false), the media data is always there.
MediaDataAlwaysReceived == status # "no_media_data"

\* pjsua_call.rs:168: hangup_call(..).expect(..), a hangup of a call that was
\* found active does not fail.
HangupNeverFails == status # "hangup_failed"

\* What becomes of the ports of each call, in one step each of add and of a drop,
\* is what MediaPorts makes of them in several.
CallsKeepPorts ==
    /\ \A h \in Calls : Ports(h)!Init
    /\ [][\A h \in Calls : [Ports(h)!Next]_(Ports(h)!vars)]_vars
=============================================================================
