----------------------------- MODULE CallPromise -----------------------------
(***************************************************************************)
(* What an application may rely on when it takes calls from an account,    *)
(* without the means by which the crate keeps it: no call table, no        *)
(* channels, no user data, no blocking jobs, no stages of a drop.          *)
(*                                                                         *)
(* A call lives on the wire; the handle of the same name is what the       *)
(* application gets of it.  PjsuaCall implements this module (Promised).   *)
(***************************************************************************)
EXTENDS Naturals

CONSTANTS
    Calls,        \* calls, each also naming its handle
    Nobody,       \* no handle
    TakeMayFail   \* whether taking a call may fail and leave the call alone

VARIABLES
    up,      \* the process runs
    phase,   \* of a call: "none", "ringing", "answered", "confirmed", "over"
    hold,    \* of a handle: see Holds
    by       \* the handle on whose request a call was answered

vars == <<up, phase, hold, by>>

Phases == {"none", "ringing", "answered", "confirmed", "over"}

\* "offered": next_call will return it.  "withdrawn": its account went first.
\* "held": taken.  "asked": asked to answer.  "inCall": a PjsuaCall.  "closing":
\* on its way out.  "released": nothing of the handle is left.
Holds ==
    {"none", "offered", "withdrawn", "held", "asked", "inCall", "closing", "released"}

Init ==
    /\ up = TRUE
    /\ phase = [c \in Calls |-> "none"]
    /\ hold = [c \in Calls |-> "none"]
    /\ by = [c \in Calls |-> Nobody]

-----------------------------------------------------------------------------
(* The wire                                                                 *)

\* A call arrives and is offered, unless its arrival ends the process.
Arrive(c) ==
    /\ phase[c] = "none"
    /\ phase' = [phase EXCEPT ![c] = "ringing"]
    /\ \/ hold' = [hold EXCEPT ![c] = "offered"]
       \/ ~up' /\ hold' = [hold EXCEPT ![c] = "withdrawn"]
    /\ UNCHANGED by

Confirm(c) ==
    /\ phase[c] = "answered"
    /\ phase' = [phase EXCEPT ![c] = "confirmed"]
    /\ UNCHANGED <<hold, by>>

RemoteEnd(c) ==
    /\ phase[c] \in {"ringing", "answered", "confirmed"}
    /\ phase' = [phase EXCEPT ![c] = "over"]
    /\ UNCHANGED <<hold, by>>

-----------------------------------------------------------------------------
(* Requests made through handles                                            *)

\* A handle speaks for its own call for as long as that lives.
SpeaksFor(h, c) == h = c \/ phase[h] = "over"

\* A call is answered only on the request of a handle that was asked to, though
\* the request may outlive the handle.
Answer(h, c) ==
    /\ hold[h] \in {"asked", "closing", "released"}
    /\ SpeaksFor(h, c)
    /\ phase[c] = "ringing"
    /\ phase' = [phase EXCEPT ![c] = "answered"]
    /\ by' = [by EXCEPT ![c] = h]
    /\ UNCHANGED hold

\* A late rejection: the handle is gone, its call is over.
Dismiss(h, c) ==
    /\ hold[h] = "released"
    /\ SpeaksFor(h, c)
    /\ RemoteEnd(c)

Withdraw(cs) ==
    /\ \A c \in cs : hold[c] = "offered"
    /\ hold' = [c \in Calls |-> IF c \in cs THEN "withdrawn" ELSE hold[c]]
    /\ UNCHANGED <<phase, by>>

Take(h) ==
    /\ hold[h] = "offered"
    /\ \/ hold' = [hold EXCEPT ![h] = "held"]
       \/ TakeMayFail /\ hold' = [hold EXCEPT ![h] = "released"]
    /\ UNCHANGED <<phase, by>>

Ask(h) ==
    /\ hold[h] = "held"
    /\ hold' = [hold EXCEPT ![h] = "asked"]
    /\ UNCHANGED <<phase, by>>

\* A handle becomes a PjsuaCall only if it answered a call, and its own call is
\* confirmed or over.
Establish(h) ==
    /\ hold[h] = "asked"
    /\ \E c \in Calls : by[c] = h
    /\ phase[h] \in {"confirmed", "over"}
    /\ hold' = [hold EXCEPT ![h] = "inCall"]
    /\ UNCHANGED <<phase, by>>

Close(h) ==
    /\ hold[h] \in {"held", "asked", "inCall"}
    /\ hold' = [hold EXCEPT ![h] = "closing"]
    /\ UNCHANGED <<phase, by>>

\* A handle that closes ends a call it speaks for, if there is one to end, and
\* is released when its own call is over.
Release(h) ==
    /\ hold[h] = "closing"
    /\ hold' = [hold EXCEPT ![h] = "released"]
    /\ \/ UNCHANGED phase
       \/ \E c \in Calls :
             /\ SpeaksFor(h, c)
             /\ phase[c] \in {"ringing", "answered", "confirmed"}
             /\ phase' = [phase EXCEPT ![c] = "over"]
    /\ phase'[h] = "over"
    /\ UNCHANGED by

Step ==
    \/ \E c \in Calls : Arrive(c) \/ Confirm(c) \/ RemoteEnd(c)
    \/ \E h, c \in Calls : Answer(h, c) \/ Dismiss(h, c)
    \/ \E cs \in SUBSET Calls : Withdraw(cs)
    \/ \E h \in Calls : Take(h) \/ Ask(h) \/ Establish(h) \/ Close(h) \/ Release(h)

\* An assertion of the code may end the process in any step, or in between.
Next ==
    /\ up
    /\ up' \in BOOLEAN
    /\ Step \/ UNCHANGED <<phase, hold, by>>

Spec == Init /\ [][Next]_vars
=============================================================================
