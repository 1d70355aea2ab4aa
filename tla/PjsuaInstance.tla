---------------------------- MODULE PjsuaInstance ----------------------------
(***************************************************************************)
(* The one pjsua instance of a process (pjsua_softphone_api.rs).  Any      *)
(* thread may ask for it; a Mutex<bool> taken with try_lock lets one of    *)
(* them create pjsua, once.  The value that thread gets turns, by          *)
(* consumption, from PjsuaInstanceUninit into PjsuaInstanceInit,           *)
(* PjsuaInstanceInitTransportConfigured and PjsuaInstanceStarted.  It may  *)
(* be dropped at any point, and each of those steps may fail; either way   *)
(* its fields go one after the other, in the order Rust prescribes, and    *)
(* the handle among them destroys pjsua.                                   *)
(*                                                                         *)
(* The values are neither Send nor Sync, so value[t] stays with thread t.  *)
(***************************************************************************)
EXTENDS Naturals, Sequences

CONSTANTS
    Threads,    \* the threads that may call get_instance
    Faults,     \* the pjsua functions that may return an error
    None        \* no thread

FaultNames == {"create", "init", "set_null_snd_dev", "transport_create", "start"}

ASSUME InstanceAssumption ==
    /\ None \notin Threads
    /\ Faults \subseteq FaultNames

VARIABLES
    guard,      \* the thread that holds the Mutex
    crated,     \* INSTANCE_CRATED
    pjsua,      \* the state of the library
    stage,      \* where a thread is, or the type of the value it holds
    value       \* what a thread's value is made of, in the order it would be dropped

vars == <<guard, crated, pjsua, stage, value>>

-----------------------------------------------------------------------------

\* "locked", "creating": inside get_instance.  "refused": the last get_instance
\* returned "Pjsua instance already created".
Stages ==
    {"out", "locked", "creating", "refused", "uninit", "init", "configured", "started",
     "dropping"}

PjsuaStates == {"null", "created", "init", "running", "destroyed"}

Fields == {"handle", "config", "log", "media", "transport"}

\* The fields of each type, in the order of their declaration.
Uninit      == <<"handle">>
Initialized == <<"log", "media", "config", "handle">>
Configured  == <<"log", "media", "config", "handle", "transport">>
Started     == <<"log", "config", "transport", "handle">>

\* The parameters of a failing init, and of a failing set_transport, from last to
\* first: media_config, log_config, pjsua_config, instance; transport, self.
InitParameters == <<"media", "log", "config", "handle">>
TransportParameters == <<"transport", "log", "media", "config", "handle">>

TypeOK ==
    /\ guard \in Threads \cup {None}
    /\ crated \in BOOLEAN
    /\ pjsua \in PjsuaStates
    /\ stage \in [Threads -> Stages]
    /\ value \in [Threads -> Seq(Fields)]

Init ==
    /\ guard = None
    /\ crated = FALSE
    /\ pjsua = "null"
    /\ stage = [t \in Threads |-> "out"]
    /\ value = [t \in Threads |-> <<>>]

-----------------------------------------------------------------------------
(* PjsuaInstanceHandle::get_instance                                        *)

\* try_lock: whoever finds the mutex taken is told that the instance exists.
TryLock(t) ==
    /\ stage[t] \in {"out", "refused"}
    /\ \/ /\ guard = None
          /\ guard' = t
          /\ stage' = [stage EXCEPT ![t] = "locked"]
       \/ /\ guard # None
          /\ stage' = [stage EXCEPT ![t] = "refused"]
          /\ UNCHANGED guard
    /\ UNCHANGED <<crated, pjsua, value>>

\* Mutation: the flag is not set.
CheckFlagLeavesIt(t) ==
    /\ stage[t] = "locked"
    /\ \/ /\ ~crated
          /\ stage' = [stage EXCEPT ![t] = "creating"]
          /\ UNCHANGED guard
       \/ /\ crated
          /\ stage' = [stage EXCEPT ![t] = "refused"]
          /\ guard' = None
    /\ UNCHANGED <<crated, pjsua, value>>

\* The flag is set before pjsua_create is called, and never reset.
CheckFlag(t) ==
    /\ stage[t] = "locked"
    /\ \/ /\ ~crated
          /\ crated' = TRUE
          /\ stage' = [stage EXCEPT ![t] = "creating"]
          /\ UNCHANGED guard
       \/ /\ crated
          /\ stage' = [stage EXCEPT ![t] = "refused"]
          /\ guard' = None
          /\ UNCHANGED crated
    /\ UNCHANGED <<pjsua, value>>

\* pjsua_create, under the mutex.  An error leaves the flag set.
Create(t) ==
    /\ stage[t] = "creating"
    /\ guard' = None
    /\ \/ /\ pjsua' = "created"
          /\ stage' = [stage EXCEPT ![t] = "uninit"]
          /\ value' = [value EXCEPT ![t] = Uninit]
       \/ /\ "create" \in Faults
          /\ stage' = [stage EXCEPT ![t] = "out"]
          /\ UNCHANGED <<pjsua, value>>
    /\ UNCHANGED crated

-----------------------------------------------------------------------------
(* The steps from one type to the next.  A failing step drops what it was   *)
(* given: its parameters from last to first, a value field by field.        *)

Drops(t, fields) ==
    /\ stage' = [stage EXCEPT ![t] = "dropping"]
    /\ value' = [value EXCEPT ![t] = fields]

\* Mutation: the handle is forgotten when pjsua_init fails.
InitializeForgets(t) ==
    /\ stage[t] = "uninit"
    /\ \/ /\ pjsua' = "init"
          /\ stage' = [stage EXCEPT ![t] = "init"]
          /\ value' = [value EXCEPT ![t] = Initialized]
       \/ /\ "init" \in Faults
          /\ Drops(t, <<"media", "log", "config">>)
          /\ UNCHANGED pjsua
    /\ UNCHANGED <<guard, crated>>

\* init: pjsua_init, then pjsua_set_null_snd_dev.
Initialize(t) ==
    /\ stage[t] = "uninit"
    /\ \/ /\ pjsua' = "init"
          /\ stage' = [stage EXCEPT ![t] = "init"]
          /\ value' = [value EXCEPT ![t] = Initialized]
       \/ /\ "init" \in Faults
          /\ Drops(t, InitParameters)
          /\ UNCHANGED pjsua
       \/ /\ "set_null_snd_dev" \in Faults
          /\ Drops(t, InitParameters)
          /\ pjsua' = "init"
    /\ UNCHANGED <<guard, crated>>

SetTransport(t) ==
    /\ stage[t] = "init"
    /\ \/ /\ stage' = [stage EXCEPT ![t] = "configured"]
          /\ value' = [value EXCEPT ![t] = Configured]
       \/ /\ "transport_create" \in Faults
          /\ Drops(t, TransportParameters)
    /\ UNCHANGED <<guard, crated, pjsua>>

\* start: pjsua_start; the media configuration, left behind in self, is dropped.
Start(t) ==
    /\ stage[t] = "configured"
    /\ \/ /\ pjsua' = "running"
          /\ stage' = [stage EXCEPT ![t] = "started"]
          /\ value' = [value EXCEPT ![t] = Started]
       \/ /\ "start" \in Faults
          /\ Drops(t, Configured)
          /\ UNCHANGED pjsua
    /\ UNCHANGED <<guard, crated>>

-----------------------------------------------------------------------------
(* Drops                                                                    *)

\* The application lets go of its value.
Drop(t) ==
    /\ stage[t] \in {"uninit", "init", "configured", "started"}
    /\ Drops(t, value[t])
    /\ UNCHANGED <<guard, crated, pjsua>>

\* Mutation: with the handle gone, pjsua may be created again.
DropFieldResetsFlag(t) ==
    /\ stage[t] = "dropping"
    /\ IF value[t] = <<>>
       THEN /\ stage' = [stage EXCEPT ![t] = "out"]
            /\ UNCHANGED <<crated, pjsua, value>>
       ELSE /\ value' = [value EXCEPT ![t] = Tail(@)]
            /\ pjsua' = IF Head(value[t]) = "handle" THEN "destroyed" ELSE pjsua
            /\ crated' = (crated /\ Head(value[t]) # "handle")
            /\ UNCHANGED stage
    /\ UNCHANGED guard

\* One field goes; PjsuaInstanceHandle::drop calls pjsua_destroy.
DropField(t) ==
    /\ stage[t] = "dropping"
    /\ \/ /\ value[t] = <<>>
          /\ stage' = [stage EXCEPT ![t] = "out"]
          /\ UNCHANGED <<pjsua, value>>
       \/ /\ value[t] # <<>>
          /\ value' = [value EXCEPT ![t] = Tail(@)]
          /\ pjsua' = IF Head(value[t]) = "handle" THEN "destroyed" ELSE pjsua
          /\ UNCHANGED stage
    /\ UNCHANGED <<guard, crated>>

-----------------------------------------------------------------------------

Next ==
    \E t \in Threads :
        \/ TryLock(t) \/ CheckFlag(t) \/ Create(t)
        \/ Initialize(t) \/ SetTransport(t) \/ Start(t)
        \/ Drop(t) \/ DropField(t)

Spec == Init /\ [][Next]_vars

-----------------------------------------------------------------------------
(* The promise, and how this module's state stands for the promise's        *)

Handles(fields) == \E i \in 1..Len(fields) : fields[i] = "handle"
Holds(t) == Handles(value[t])

\* A flag that is set with nothing created, and nobody at it, stays so for ever.
Spoilt == pjsua = "null" /\ crated /\ \A t \in Threads : stage[t] # "creating"

Promised ==
    INSTANCE InstancePromise WITH
        owners  <- {t \in Threads : Holds(t)},
        library <- IF Spoilt THEN "spoilt" ELSE IF pjsua = "null" THEN "none" ELSE pjsua

-----------------------------------------------------------------------------
(* Properties                                                               *)

\* pjsua belongs to one handle: it is alive exactly while a thread holds one,
\* no second thread gets one, and the type of its value tells the library's
\* state, so that no typed operation meets a library that is not ready for it.
HandleOwnsPjsua ==
    /\ \A t, u \in Threads : Holds(t) /\ Holds(u) => t = u
    /\ pjsua \in {"created", "init", "running"} => \E t \in Threads : Holds(t)
    /\ \A t \in Threads :
          /\ stage[t] = "uninit" => pjsua = "created"
          /\ stage[t] \in {"init", "configured"} => pjsua = "init"
          /\ stage[t] = "started" => pjsua = "running"

\* pjsua is created at most once in the life of a process: once destroyed it
\* stays so, whoever calls get_instance, and whenever (INSTANCE_CRATED).
DestroyedForGood == [][pjsua = "destroyed" => pjsua' = "destroyed"]_vars

\* A race of get_instance calls has a winner: when nobody is inside and somebody
\* was refused, pjsua_create has been called.  Not everyone can lose to a
\* try_lock that found the mutex taken.
RefusedForAReason ==
    guard = None /\ (\E t \in Threads : stage[t] = "refused") => crated

\* pjsua_softphone_api.rs:56: "PjsuaInstanceInit MUST be dropped as the last, as
\* it uninitializes pjsua completely": when pjsua is destroyed, all else is gone.
DestroyedLast == pjsua = "destroyed" => \A t \in Threads : value[t] = <<>>

\* Whatever threads race and whichever step fails, pjsua is obtained by one thread,
\* once, goes through its states in order, and goes with that thread's value.
KeepsPromise == Promised!Spec
=============================================================================
