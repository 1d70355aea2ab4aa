--------------------------- MODULE InstancePromise ---------------------------
(***************************************************************************)
(* What PjsuaInstanceHandle::get_instance promises to the threads of a     *)
(* process, without the mutex, the flag and the order of the drops: one    *)
(* thread gets pjsua, once, and takes it through its states; when that     *)
(* thread lets go, or pjsua_create fails, that was all.                    *)
(*                                                                         *)
(* PjsuaInstance implements this module (Promised).                        *)
(***************************************************************************)

CONSTANT Threads

VARIABLES
    owners,    \* the threads that hold the handle of pjsua
    library    \* "none", "created", "init", "running", "destroyed", or "spoilt":
               \* pjsua_create has failed

vars == <<owners, library>>

Init == owners = {} /\ library = "none"

Obtain(t) == library = "none" /\ library' = "created" /\ owners' = {t}

Spoil == library = "none" /\ library' = "spoilt" /\ UNCHANGED owners

Advance(t) ==
    /\ t \in owners
    /\ <<library, library'>> \in {<<"created", "init">>, <<"init", "running">>}
    /\ UNCHANGED owners

Release(t) == t \in owners /\ owners' = owners \ {t} /\ library' = "destroyed"

Next == Spoil \/ \E t \in Threads : Obtain(t) \/ Advance(t) \/ Release(t)

Spec == Init /\ [][Next]_vars
=============================================================================
