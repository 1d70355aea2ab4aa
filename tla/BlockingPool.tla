---------------------------- MODULE BlockingPool ----------------------------
(***************************************************************************)
(* spawn_blocking_pjsua: jobs that call pjsua on tokio's blocking threads. *)
(*                                                                         *)
(* A job starts by registering its thread with pjlib, unless the thread is *)
(* registered, and then calls pjsua.  tokio starts a job on any idle       *)
(* worker, in no order a caller may rely on, and ends workers that stay    *)
(* idle; another thread may take the place of such a worker.               *)
(***************************************************************************)
EXTENDS Naturals, FiniteSets

CONSTANTS
    Workers,   \* tokio's blocking threads
    Jobs,      \* bound: the jobs spawned in the life of the process
    NoWorker

ASSUME PoolAssumption == NoWorker \notin Workers

VARIABLES
    job,             \* "none", "queued", "registered" (its thread is), "done"
    on,              \* the worker that a job runs on
    registered,      \* pj_thread_is_registered, of each worker
    registrations,   \* history: the calls of pj_thread_register on each worker
    exited           \* a failed registration has ended the process

poolVars == <<job, on, registered, registrations, exited>>

PoolTypeOK ==
    /\ job \in [Jobs -> {"none", "queued", "registered", "done"}]
    /\ on \in [Jobs -> Workers \cup {NoWorker}]
    /\ registered \subseteq Workers
    /\ registrations \in [Workers -> Nat]
    /\ exited \in BOOLEAN

PoolInit ==
    /\ job = [j \in Jobs |-> "none"]
    /\ on = [j \in Jobs |-> NoWorker]
    /\ registered = {}
    /\ registrations = [w \in Workers |-> 0]
    /\ exited = FALSE

IdleWorker(w) == \A j \in Jobs : on[j] # w

\* spawn_blocking_pjsua
SpawnJob(j) ==
    /\ job[j] = "none"
    /\ job' = [job EXCEPT ![j] = "queued"]
    /\ UNCHANGED <<on, registered, registrations, exited>>

\* Mutation: one thread registers for all.
RegisterOnce(w) ==
    IF registered = {}
    THEN registered' = {w} /\ registrations' = [registrations EXCEPT ![w] = @ + 1]
    ELSE UNCHANGED <<registered, registrations>>

\* Mutation: every job registers its thread.
RegisterAlways(w) ==
    /\ registered' = registered \cup {w}
    /\ registrations' = [registrations EXCEPT ![w] = @ + 1]

\* PjsuaThreadMeta::register
Register(w) ==
    \/ /\ w \in registered
       /\ UNCHANGED <<registered, registrations>>
    \/ /\ w \notin registered
       /\ registered' = registered \cup {w}
       /\ registrations' = [registrations EXCEPT ![w] = @ + 1]

\* A worker picks a job up and registers; a failure ends the process
\* (ffi_assert_res).
StartJob(j, w) ==
    /\ job[j] = "queued" /\ IdleWorker(w)
    /\ \/ /\ job' = [job EXCEPT ![j] = "registered"]
          /\ on' = [on EXCEPT ![j] = w]
          /\ Register(w)
          /\ UNCHANGED exited
       \/ /\ w \notin registered
          /\ exited' = TRUE
          /\ UNCHANGED <<job, on, registered, registrations>>

\* The job calls pjsua, and is done.
RunJob(j) ==
    /\ job[j] = "registered"
    /\ job' = [job EXCEPT ![j] = "done"]
    /\ on' = [on EXCEPT ![j] = NoWorker]
    /\ UNCHANGED <<registered, registrations, exited>>

\* An idle worker ends; what replaces it has not called pjlib yet.
EndWorker(w) ==
    /\ IdleWorker(w) /\ w \in registered
    /\ registered' = registered \ {w}
    /\ registrations' = [registrations EXCEPT ![w] = 0]
    /\ UNCHANGED <<job, on, exited>>

-----------------------------------------------------------------------------
(* Properties                                                               *)

\* Whatever worker a job lands on, after whatever other jobs, it calls pjsua only
\* from a registered thread, and no thread is registered a second time.
CallsFromRegisteredThreads ==
    /\ \A j \in Jobs : job[j] = "registered" => on[j] \in registered
    /\ \A w \in Workers : registrations[w] <= 1
=============================================================================
