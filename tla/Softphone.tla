------------------------------ MODULE Softphone ------------------------------
(***************************************************************************)
(* The ends of things: the pjsua instance, the values that borrow it, and  *)
(* the blocking jobs that borrow nothing.                                  *)
(*                                                                         *)
(* Every value of the crate calls pjsua when it is made or dropped.  That  *)
(* pjsua still runs then is left to Rust's borrows: an account, a handle   *)
(* or an added port holds a reference to PjsuaInstanceStarted, so that it  *)
(* must go first.  A job of the blocking pool holds a call id and nothing  *)
(* else; what keeps the instance is the future that awaits it.  Memory     *)
(* pools borrow nothing.                                                   *)
(*                                                                         *)
(* At most one value of each type is alive at a time.                      *)
(***************************************************************************)
EXTENDS PjsuaInstance, BlockingPool

VARIABLES
    alive,    \* the values that are alive, apart from the instance itself
    future,   \* of each job: "none", "answer", "reject", "returned", "dropped"
    strays    \* history: what called pjsua when it was not there

softVars == <<vars, poolVars, alive, future, strays>>

\* "added": a port in the conference bridge.
Values == {"account", "handle", "pool", "port", "added"}

SoftphoneTypeOK ==
    /\ TypeOK
    /\ PoolTypeOK
    /\ alive \subseteq Values
    /\ future \in [Jobs -> {"none", "answer", "reject", "returned", "dropped"}]
    /\ strays \subseteq Values \cup Jobs

SoftphoneInit ==
    /\ Init
    /\ PoolInit
    /\ alive = {}
    /\ future = [j \in Jobs |-> "none"]
    /\ strays = {}

-----------------------------------------------------------------------------
(* Borrows                                                                  *)

\* Mutation: an added port keeps no reference to its memory pool.
AddedBorrowsInstance(v) ==
    (IF v \in {"account", "handle", "added"} THEN {"instance"} ELSE {})
    \cup (IF v = "port" THEN {"pool"} ELSE {})

\* Mutation: a handle keeps no reference to the instance.
HandleBorrowsNothing(v) ==
    (IF v \in {"account", "added"} THEN {"instance"} ELSE {})
    \cup (IF v \in {"port", "added"} THEN {"pool"} ELSE {})

\* What the type of a value holds references to.
Borrows(v) ==
    (IF v \in {"account", "handle", "added"} THEN {"instance"} ELSE {})
    \cup (IF v \in {"port", "added"} THEN {"pool"} ELSE {})

Awaited(j) == future[j] \in {"answer", "reject"}

\* Rust lets a value go only when nothing borrows it.  The future of an answer
\* owns the handle and the ports, and either future has the lifetime of a handle.
Free(x) ==
    /\ \A v \in alive : x \notin Borrows(v)
    /\ x \in {"instance", "handle", "added"} => \A j \in Jobs : future[j] # "answer"
    /\ x = "instance" => \A j \in Jobs : ~Awaited(j)

Usable == pjsua \in {"created", "init", "running"}

\* Somebody calls pjsua.
Touches(x) == strays' = IF Usable THEN strays ELSE strays \cup {x}

\* The crate's operations on accounts, calls and ports take a started instance.
HaveInstance == \E t \in Threads : stage[t] = "started"

-----------------------------------------------------------------------------
(* The instance                                                             *)

InstanceStep ==
    /\ \E t \in Threads :
          \/ TryLock(t) \/ CheckFlag(t) \/ Create(t)
          \/ Initialize(t) \/ SetTransport(t) \/ Start(t)
          \/ Free("instance") /\ Drop(t)
          \/ DropField(t)
    /\ UNCHANGED <<poolVars, alive, future, strays>>

-----------------------------------------------------------------------------
(* The values                                                               *)

Makes(v) ==
    /\ v \notin alive
    /\ alive' = alive \cup {v}
    /\ Touches(v)
    /\ UNCHANGED <<vars, poolVars, future>>

\* PjsuaMemoryPool::new asks for no instance.
MakePool == Makes("pool")

\* add_account
MakeAccount == HaveInstance /\ Makes("account")

\* next_call
TakeCall == HaveInstance /\ "account" \in alive /\ Makes("handle")

\* CustomSinkMediaPort::new, CustomStreamMediaPort::new: memory of the pool only.
MakePort == "pool" \in alive /\ Makes("port")

\* PjsuaCallSetup::add puts the port into the bridge, or loses it.
AddPort ==
    /\ HaveInstance /\ {"handle", "port"} \subseteq alive /\ "added" \notin alive
    /\ Free("handle")
    /\ alive' \in {alive \ {"port"}, (alive \ {"port"}) \cup {"added"}}
    /\ Touches("added")
    /\ UNCHANGED <<vars, poolVars, future>>

\* A drop.  A port that was not added tells nobody; an added one needs the bridge
\* and the memory that the bridge took from the pool.
DropValue(v) ==
    /\ v \in alive /\ Free(v)
    /\ alive' = alive \ {v}
    /\ IF v = "port" THEN UNCHANGED strays
       ELSE IF v = "added" /\ "pool" \notin alive THEN strays' = strays \cup {v}
       ELSE Touches(v)
    /\ UNCHANGED <<vars, poolVars, future>>

-----------------------------------------------------------------------------
(* The requests and their jobs                                              *)

\* Mutation: the request is sent, and not awaited.
AnswerDetached(j) ==
    /\ "handle" \in alive /\ Free("handle")
    /\ SpawnJob(j)
    /\ future' = [future EXCEPT ![j] = "returned"]
    /\ UNCHANGED <<vars, alive, strays>>

\* PjsuaCallHandle::answer
Answer(j) ==
    /\ "handle" \in alive /\ Free("handle")
    /\ SpawnJob(j)
    /\ future' = [future EXCEPT ![j] = "answer"]
    /\ UNCHANGED <<vars, alive, strays>>

\* PjsuaIncomingCall::reject drops the handle first.
Reject(j) ==
    /\ "handle" \in alive /\ Free("handle")
    /\ SpawnJob(j)
    /\ future' = [future EXCEPT ![j] = "reject"]
    /\ alive' = alive \ {"handle"}
    /\ Touches("handle")
    /\ UNCHANGED vars

\* The await ends, or the application drops the future before.  The job goes on.
Return(j) ==
    /\ Awaited(j)
    /\ \/ job[j] = "done" /\ future' = [future EXCEPT ![j] = "returned"]
       \/ future' = [future EXCEPT ![j] = "dropped"]
    /\ UNCHANGED <<vars, poolVars, alive, strays>>

JobStep(j) ==
    /\ RunJob(j) \/ \E w \in Workers : StartJob(j, w)
    /\ Touches(j)
    /\ UNCHANGED <<vars, alive, future>>

WorkerEnds(w) == EndWorker(w) /\ UNCHANGED <<vars, alive, future, strays>>

-----------------------------------------------------------------------------

SoftphoneNext ==
    /\ ~exited
    /\ \/ InstanceStep
       \/ MakePool \/ MakeAccount \/ TakeCall \/ MakePort \/ AddPort
       \/ \E v \in Values : DropValue(v)
       \/ \E j \in Jobs : Answer(j) \/ Reject(j) \/ Return(j) \/ JobStep(j)
       \/ \E w \in Workers : WorkerEnds(w)

SoftphoneSpec == SoftphoneInit /\ [][SoftphoneNext]_softVars

-----------------------------------------------------------------------------
(* Properties                                                               *)

\* pjsua is there for everything that calls it, whatever fails and whatever is
\* dropped when, with two exceptions: memory pools (and ports, whose memory is
\* theirs), which know of no instance, and a job whose future was dropped.
OnlyStraysMissPjsua ==
    strays \subseteq {"pool", "port"} \cup {j \in Jobs : future[j] = "dropped"}
=============================================================================
