--------------------------- MODULE SoftphoneProofs ---------------------------
(***************************************************************************)
(* Proofs about Softphone, for any threads, workers, jobs and faults: what *)
(* borrows the instance finds pjsua running, and jobs run on threads that  *)
(* were registered once.                                                   *)
(***************************************************************************)
EXTENDS Softphone, PjsuaInstanceProofs

\* The blocking pool by itself.
PoolInv ==
    /\ PoolTypeOK
    /\ \A j \in Jobs : on[j] \in Workers <=> job[j] = "registered"
    /\ \A j \in Jobs : job[j] = "registered" => on[j] \in registered
    /\ \A w \in Workers : registrations[w] = IF w \in registered THEN 1 ELSE 0

\* While something borrows the instance, or awaits, there is a started one; and a
\* pool while a port has its memory.
BorrowInv ==
    /\ (alive \cap {"account", "handle", "added"} # {} \/ \E j \in Jobs : Awaited(j))
          => HaveInstance
    /\ alive \cap {"port", "added"} # {} => "pool" \in alive

\* A request is one with its job until it returns.
FutureInv ==
    \A j \in Jobs :
        /\ future[j] = "none" <=> job[j] = "none"
        /\ future[j] = "returned" => job[j] = "done"

\* The inductive invariant of the composition: the instance's own, the pool's, and
\* the borrows that tie the two together.
SoftphoneInv ==
    /\ IInv
    /\ PoolInv
    /\ SoftphoneTypeOK
    /\ BorrowInv
    /\ FutureInv
    /\ OnlyStraysMissPjsua

-----------------------------------------------------------------------------
(* The pool                                                                 *)

\* A step of the pool keeps its invariant.
LEMMA PoolStep ==
    ASSUME PoolInv,
           \/ \E j \in Jobs : SpawnJob(j) \/ RunJob(j)
           \/ \E j \in Jobs, w \in Workers : StartJob(j, w)
           \/ \E w \in Workers : EndWorker(w)
           \/ UNCHANGED poolVars
    PROVE  PoolInv'
<1> USE DEF PoolInv, PoolTypeOK
<1>1. ASSUME NEW j \in Jobs, SpawnJob(j) PROVE PoolInv'
  BY <1>1 DEF SpawnJob
<1>2. ASSUME NEW j \in Jobs, RunJob(j) PROVE PoolInv'
  BY <1>2, PoolAssumption DEF RunJob
<1>3. ASSUME NEW j \in Jobs, NEW w \in Workers, StartJob(j, w) PROVE PoolInv'
  <2>1. CASE /\ job' = [job EXCEPT ![j] = "registered"]
             /\ on' = [on EXCEPT ![j] = w]
             /\ Register(w)
             /\ UNCHANGED exited
    <3>1. w \in registered' /\ registered \subseteq registered'
      BY <2>1 DEF Register
    <3>2. \A v \in Workers : registrations'[v] = IF v \in registered' THEN 1 ELSE 0
      BY <2>1 DEF Register
    <3>3. PoolTypeOK'
      BY <1>3, <2>1 DEF Register, StartJob
    <3> QED BY <1>3, <2>1, <3>1, <3>2, <3>3 DEF StartJob
  <2>2. CASE /\ exited' = TRUE
             /\ UNCHANGED <<job, on, registered, registrations>>
    BY <2>2
  <2> QED BY <1>3, <2>1, <2>2 DEF StartJob
<1>4. ASSUME NEW w \in Workers, EndWorker(w) PROVE PoolInv'
  BY <1>4 DEF EndWorker, IdleWorker
<1>5. CASE UNCHANGED poolVars
  BY <1>5 DEF poolVars
<1> QED BY <1>1, <1>2, <1>3, <1>4, <1>5

-----------------------------------------------------------------------------
(* The instance                                                             *)

\* Whoever has a started instance finds pjsua running.
LEMMA InstanceRuns == IInv /\ HaveInstance => Usable
BY DEF IInv, HandleOwnsPjsua, HaveInstance, Usable

\* A step of the instance is one that PjsuaInstance allows, and ends a started
\* instance only if nothing borrows it.
LEMMA InstanceStays ==
    ASSUME IInv, InstanceStep
    PROVE  /\ [Next]_vars
           /\ HaveInstance => HaveInstance' \/ Free("instance")
<1>1. PICK u \in Threads :
          \/ TryLock(u) \/ CheckFlag(u) \/ Create(u)
          \/ Initialize(u) \/ SetTransport(u) \/ Start(u)
          \/ Free("instance") /\ Drop(u)
          \/ DropField(u)
  BY DEF InstanceStep
<1>2. [Next]_vars
  BY <1>1 DEF Next
<1>3. ASSUME NEW t \in Threads, stage[t] = "started", ~Free("instance")
      PROVE  stage'[t] = "started"
  <2>1. stage \in [Threads -> Stages]
    BY DEF IInv, TypeOK
  <2>2. CASE TryLock(u) \/ CheckFlag(u) \/ Create(u)
    BY <1>3, <2>1, <2>2 DEF TryLock, CheckFlag, Create
  <2>3. CASE Initialize(u) \/ SetTransport(u) \/ Start(u)
    BY <1>3, <2>1, <2>3 DEF Initialize, SetTransport, Start, Drops
  <2>4. CASE DropField(u)
    BY <1>3, <2>1, <2>4 DEF DropField
  <2> QED BY <1>1, <1>3, <2>2, <2>3, <2>4
<1> QED BY <1>2, <1>3 DEF HaveInstance

-----------------------------------------------------------------------------
(* The composition                                                          *)

\* The invariant holds before the instance is made.
LEMMA SoftphoneInitInv == SoftphoneInit => SoftphoneInv
<1> SUFFICES ASSUME SoftphoneInit PROVE SoftphoneInv
  OBVIOUS
<1>1. IInv
  BY InitInv DEF SoftphoneInit
<1>2. PoolInv
  BY PoolAssumption DEF SoftphoneInit, PoolInit, PoolInv, PoolTypeOK
<1>3. SoftphoneTypeOK
  BY <1>1, <1>2 DEF SoftphoneInit, SoftphoneTypeOK, IInv, PoolInv
<1>4. BorrowInv /\ FutureInv /\ OnlyStraysMissPjsua
  BY DEF SoftphoneInit, PoolInit, BorrowInv, FutureInv, OnlyStraysMissPjsua, Awaited
<1> QED BY <1>1, <1>2, <1>3, <1>4 DEF SoftphoneInv

\* One step of the instance.
LEMMA InstanceStepInv == SoftphoneInv /\ InstanceStep => SoftphoneInv'
<1> SUFFICES ASSUME SoftphoneInv, InstanceStep PROVE SoftphoneInv'
  OBVIOUS
<1> USE DEF SoftphoneInv
<1>1. /\ IInv'
      /\ HaveInstance => HaveInstance' \/ Free("instance")
  BY InstanceStays, NextInv
<1>2. UNCHANGED poolVars /\ UNCHANGED <<alive, future, strays>>
  BY DEF InstanceStep
<1>3. PoolInv'
  BY <1>2, PoolStep
<1>4. SoftphoneTypeOK'
  BY <1>1, <1>2, <1>3 DEF SoftphoneTypeOK, IInv, PoolInv
<1>5. BorrowInv'
  BY <1>1, <1>2 DEF BorrowInv, Free, Borrows, Awaited
<1>6. FutureInv' /\ OnlyStraysMissPjsua'
  BY <1>2 DEF FutureInv, OnlyStraysMissPjsua, poolVars
<1> QED BY <1>1, <1>3, <1>4, <1>5, <1>6

\* Making and dropping values.
LEMMA ValueStepInv ==
    ASSUME SoftphoneInv,
           \/ MakePool \/ MakeAccount \/ TakeCall \/ MakePort \/ AddPort
           \/ \E v \in Values : DropValue(v)
    PROVE  SoftphoneInv'
<1> USE DEF SoftphoneInv
<1>1. UNCHANGED <<vars, poolVars, future>>
  BY DEF MakePool, MakeAccount, TakeCall, MakePort, Makes, AddPort, DropValue
<1>2. UNCHANGED vars /\ UNCHANGED poolVars /\ UNCHANGED future
  BY <1>1
<1>3. IInv' /\ PoolInv' /\ FutureInv'
  BY <1>2, NextInv, PoolStep DEF FutureInv, poolVars
<1>4. /\ HaveInstance' <=> HaveInstance
      /\ \A j \in Jobs : Awaited(j)' <=> Awaited(j)
  BY <1>2 DEF HaveInstance, vars, Awaited
<1>5. BorrowInv'
  <2>1. CASE MakePool
    BY <1>4, <2>1 DEF MakePool, Makes, BorrowInv
  <2>2. CASE MakeAccount
    BY <1>4, <2>2 DEF MakeAccount, Makes, BorrowInv
  <2>3. CASE TakeCall
    BY <1>4, <2>3 DEF TakeCall, Makes, BorrowInv
  <2>4. CASE MakePort
    BY <1>4, <2>4 DEF MakePort, Makes, BorrowInv
  <2>5. CASE AddPort
    BY <1>4, <2>5 DEF AddPort, BorrowInv
  <2>6. ASSUME NEW v \in Values, DropValue(v) PROVE BorrowInv'
    BY <1>4, <2>6 DEF DropValue, Free, Borrows, BorrowInv
  <2> QED BY <2>1, <2>2, <2>3, <2>4, <2>5, <2>6
<1>6. strays' \subseteq strays \cup {"pool", "port"}
  <2>1. CASE MakePool \/ MakePort
    BY <2>1 DEF MakePool, MakePort, Makes, Touches
  <2>2. CASE MakeAccount \/ TakeCall \/ AddPort
    BY <2>2, InstanceRuns DEF MakeAccount, TakeCall, AddPort, Makes, Touches
  <2>3. ASSUME NEW v \in Values, DropValue(v)
        PROVE  strays' \subseteq strays \cup {"pool", "port"}
    <3>1. CASE v \in {"pool", "port"}
      BY <2>3, <3>1 DEF DropValue, Touches
    <3>2. CASE v \in {"account", "handle", "added"}
      <4>1. HaveInstance /\ Usable
        BY <2>3, <3>2, InstanceRuns DEF DropValue, BorrowInv
      <4>2. v = "added" => "pool" \in alive
        BY <2>3 DEF DropValue, BorrowInv
      <4> QED BY <2>3, <3>2, <4>1, <4>2 DEF DropValue, Touches
    <3> QED BY <3>1, <3>2 DEF Values
  <2> QED BY <2>1, <2>2, <2>3
<1>7. OnlyStraysMissPjsua'
  BY <1>2, <1>6 DEF OnlyStraysMissPjsua
<1>8. alive' \subseteq Values
  BY DEF SoftphoneTypeOK, MakePool, MakeAccount, TakeCall, MakePort, Makes, AddPort,
         DropValue, Values
<1>9. SoftphoneTypeOK'
  BY <1>2, <1>3, <1>6, <1>8 DEF SoftphoneTypeOK, IInv, PoolInv, Values
<1> QED BY <1>3, <1>5, <1>7, <1>9

\* Requests, their jobs, and the ends of workers.
LEMMA RequestStepInv ==
    ASSUME SoftphoneInv,
           \/ \E j \in Jobs : Answer(j) \/ Reject(j) \/ Return(j) \/ JobStep(j)
           \/ \E w \in Workers : WorkerEnds(w)
    PROVE  SoftphoneInv'
<1> USE DEF SoftphoneInv
<1>1. UNCHANGED vars
  BY DEF Answer, Reject, Return, JobStep, WorkerEnds
<1>2. IInv' /\ (HaveInstance' <=> HaveInstance)
  BY <1>1, NextInv DEF HaveInstance, vars
<1>3. PoolInv'
  BY PoolStep DEF Answer, Reject, Return, JobStep, WorkerEnds
<1>4. future \in [Jobs -> {"none", "answer", "reject", "returned", "dropped"}]
      /\ job \in [Jobs -> {"none", "queued", "registered", "done"}]
  BY DEF SoftphoneTypeOK, PoolTypeOK
<1>5. ASSUME NEW j \in Jobs, Answer(j)
      PROVE  SoftphoneInv'
  <2>1. BorrowInv'
    BY <1>2, <1>4, <1>5 DEF Answer, BorrowInv, Awaited
  <2>2. FutureInv'
    BY <1>4, <1>5 DEF Answer, SpawnJob, FutureInv
  <2>3. OnlyStraysMissPjsua'
    BY <1>4, <1>5 DEF Answer, SpawnJob, FutureInv, OnlyStraysMissPjsua
  <2>4. SoftphoneTypeOK'
    BY <1>2, <1>3, <1>4, <1>5 DEF Answer, SoftphoneTypeOK, IInv, PoolInv
  <2> QED BY <1>2, <1>3, <2>1, <2>2, <2>3, <2>4
<1>6. ASSUME NEW j \in Jobs, Reject(j)
      PROVE  SoftphoneInv'
  <2>1. BorrowInv'
    BY <1>2, <1>4, <1>6 DEF Reject, BorrowInv, Awaited
  <2>2. FutureInv'
    BY <1>4, <1>6 DEF Reject, SpawnJob, FutureInv
  <2>3. strays' = strays
    BY <1>6, InstanceRuns DEF Reject, Touches, BorrowInv
  <2>4. OnlyStraysMissPjsua'
    BY <1>4, <1>6, <2>3 DEF Reject, SpawnJob, FutureInv, OnlyStraysMissPjsua
  <2>5. SoftphoneTypeOK'
    BY <1>2, <1>3, <1>4, <1>6, <2>3 DEF Reject, SoftphoneTypeOK, IInv, PoolInv
  <2> QED BY <1>2, <1>3, <2>1, <2>2, <2>4, <2>5
<1>7. ASSUME NEW j \in Jobs, Return(j)
      PROVE  SoftphoneInv'
  <2>1. BorrowInv'
    BY <1>2, <1>4, <1>7 DEF Return, BorrowInv, Awaited
  <2>2. FutureInv'
    BY <1>4, <1>7 DEF Return, poolVars, FutureInv, Awaited
  <2>3. OnlyStraysMissPjsua'
    BY <1>4, <1>7 DEF Return, Awaited, OnlyStraysMissPjsua
  <2>4. SoftphoneTypeOK'
    BY <1>2, <1>3, <1>4, <1>7 DEF Return, SoftphoneTypeOK, IInv, PoolInv
  <2> QED BY <1>2, <1>3, <2>1, <2>2, <2>3, <2>4
<1>8. ASSUME NEW j \in Jobs, JobStep(j)
      PROVE  SoftphoneInv'
  <2>1. BorrowInv'
    BY <1>2, <1>8 DEF JobStep, BorrowInv, Awaited
  <2>2. FutureInv' /\ job[j] \in {"queued", "registered"}
    BY <1>4, <1>8 DEF JobStep, RunJob, StartJob, FutureInv
  <2>3. strays' \subseteq strays \cup {j} /\ (Awaited(j) => strays' = strays)
    BY <1>8, InstanceRuns DEF JobStep, Touches, BorrowInv
  <2>4. future[j] # "dropped" => Awaited(j)
    BY <1>4, <2>2 DEF FutureInv, Awaited
  <2>5. OnlyStraysMissPjsua'
    BY <1>8, <2>3, <2>4 DEF JobStep, OnlyStraysMissPjsua
  <2>6. SoftphoneTypeOK'
    BY <1>2, <1>3, <1>8, <2>3 DEF JobStep, SoftphoneTypeOK, IInv, PoolInv
  <2> QED BY <1>2, <1>3, <2>1, <2>2, <2>5, <2>6
<1>9. ASSUME NEW w \in Workers, WorkerEnds(w)
      PROVE  SoftphoneInv'
  <2>1. BorrowInv' /\ FutureInv' /\ OnlyStraysMissPjsua'
    BY <1>2, <1>9 DEF WorkerEnds, EndWorker, BorrowInv, Awaited, FutureInv, OnlyStraysMissPjsua
  <2>2. SoftphoneTypeOK'
    BY <1>2, <1>3, <1>9 DEF WorkerEnds, SoftphoneTypeOK, IInv, PoolInv
  <2> QED BY <1>2, <1>3, <2>1, <2>2
<1> QED BY <1>5, <1>6, <1>7, <1>8, <1>9

\* Every step keeps the invariant.
LEMMA SoftphoneNextInv == SoftphoneInv /\ [SoftphoneNext]_softVars => SoftphoneInv'
<1> SUFFICES ASSUME SoftphoneInv, [SoftphoneNext]_softVars PROVE SoftphoneInv'
  OBVIOUS
<1>1. CASE SoftphoneNext
  BY <1>1, InstanceStepInv, ValueStepInv, RequestStepInv DEF SoftphoneNext
<1>2. CASE UNCHANGED softVars
  <2>1. UNCHANGED vars /\ UNCHANGED poolVars /\ UNCHANGED <<alive, future, strays>>
    BY <1>2 DEF softVars
  <2>2. IInv' /\ PoolInv'
    BY <2>1, NextInv, PoolStep DEF SoftphoneInv
  <2>3. BorrowInv' /\ FutureInv' /\ OnlyStraysMissPjsua'
    BY <2>1 DEF SoftphoneInv, BorrowInv, FutureInv, OnlyStraysMissPjsua, HaveInstance,
                Awaited, vars, poolVars
  <2>4. SoftphoneTypeOK'
    BY <2>1, <2>2 DEF SoftphoneInv, SoftphoneTypeOK, IInv, PoolInv
  <2> QED BY <2>2, <2>3, <2>4 DEF SoftphoneInv
<1> QED BY <1>1, <1>2

\* The invariant of the composition holds for any threads, workers and jobs.
THEOREM SoftphoneInvariant == SoftphoneSpec => []SoftphoneInv
BY SoftphoneInitInv, SoftphoneNextInv, PTL DEF SoftphoneSpec

\* Whatever borrows the instance finds pjsua running; only memory pools and jobs
\* whose future was dropped can miss it.
THEOREM OnlyStraysMiss == SoftphoneSpec => []OnlyStraysMissPjsua
<1>1. SoftphoneInv => OnlyStraysMissPjsua
  BY DEF SoftphoneInv
<1> QED BY <1>1, SoftphoneInvariant, PTL

\* Jobs call pjsua from registered threads, and no thread is registered twice.
THEOREM RegisteredOnce == SoftphoneSpec => []CallsFromRegisteredThreads
<1>1. SoftphoneInv => CallsFromRegisteredThreads
  BY DEF SoftphoneInv, PoolInv, PoolTypeOK, CallsFromRegisteredThreads
<1> QED BY <1>1, SoftphoneInvariant, PTL

-----------------------------------------------------------------------------
(* The parts of the composition keep what they promise by themselves.       *)

\* The pool by itself: whoever spawns jobs, and whatever they call.
PoolNext ==
    \/ \E j \in Jobs : SpawnJob(j) \/ RunJob(j)
    \/ \E j \in Jobs, w \in Workers : StartJob(j, w)
    \/ \E w \in Workers : EndWorker(w)

PoolSpec == PoolInit /\ [][PoolNext]_poolVars

\* A step of the composition is a step of the instance or leaves it alone, and a
\* step of the pool or leaves it alone.
LEMMA PartsStep ==
    ASSUME IInv, [SoftphoneNext]_softVars
    PROVE  [Next]_vars /\ [PoolNext]_poolVars
<1>1. CASE InstanceStep
  BY <1>1, InstanceStays DEF InstanceStep
<1>2. CASE \/ MakePool \/ MakeAccount \/ TakeCall \/ MakePort \/ AddPort
           \/ \E v \in Values : DropValue(v)
  BY <1>2 DEF MakePool, MakeAccount, TakeCall, MakePort, Makes, AddPort, DropValue
<1>3. CASE \/ \E j \in Jobs : Answer(j) \/ Reject(j) \/ Return(j) \/ JobStep(j)
           \/ \E w \in Workers : WorkerEnds(w)
  BY <1>3 DEF Answer, Reject, Return, JobStep, WorkerEnds, PoolNext
<1>4. CASE UNCHANGED softVars
  BY <1>4 DEF softVars
<1> QED BY <1>1, <1>2, <1>3, <1>4 DEF SoftphoneNext

\* The instance that the composition runs is PjsuaInstance: borrows only forbid
\* drops (pjsua_softphone_api.rs), so what holds of the instance holds of it here.
THEOREM SoftphoneImplementsInstance == SoftphoneSpec => Spec
<1>1. SoftphoneInit => Init
  BY DEF SoftphoneInit
<1>2. SoftphoneInv /\ [SoftphoneNext]_softVars => [Next]_vars
  BY PartsStep DEF SoftphoneInv
<1> QED BY <1>1, <1>2, SoftphoneInvariant, PTL DEF SoftphoneSpec, Spec

\* The pool that the composition runs is BlockingPool: what futures are dropped
\* and what is alive is nothing to it (tokio_utils.rs).
THEOREM SoftphoneImplementsPool == SoftphoneSpec => PoolSpec
<1>1. SoftphoneInit => PoolInit
  BY DEF SoftphoneInit
<1>2. SoftphoneInv /\ [SoftphoneNext]_softVars => [PoolNext]_poolVars
  BY PartsStep DEF SoftphoneInv
<1> QED BY <1>1, <1>2, SoftphoneInvariant, PTL DEF SoftphoneSpec, PoolSpec

\* pjsua has been started, and not yet destroyed, as long as an account, a handle or
\* an added port is alive or a request is awaited: not only whenever one of them
\* happens to call it (the lifetimes in pjsua_call.rs and pjsua_account_config.rs).
BorrowersKeepPjsua ==
    alive \cap {"account", "handle", "added"} # {} \/ (\E j \in Jobs : Awaited(j))
        => pjsua = "running"

\* What borrows the instance has it running, in any interleaving of any threads.
THEOREM PjsuaOutlivesBorrowers == SoftphoneSpec => []BorrowersKeepPjsua
<1>1. IInv /\ HaveInstance => pjsua = "running"
  BY DEF IInv, HandleOwnsPjsua, HaveInstance
<1>2. SoftphoneInv => BorrowersKeepPjsua
  BY <1>1 DEF SoftphoneInv, BorrowInv, BorrowersKeepPjsua
<1> QED BY <1>2, SoftphoneInvariant, PTL

\* The instance keeps its promise (InstancePromise) among the values and the jobs of
\* an application as it does alone: one owner, once, for good.
THEOREM SoftphoneKeepsPromise == SoftphoneSpec => KeepsPromise
BY SoftphoneImplementsInstance, InstanceKeepsPromise
=============================================================================
