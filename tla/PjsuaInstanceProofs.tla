------------------------- MODULE PjsuaInstanceProofs -------------------------
(***************************************************************************)
(* Proofs about PjsuaInstance, for any set of threads and any faults: one  *)
(* handle owns pjsua, and pjsua is created at most once.                   *)
(***************************************************************************)
EXTENDS PjsuaInstance, TLAPS

\* At most one field is the handle.
OneHandle(fields) ==
    \A i, j \in 1..Len(fields) : fields[i] = "handle" /\ fields[j] = "handle" => i = j

\* The value of a thread is the one its stage names, and holds one handle at most.
ValueInv ==
    \A t \in Threads :
        /\ stage[t] \in {"out", "locked", "creating", "refused"} => value[t] = <<>>
        /\ stage[t] = "uninit" => value[t] = Uninit
        /\ stage[t] = "init" => value[t] = Initialized
        /\ stage[t] = "configured" => value[t] = Configured
        /\ stage[t] = "started" => value[t] = Started
        /\ OneHandle(value[t])

\* The mutex is held by the thread inside get_instance, and only by that one.
GuardInv == \A t \in Threads : guard = t <=> stage[t] \in {"locked", "creating"}

\* pjsua_create is called once: the flag is set before, and the library has not
\* been touched by then.
CreatingInv ==
    /\ \A t \in Threads : stage[t] = "creating" => crated /\ pjsua = "null"
    /\ crated \/ pjsua = "null"
    /\ (\E t \in Threads : stage[t] = "refused") => guard # None \/ crated
    /\ \A t \in Threads : Holds(t) => pjsua \in {"created", "init", "running"}

\* The inductive invariant: what each thread holds, who holds the mutex, that the
\* flag precedes the creation, and that pjsua belongs to one handle.
IInv == TypeOK /\ ValueInv /\ GuardInv /\ CreatingInv /\ HandleOwnsPjsua

-----------------------------------------------------------------------------
(* The fields of a value                                                    *)

\* A value is in good shape: a sequence of fields with one handle at most.
LEMMA Shapes ==
    /\ \A s \in {Uninit, Initialized, Configured, Started,
                  InitParameters, TransportParameters} :
          s \in Seq(Fields) /\ Handles(s) /\ OneHandle(s)
    /\ <<>> \in Seq(Fields) /\ ~Handles(<<>>) /\ OneHandle(<<>>)
<1>1. Uninit \in Seq(Fields) /\ Handles(Uninit) /\ OneHandle(Uninit)
  BY DEF Uninit, Fields, Handles, OneHandle
<1>2. Initialized \in Seq(Fields) /\ Handles(Initialized) /\ OneHandle(Initialized)
  <2>1. Initialized \in Seq(Fields) /\ OneHandle(Initialized)
    BY DEF Initialized, Fields, OneHandle
  <2>2. 4 \in 1..Len(Initialized) /\ Initialized[4] = "handle"
    BY DEF Initialized
  <2> QED BY <2>1, <2>2 DEF Handles
<1>3. Configured \in Seq(Fields) /\ Handles(Configured) /\ OneHandle(Configured)
  <2>1. Configured \in Seq(Fields) /\ OneHandle(Configured)
    BY DEF Configured, Fields, OneHandle
  <2>2. 4 \in 1..Len(Configured) /\ Configured[4] = "handle"
    BY DEF Configured
  <2> QED BY <2>1, <2>2 DEF Handles
<1>4. Started \in Seq(Fields) /\ Handles(Started) /\ OneHandle(Started)
  <2>1. Started \in Seq(Fields) /\ OneHandle(Started)
    BY DEF Started, Fields, OneHandle
  <2>2. 4 \in 1..Len(Started) /\ Started[4] = "handle"
    BY DEF Started
  <2> QED BY <2>1, <2>2 DEF Handles
<1>5. InitParameters \in Seq(Fields) /\ Handles(InitParameters) /\ OneHandle(InitParameters)
  <2>1. InitParameters \in Seq(Fields) /\ OneHandle(InitParameters)
    BY DEF InitParameters, Fields, OneHandle
  <2>2. 4 \in 1..Len(InitParameters) /\ InitParameters[4] = "handle"
    BY DEF InitParameters
  <2> QED BY <2>1, <2>2 DEF Handles
<1>6. TransportParameters \in Seq(Fields) /\ Handles(TransportParameters) /\ OneHandle(TransportParameters)
  <2>1. TransportParameters \in Seq(Fields) /\ OneHandle(TransportParameters)
    BY DEF TransportParameters, Fields, OneHandle
  <2>2. 5 \in 1..Len(TransportParameters) /\ TransportParameters[5] = "handle"
    BY DEF TransportParameters
  <2> QED BY <2>1, <2>2 DEF Handles
<1>7. <<>> \in Seq(Fields) /\ ~Handles(<<>>) /\ OneHandle(<<>>)
  BY DEF Handles, OneHandle
<1> QED BY <1>1, <1>2, <1>3, <1>4, <1>5, <1>6, <1>7

\* What is left when the first field goes.
LEMMA TailShape ==
    ASSUME NEW s \in Seq(Fields), s # <<>>, OneHandle(s)
    PROVE  /\ Tail(s) \in Seq(Fields)
           /\ OneHandle(Tail(s))
           /\ Head(s) = "handle" => Handles(s) /\ ~Handles(Tail(s))
           /\ Head(s) # "handle" => (Handles(Tail(s)) <=> Handles(s))
<1>1. /\ Tail(s) \in Seq(Fields)
      /\ Len(s) \in Nat \ {0}
      /\ Len(Tail(s)) = Len(s) - 1
      /\ Head(s) = s[1]
      /\ \A i \in 1..Len(Tail(s)) : Tail(s)[i] = s[i + 1]
  OBVIOUS
<1>2. OneHandle(Tail(s))
  <2> SUFFICES ASSUME NEW i \in 1..Len(Tail(s)), NEW j \in 1..Len(Tail(s)),
                      Tail(s)[i] = "handle", Tail(s)[j] = "handle"
               PROVE  i = j
    BY DEF OneHandle
  <2>1. i + 1 \in 1..Len(s) /\ j + 1 \in 1..Len(s)
    BY <1>1
  <2>2. s[i + 1] = "handle" /\ s[j + 1] = "handle"
    BY <1>1
  <2>3. i + 1 = j + 1
    BY <2>1, <2>2 DEF OneHandle
  <2> QED BY <2>3, <1>1
<1>3. ASSUME Head(s) = "handle"
      PROVE  Handles(s) /\ ~Handles(Tail(s))
  <2>1. 1 \in 1..Len(s) /\ s[1] = "handle"
    BY <1>1, <1>3
  <2>2. ASSUME NEW i \in 1..Len(Tail(s)), Tail(s)[i] = "handle"
        PROVE  FALSE
    <3>1. i + 1 \in 1..Len(s) /\ s[i + 1] = "handle"
      BY <1>1, <2>2
    <3>2. i + 1 = 1
      BY <3>1, <2>1 DEF OneHandle
    <3> QED BY <3>2, <1>1
  <2> QED BY <2>1, <2>2 DEF Handles
<1>4. ASSUME Head(s) # "handle"
      PROVE  Handles(Tail(s)) <=> Handles(s)
  <2>1. ASSUME NEW i \in 1..Len(Tail(s)), Tail(s)[i] = "handle"
        PROVE  Handles(s)
    <3>1. i + 1 \in 1..Len(s) /\ s[i + 1] = "handle"
      BY <1>1, <2>1
    <3> QED BY <3>1 DEF Handles
  <2>2. ASSUME NEW i \in 1..Len(s), s[i] = "handle"
        PROVE  Handles(Tail(s))
    <3>1. i # 1
      BY <1>1, <1>4, <2>2
    <3>2. i - 1 \in 1..Len(Tail(s)) /\ (i - 1) + 1 = i
      BY <1>1, <3>1
    <3>3. Tail(s)[i - 1] = "handle"
      BY <1>1, <3>2, <2>2
    <3> QED BY <3>2, <3>3 DEF Handles
  <2> QED BY <2>1, <2>2 DEF Handles
<1> QED BY <1>1, <1>2, <1>3, <1>4

-----------------------------------------------------------------------------
(* The invariant                                                            *)

\* The invariant holds at first ...
LEMMA InitInv == Init => IInv
<1> SUFFICES ASSUME Init PROVE IInv
  OBVIOUS
<1>1. \A t \in Threads : stage[t] = "out" /\ value[t] = <<>> /\ ~Holds(t)
  BY Shapes DEF Init, Holds
<1>2. TypeOK
  BY Shapes DEF Init, TypeOK, Stages, PjsuaStates
<1>3. ValueInv
  BY <1>1, Shapes DEF ValueInv
<1>4. GuardInv
  BY <1>1, InstanceAssumption DEF Init, GuardInv
<1>5. CreatingInv
  BY <1>1 DEF Init, CreatingInv
<1>6. HandleOwnsPjsua
  BY <1>1 DEF Init, HandleOwnsPjsua
<1> QED BY <1>2, <1>3, <1>4, <1>5, <1>6 DEF IInv

\* A thread whose stage names a type holds the handle.
LEMMA TypedHolds ==
    ASSUME ValueInv, NEW t \in Threads,
           stage[t] \in {"uninit", "init", "configured", "started"}
    PROVE  Holds(t)
BY Shapes DEF ValueInv, Holds

\* ... and every step of every thread preserves it.
LEMMA NextInv == IInv /\ [Next]_vars => IInv'
<1> SUFFICES ASSUME IInv, [Next]_vars PROVE IInv'
  OBVIOUS
<1>u. CASE UNCHANGED vars
  BY <1>u DEF vars, IInv, TypeOK, ValueInv, GuardInv, CreatingInv, HandleOwnsPjsua, Holds
<1>1. ASSUME NEW t \in Threads, TryLock(t) PROVE IInv'
  <2>1. \A u \in Threads \ {t} : stage'[u] = stage[u] /\ value'[u] = value[u]
    BY <1>1 DEF TryLock, IInv, TypeOK
  <2>2. \A u \in Threads \ {t} : Holds(u)' <=> Holds(u)
    BY <2>1 DEF Holds
  <2>3. value'[t] = value[t] /\ (Holds(t)' <=> Holds(t))
    BY <1>1 DEF TryLock, Holds
  <2>5. \A u \in Threads \ {t} : stage[u] \in {"uninit", "init", "configured", "started"} => Holds(u)
    BY TypedHolds DEF IInv
  <2>a. TypeOK'
    BY <1>1, <2>1, <2>2, <2>3, <2>5, Shapes DEF TryLock, IInv, TypeOK, Stages, PjsuaStates
  <2>b. ValueInv'
    BY <1>1, <2>1, <2>2, <2>3, <2>5, Shapes DEF TryLock, IInv, TypeOK, ValueInv
  <2>c. GuardInv'
    BY <1>1, <2>1, <2>2, <2>3, <2>5, InstanceAssumption DEF TryLock, IInv, TypeOK, GuardInv
  <2>d. CreatingInv'
    BY <1>1, <2>1, <2>2, <2>3, <2>5 DEF TryLock, IInv, TypeOK, GuardInv, ValueInv, CreatingInv, HandleOwnsPjsua
  <2>e. HandleOwnsPjsua'
    BY <1>1, <2>1, <2>2, <2>3, <2>5 DEF TryLock, IInv, TypeOK, GuardInv, ValueInv, CreatingInv, HandleOwnsPjsua
  <2> QED BY <2>a, <2>b, <2>c, <2>d, <2>e DEF IInv
<1>2. ASSUME NEW t \in Threads, CheckFlag(t) PROVE IInv'
  <2>1. \A u \in Threads \ {t} : stage'[u] = stage[u] /\ value'[u] = value[u]
    BY <1>2 DEF CheckFlag, IInv, TypeOK
  <2>2. \A u \in Threads \ {t} : Holds(u)' <=> Holds(u)
    BY <2>1 DEF Holds
  <2>3. value'[t] = value[t] /\ (Holds(t)' <=> Holds(t))
    BY <1>2 DEF CheckFlag, Holds
  <2>5. \A u \in Threads \ {t} : stage[u] \in {"uninit", "init", "configured", "started"} => Holds(u)
    BY TypedHolds DEF IInv
  <2>a. TypeOK'
    BY <1>2, <2>1, <2>2, <2>3, <2>5, Shapes DEF CheckFlag, IInv, TypeOK, Stages, PjsuaStates
  <2>b. ValueInv'
    BY <1>2, <2>1, <2>2, <2>3, <2>5, Shapes DEF CheckFlag, IInv, TypeOK, ValueInv
  <2>c. GuardInv'
    BY <1>2, <2>1, <2>2, <2>3, <2>5, InstanceAssumption DEF CheckFlag, IInv, TypeOK, GuardInv
  <2>d. CreatingInv'
    BY <1>2, <2>1, <2>2, <2>3, <2>5 DEF CheckFlag, IInv, TypeOK, GuardInv, ValueInv, CreatingInv, HandleOwnsPjsua
  <2>e. HandleOwnsPjsua'
    BY <1>2, <2>1, <2>2, <2>3, <2>5 DEF CheckFlag, IInv, TypeOK, GuardInv, ValueInv, CreatingInv, HandleOwnsPjsua
  <2> QED BY <2>a, <2>b, <2>c, <2>d, <2>e DEF IInv
<1>3. ASSUME NEW t \in Threads, Create(t) PROVE IInv'
  <2>1. \A u \in Threads \ {t} : stage'[u] = stage[u] /\ value'[u] = value[u]
    BY <1>3 DEF Create, IInv, TypeOK
  <2>2. \A u \in Threads \ {t} : Holds(u)' <=> Holds(u)
    BY <2>1 DEF Holds
  <2>3. \/ value'[t] = Uninit /\ Holds(t)' /\ pjsua' = "created" /\ stage'[t] = "uninit"
        \/ value'[t] = value[t] /\ ~Holds(t)' /\ pjsua' = pjsua /\ stage'[t] = "out"
    BY <1>3, Shapes DEF Create, Holds, IInv, TypeOK, ValueInv
  <2>5. \A u \in Threads \ {t} : stage[u] \in {"uninit", "init", "configured", "started"} => Holds(u)
    BY TypedHolds DEF IInv
  <2>a. TypeOK'
    BY <1>3, <2>1, <2>2, <2>3, <2>5, Shapes DEF Create, IInv, TypeOK, Stages, PjsuaStates
  <2>b. ValueInv'
    BY <1>3, <2>1, <2>2, <2>3, <2>5, Shapes DEF Create, IInv, TypeOK, ValueInv
  <2>c. GuardInv'
    BY <1>3, <2>1, <2>2, <2>3, <2>5, InstanceAssumption DEF Create, IInv, TypeOK, GuardInv
  <2>d. CreatingInv'
    BY <1>3, <2>1, <2>2, <2>3, <2>5 DEF Create, IInv, TypeOK, GuardInv, ValueInv, CreatingInv, HandleOwnsPjsua
  <2>e. HandleOwnsPjsua'
    BY <1>3, <2>1, <2>2, <2>3, <2>5 DEF Create, IInv, TypeOK, GuardInv, ValueInv, CreatingInv, HandleOwnsPjsua
  <2> QED BY <2>a, <2>b, <2>c, <2>d, <2>e DEF IInv
<1>4. ASSUME NEW t \in Threads, Initialize(t) PROVE IInv'
  <2>1. \A u \in Threads \ {t} : stage'[u] = stage[u] /\ value'[u] = value[u]
    BY <1>4 DEF Initialize, Drops, IInv, TypeOK
  <2>2. \A u \in Threads \ {t} : Holds(u)' <=> Holds(u)
    BY <2>1 DEF Holds
  <2>3. Holds(t) /\ Holds(t)'
    BY <1>4, Shapes, TypedHolds DEF Initialize, Drops, Holds, IInv, TypeOK
  <2>5. \A u \in Threads \ {t} : stage[u] \in {"uninit", "init", "configured", "started"} => Holds(u)
    BY TypedHolds DEF IInv
  <2>a. TypeOK'
    BY <1>4, <2>1, <2>2, <2>3, <2>5, Shapes DEF Initialize, Drops, IInv, TypeOK, Stages, PjsuaStates
  <2>b. ValueInv'
    BY <1>4, <2>1, <2>2, <2>3, <2>5, Shapes DEF Initialize, Drops, IInv, TypeOK, ValueInv
  <2>c. GuardInv'
    BY <1>4, <2>1, <2>2, <2>3, <2>5, InstanceAssumption DEF Initialize, Drops, IInv, TypeOK, GuardInv
  <2>d. CreatingInv'
    BY <1>4, <2>1, <2>2, <2>3, <2>5 DEF Initialize, Drops, IInv, TypeOK, GuardInv, ValueInv, CreatingInv, HandleOwnsPjsua
  <2>e. HandleOwnsPjsua'
    BY <1>4, <2>1, <2>2, <2>3, <2>5 DEF Initialize, Drops, IInv, TypeOK, GuardInv, ValueInv, CreatingInv, HandleOwnsPjsua
  <2> QED BY <2>a, <2>b, <2>c, <2>d, <2>e DEF IInv
<1>5. ASSUME NEW t \in Threads, SetTransport(t) PROVE IInv'
  <2>1. \A u \in Threads \ {t} : stage'[u] = stage[u] /\ value'[u] = value[u]
    BY <1>5 DEF SetTransport, Drops, IInv, TypeOK
  <2>2. \A u \in Threads \ {t} : Holds(u)' <=> Holds(u)
    BY <2>1 DEF Holds
  <2>3. Holds(t) /\ Holds(t)'
    BY <1>5, Shapes, TypedHolds DEF SetTransport, Drops, Holds, IInv, TypeOK
  <2>5. \A u \in Threads \ {t} : stage[u] \in {"uninit", "init", "configured", "started"} => Holds(u)
    BY TypedHolds DEF IInv
  <2>a. TypeOK'
    BY <1>5, <2>1, <2>2, <2>3, <2>5, Shapes DEF SetTransport, Drops, IInv, TypeOK, Stages, PjsuaStates
  <2>b. ValueInv'
    BY <1>5, <2>1, <2>2, <2>3, <2>5, Shapes DEF SetTransport, Drops, IInv, TypeOK, ValueInv
  <2>c. GuardInv'
    BY <1>5, <2>1, <2>2, <2>3, <2>5, InstanceAssumption DEF SetTransport, Drops, IInv, TypeOK, GuardInv
  <2>d. CreatingInv'
    BY <1>5, <2>1, <2>2, <2>3, <2>5 DEF SetTransport, Drops, IInv, TypeOK, GuardInv, ValueInv, CreatingInv, HandleOwnsPjsua
  <2>e. HandleOwnsPjsua'
    BY <1>5, <2>1, <2>2, <2>3, <2>5 DEF SetTransport, Drops, IInv, TypeOK, GuardInv, ValueInv, CreatingInv, HandleOwnsPjsua
  <2> QED BY <2>a, <2>b, <2>c, <2>d, <2>e DEF IInv
<1>6. ASSUME NEW t \in Threads, Start(t) PROVE IInv'
  <2>1. \A u \in Threads \ {t} : stage'[u] = stage[u] /\ value'[u] = value[u]
    BY <1>6 DEF Start, Drops, IInv, TypeOK
  <2>2. \A u \in Threads \ {t} : Holds(u)' <=> Holds(u)
    BY <2>1 DEF Holds
  <2>3. Holds(t) /\ Holds(t)'
    BY <1>6, Shapes, TypedHolds DEF Start, Drops, Holds, IInv, TypeOK
  <2>5. \A u \in Threads \ {t} : stage[u] \in {"uninit", "init", "configured", "started"} => Holds(u)
    BY TypedHolds DEF IInv
  <2>a. TypeOK'
    BY <1>6, <2>1, <2>2, <2>3, <2>5, Shapes DEF Start, Drops, IInv, TypeOK, Stages, PjsuaStates
  <2>b. ValueInv'
    BY <1>6, <2>1, <2>2, <2>3, <2>5, Shapes DEF Start, Drops, IInv, TypeOK, ValueInv
  <2>c. GuardInv'
    BY <1>6, <2>1, <2>2, <2>3, <2>5, InstanceAssumption DEF Start, Drops, IInv, TypeOK, GuardInv
  <2>d. CreatingInv'
    BY <1>6, <2>1, <2>2, <2>3, <2>5 DEF Start, Drops, IInv, TypeOK, GuardInv, ValueInv, CreatingInv, HandleOwnsPjsua
  <2>e. HandleOwnsPjsua'
    BY <1>6, <2>1, <2>2, <2>3, <2>5 DEF Start, Drops, IInv, TypeOK, GuardInv, ValueInv, CreatingInv, HandleOwnsPjsua
  <2> QED BY <2>a, <2>b, <2>c, <2>d, <2>e DEF IInv
<1>7. ASSUME NEW t \in Threads, Drop(t) PROVE IInv'
  <2>1. \A u \in Threads \ {t} : stage'[u] = stage[u] /\ value'[u] = value[u]
    BY <1>7 DEF Drop, Drops, IInv, TypeOK
  <2>2. \A u \in Threads \ {t} : Holds(u)' <=> Holds(u)
    BY <2>1 DEF Holds
  <2>3. value'[t] = value[t] /\ (Holds(t)' <=> Holds(t)) /\ Holds(t)
    BY <1>7, TypedHolds DEF Drop, Drops, Holds, IInv, TypeOK
  <2>5. \A u \in Threads \ {t} : stage[u] \in {"uninit", "init", "configured", "started"} => Holds(u)
    BY TypedHolds DEF IInv
  <2>a. TypeOK'
    BY <1>7, <2>1, <2>2, <2>3, <2>5, Shapes DEF Drop, Drops, IInv, TypeOK, Stages, PjsuaStates
  <2>b. ValueInv'
    BY <1>7, <2>1, <2>2, <2>3, <2>5, Shapes DEF Drop, Drops, IInv, TypeOK, ValueInv
  <2>c. GuardInv'
    BY <1>7, <2>1, <2>2, <2>3, <2>5, InstanceAssumption DEF Drop, Drops, IInv, TypeOK, GuardInv
  <2>d. CreatingInv'
    BY <1>7, <2>1, <2>2, <2>3, <2>5 DEF Drop, Drops, IInv, TypeOK, GuardInv, ValueInv, CreatingInv, HandleOwnsPjsua
  <2>e. HandleOwnsPjsua'
    BY <1>7, <2>1, <2>2, <2>3, <2>5 DEF Drop, Drops, IInv, TypeOK, GuardInv, ValueInv, CreatingInv, HandleOwnsPjsua
  <2> QED BY <2>a, <2>b, <2>c, <2>d, <2>e DEF IInv
<1>8. ASSUME NEW t \in Threads, DropField(t) PROVE IInv'
  <2>1. \A u \in Threads \ {t} : stage'[u] = stage[u] /\ value'[u] = value[u]
    BY <1>8 DEF DropField, IInv, TypeOK
  <2>2. \A u \in Threads \ {t} : Holds(u)' <=> Holds(u)
    BY <2>1 DEF Holds
  <2>3. value[t] # <<>> =>
          /\ value'[t] = Tail(value[t]) /\ Tail(value[t]) \in Seq(Fields)
          /\ OneHandle(value'[t])
          /\ Head(value[t]) = "handle" => Holds(t) /\ ~Holds(t)'
          /\ Head(value[t]) # "handle" => (Holds(t)' <=> Holds(t))
    BY ZenonT(40), <1>8, TailShape DEF DropField, IInv, TypeOK, ValueInv, Holds
  <2>4. value[t] = <<>> => (Holds(t)' <=> Holds(t))
    BY <1>8 DEF DropField, Holds
  <2>5. \A u \in Threads \ {t} : stage[u] \in {"uninit", "init", "configured", "started"} => Holds(u)
    BY TypedHolds DEF IInv
  <2>a. TypeOK'
    BY <1>8, <2>1, <2>2, <2>3, <2>4, <2>5, Shapes DEF DropField, IInv, TypeOK, Stages, PjsuaStates
  <2>b. ValueInv'
    BY <1>8, <2>1, <2>2, <2>3, <2>4, <2>5, Shapes DEF DropField, IInv, TypeOK, ValueInv
  <2>c. GuardInv'
    BY <1>8, <2>1, <2>2, <2>3, <2>4, <2>5, InstanceAssumption DEF DropField, IInv, TypeOK, GuardInv
  <2>d. CreatingInv'
    BY <1>8, <2>1, <2>2, <2>3, <2>4, <2>5 DEF DropField, IInv, TypeOK, GuardInv, ValueInv, CreatingInv, HandleOwnsPjsua
  <2>e. HandleOwnsPjsua'
    BY <1>8, <2>1, <2>2, <2>3, <2>4, <2>5 DEF DropField, IInv, TypeOK, GuardInv, ValueInv, CreatingInv, HandleOwnsPjsua
  <2> QED BY <2>a, <2>b, <2>c, <2>d, <2>e DEF IInv
<1> QED BY <1>u, <1>1, <1>2, <1>3, <1>4, <1>5, <1>6, <1>7, <1>8 DEF Next

-----------------------------------------------------------------------------
(* Theorems                                                                 *)

\* The inductive invariant always holds.
THEOREM InvariantHolds == Spec => []IInv
<1>1. Init => IInv
  BY InitInv
<1>2. IInv /\ [Next]_vars => IInv'
  BY NextInv
<1> QED BY <1>1, <1>2, PTL DEF Spec

\* One thread at a time has a handle, pjsua is alive exactly while one has, and
\* the type of its value tells the state of the library.
THEOREM OneHandleOwnsPjsua == Spec => []HandleOwnsPjsua
BY InvariantHolds, PTL DEF IInv

\* Whoever is refused while nobody is inside get_instance is refused because
\* pjsua_create has been called.
THEOREM RefusalsHaveAReason == Spec => []RefusedForAReason
<1>1. IInv => RefusedForAReason
  BY DEF IInv, CreatingInv, RefusedForAReason
<1> QED BY <1>1, InvariantHolds, PTL

\* Once destroyed, pjsua is never created again.
THEOREM NeverCreatedAgain == Spec => DestroyedForGood
<1>1. IInv /\ [Next]_vars => [pjsua = "destroyed" => pjsua' = "destroyed"]_vars
  <2> SUFFICES ASSUME IInv, Next, pjsua = "destroyed"
               PROVE  pjsua' = "destroyed"
    BY DEF vars
  <2>1. PICK t \in Threads :
          \/ TryLock(t) \/ CheckFlag(t) \/ Create(t)
          \/ Initialize(t) \/ SetTransport(t) \/ Start(t)
          \/ Drop(t) \/ DropField(t)
    BY DEF Next
  <2>2. ~Create(t) /\ ~Initialize(t) /\ ~Start(t)
    BY DEF Create, Initialize, Start, IInv, CreatingInv, HandleOwnsPjsua
  <2> QED BY <2>1, <2>2 DEF TryLock, CheckFlag, SetTransport, Drop, Drops, DropField
<1> QED BY <1>1, InvariantHolds, PTL DEF Spec, DestroyedForGood

-----------------------------------------------------------------------------
(* Refinement: the mutex, the flag and the fields come to one owner, once.  *)

\* Who holds the handle after each kind of step.
LEMMA OwnersStep ==
    ASSUME IInv, NEW t \in Threads
    PROVE  /\ TryLock(t) \/ CheckFlag(t) \/ Drop(t) =>
                \A u \in Threads : Holds(u)' <=> Holds(u)
           /\ Initialize(t) \/ SetTransport(t) \/ Start(t) =>
                Holds(t) /\ \A u \in Threads : Holds(u)' <=> Holds(u)
           /\ Create(t) =>
                /\ pjsua' # pjsua => \A u \in Threads : Holds(u)' <=> u = t
                /\ pjsua' = pjsua => \A u \in Threads : Holds(u)' <=> Holds(u)
           /\ DropField(t) =>
                \/ /\ Holds(t) /\ pjsua' = "destroyed"
                   /\ \A u \in Threads : Holds(u)' <=> Holds(u) /\ u # t
                \/ /\ pjsua' = pjsua
                   /\ \A u \in Threads : Holds(u)' <=> Holds(u)
<1>1. value \in [Threads -> Seq(Fields)] /\ stage \in [Threads -> Stages]
  BY DEF IInv, TypeOK
<1>2. ASSUME TryLock(t) \/ CheckFlag(t) \/ Drop(t)
      PROVE  value' = value
  BY <1>1, <1>2 DEF TryLock, CheckFlag, Drop, Drops
<1>3. ASSUME Initialize(t) \/ SetTransport(t) \/ Start(t)
      PROVE  Holds(t) /\ \A u \in Threads : Holds(u)' <=> Holds(u)
  <2>1. Holds(t)
    BY <1>3, TypedHolds DEF Initialize, SetTransport, Start, IInv
  <2>2. PICK s \in {Initialized, Configured, Started, InitParameters, TransportParameters} :
            value' = [value EXCEPT ![t] = s]
    BY <1>3 DEF Initialize, SetTransport, Start, Drops
  <2>3. Holds(t)'
    BY <1>1, <2>2, Shapes DEF Holds
  <2> QED BY <1>1, <2>1, <2>2, <2>3 DEF Holds
<1>4. ASSUME Create(t)
      PROVE  /\ pjsua' # pjsua => \A u \in Threads : Holds(u)' <=> u = t
             /\ pjsua' = pjsua => \A u \in Threads : Holds(u)' <=> Holds(u)
  <2>1. pjsua = "null" /\ \A u \in Threads : ~Holds(u)
    BY <1>4 DEF Create, IInv, CreatingInv
  <2>2. CASE pjsua' = "created" /\ value' = [value EXCEPT ![t] = Uninit]
    BY <1>1, <2>1, <2>2, Shapes DEF Holds
  <2>3. CASE UNCHANGED <<pjsua, value>>
    BY <2>3 DEF Holds
  <2> QED BY <1>4, <2>2, <2>3 DEF Create
<1>5. ASSUME DropField(t)
      PROVE  \/ /\ Holds(t) /\ pjsua' = "destroyed"
                /\ \A u \in Threads : Holds(u)' <=> Holds(u) /\ u # t
             \/ /\ pjsua' = pjsua
                /\ \A u \in Threads : Holds(u)' <=> Holds(u)
  <2>1. CASE UNCHANGED <<pjsua, value>>
    BY <2>1 DEF Holds
  <2>2. CASE /\ value[t] # <<>>
             /\ value' = [value EXCEPT ![t] = Tail(@)]
             /\ pjsua' = IF Head(value[t]) = "handle" THEN "destroyed" ELSE pjsua
    <3>1. /\ Head(value[t]) = "handle" => Holds(t) /\ ~Handles(Tail(value[t]))
          /\ Head(value[t]) # "handle" => (Handles(Tail(value[t])) <=> Holds(t))
      BY <1>1, <2>2, TailShape DEF IInv, ValueInv, Holds
    <3>2. /\ value'[t] = Tail(value[t])
          /\ \A u \in Threads \ {t} : value'[u] = value[u]
      BY <1>1, <2>2
    <3>3. /\ Holds(t)' <=> Handles(Tail(value[t]))
          /\ \A u \in Threads \ {t} : Holds(u)' <=> Holds(u)
      BY <3>2 DEF Holds
    <3> QED BY <2>2, <3>1, <3>3
  <2> QED BY <1>5, <2>1, <2>2 DEF DropField
<1> QED BY <1>2, <1>3, <1>4, <1>5 DEF Holds

\* The promise fails for good exactly when pjsua_create does.
LEMMA SpoiltStep ==
    ASSUME IInv, NEW t \in Threads
    PROVE  /\ Create(t) => /\ pjsua = "null" /\ ~Spoilt
                           /\ \/ pjsua' = "created" /\ ~Spoilt'
                              \/ pjsua' = "null" /\ Spoilt'
           /\ TryLock(t) \/ CheckFlag(t) => pjsua' = pjsua /\ (Spoilt' <=> Spoilt)
           /\ \/ Initialize(t) \/ SetTransport(t) \/ Start(t) \/ Drop(t) \/ DropField(t)
              => /\ pjsua = "null" => pjsua' = "null" /\ (Spoilt' <=> Spoilt)
                 /\ pjsua # "null" => ~Spoilt /\ ~Spoilt' /\ pjsua' # "null"
<1>1. stage \in [Threads -> Stages] /\ guard \in Threads \cup {None}
  BY DEF IInv, TypeOK
<1>2. ASSUME Create(t)
      PROVE  /\ pjsua = "null" /\ crated /\ ~Spoilt
             /\ \/ pjsua' = "created" /\ ~Spoilt'
                \/ pjsua' = "null" /\ Spoilt'
  <2>1. pjsua = "null" /\ crated /\ crated' /\ stage[t] = "creating"
    BY <1>2 DEF Create, IInv, CreatingInv
  <2>2. \A u \in Threads \ {t} : stage[u] # "creating"
    BY <2>1, InstanceAssumption DEF IInv, GuardInv
  <2>3. CASE pjsua' = "created"
    BY <2>1, <2>3 DEF Spoilt
  <2>4. CASE pjsua' = pjsua /\ stage' = [stage EXCEPT ![t] = "out"]
    BY <1>1, <2>1, <2>2, <2>4 DEF Spoilt
  <2> QED BY <1>2, <2>1, <2>3, <2>4 DEF Create, Spoilt
<1>3. ASSUME TryLock(t) PROVE pjsua' = pjsua /\ (Spoilt' <=> Spoilt)
  BY <1>1, <1>3 DEF TryLock, Spoilt
<1>4. ASSUME CheckFlag(t) PROVE pjsua' = pjsua /\ (Spoilt' <=> Spoilt)
  BY <1>1, <1>4 DEF CheckFlag, Spoilt
<1>5. ASSUME Initialize(t) \/ SetTransport(t) \/ Start(t) \/ Drop(t) \/ DropField(t)
      PROVE  /\ pjsua = "null" => pjsua' = "null" /\ (Spoilt' <=> Spoilt)
             /\ pjsua # "null" => ~Spoilt /\ ~Spoilt' /\ pjsua' # "null"
  <2>1. /\ crated' = crated
        /\ \A u \in Threads : stage'[u] = "creating" <=> stage[u] = "creating"
    BY <1>1, <1>5 DEF Initialize, SetTransport, Start, Drop, Drops, DropField
  <2>2. pjsua' \in {"init", "running", "destroyed", pjsua}
    BY <1>5 DEF Initialize, SetTransport, Start, Drop, Drops, DropField
  <2>3. pjsua' # pjsua => pjsua # "null"
    BY <1>5, OwnersStep
       DEF SetTransport, Drop, Drops, IInv, CreatingInv
  <2> QED BY <2>1, <2>2, <2>3 DEF Spoilt
<1> QED BY <1>2, <1>3, <1>4, <1>5

\* Every step of every thread is a step of the promise, or none.
LEMMA PromiseStep ==
    ASSUME IInv, [Next]_vars
    PROVE  [Promised!Next]_(Promised!vars)
<1> DEFINE Owners == {u \in Threads : Holds(u)}
           Library == IF Spoilt THEN "spoilt" ELSE IF pjsua = "null" THEN "none" ELSE pjsua
<1> SUFFICES \/ Promised!Next
             \/ Owners' = Owners /\ Library' = Library
  BY DEF Promised!vars
<1>1. CASE UNCHANGED vars
  BY <1>1 DEF vars, Holds, Spoilt
<1>2. ASSUME NEW t \in Threads, TryLock(t) \/ CheckFlag(t)
      PROVE  Owners' = Owners /\ Library' = Library
  <2>1. \A u \in Threads : Holds(u)' <=> Holds(u)
    BY <1>2, OwnersStep
  <2>2. pjsua' = pjsua /\ (Spoilt' <=> Spoilt)
    BY <1>2, SpoiltStep
  <2> QED BY <2>1, <2>2
<1>3. ASSUME NEW t \in Threads, Create(t)
      PROVE  Promised!Next
  <2>1. Library = "none"
    BY <1>3, SpoiltStep
  <2>2. CASE pjsua' = "created" /\ ~Spoilt'
    <3>1. \A u \in Threads : Holds(u)' <=> u = t
      BY <1>3, <2>2, SpoiltStep, OwnersStep
    <3>2. Owners' = {t} /\ Library' = "created"
      BY <2>2, <3>1
    <3> QED BY <2>1, <3>2 DEF Promised!Next, Promised!Obtain
  <2>3. CASE pjsua' = "null" /\ Spoilt'
    <3>1. \A u \in Threads : Holds(u)' <=> Holds(u)
      BY <1>3, <2>3, SpoiltStep, OwnersStep
    <3>2. Owners' = Owners /\ Library' = "spoilt"
      BY <2>3, <3>1
    <3> QED BY <2>1, <3>2 DEF Promised!Next, Promised!Spoil
  <2> QED BY <1>3, <2>2, <2>3, SpoiltStep
<1>4. ASSUME NEW t \in Threads,
             Initialize(t) \/ SetTransport(t) \/ Start(t) \/ Drop(t)
      PROVE  Promised!Next \/ (Owners' = Owners /\ Library' = Library)
  <2>1. Owners' = Owners
    <3>1. \A u \in Threads : Holds(u)' <=> Holds(u)
      BY <1>4, OwnersStep
    <3> QED BY <3>1
  <2>2. CASE pjsua' = pjsua
    BY <1>4, <2>1, <2>2, SpoiltStep
  <2>3. CASE pjsua' # pjsua
    <3>1. t \in Owners
      BY <1>4, <2>3, OwnersStep DEF Drop, Drops
    <3>2. <<pjsua, pjsua'>> \in {<<"created", "init">>, <<"init", "running">>}
      BY <1>4, <2>3 DEF Initialize, SetTransport, Start, Drop, Drops, IInv, HandleOwnsPjsua
    <3>3. Library = pjsua /\ Library' = pjsua'
      BY <1>4, <3>2, SpoiltStep
    <3> QED BY <2>1, <3>1, <3>2, <3>3 DEF Promised!Next, Promised!Advance
  <2> QED BY <2>2, <2>3
<1>5. ASSUME NEW t \in Threads, DropField(t)
      PROVE  Promised!Next \/ (Owners' = Owners /\ Library' = Library)
  <2>1. CASE pjsua' = pjsua /\ \A u \in Threads : Holds(u)' <=> Holds(u)
    BY <1>5, <2>1, SpoiltStep
  <2>2. CASE /\ Holds(t) /\ pjsua' = "destroyed"
             /\ \A u \in Threads : Holds(u)' <=> Holds(u) /\ u # t
    <3>1. t \in Owners /\ Owners' = Owners \ {t}
      BY <2>2
    <3>2. Library' = "destroyed"
      BY <1>5, <2>2, SpoiltStep
    <3> QED BY <3>1, <3>2 DEF Promised!Next, Promised!Release
  <2> QED BY <1>5, <2>1, <2>2, OwnersStep
<1> QED BY <1>1, <1>2, <1>3, <1>4, <1>5 DEF Next

\* PjsuaInstance implements InstancePromise, for any threads and any faults.
THEOREM InstanceKeepsPromise == Spec => KeepsPromise
<1>1. Init => Promised!Init
  BY Shapes DEF Init, Holds, Spoilt, Promised!Init
<1>2. IInv /\ [Next]_vars => [Promised!Next]_(Promised!vars)
  BY PromiseStep
<1> QED BY <1>1, <1>2, InvariantHolds, PTL DEF Spec, KeepsPromise, Promised!Spec
=============================================================================
