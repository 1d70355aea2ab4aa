------------------------ MODULE PjsuaCallQueueProofs ------------------------
(***************************************************************************)
(* Proofs about what waits in PjsuaCall.  A queue of incoming calls that   *)
(* overflows holds fewer live calls than pjsua's table has entries.  A     *)
(* handle that waits for a state of its call that has passed always has    *)
(* the report of it to read, or is about to.                               *)
(***************************************************************************)
EXTENDS PjsuaCallLifeProofs, FiniteSetTheorems

-----------------------------------------------------------------------------
(* The queue of an account                                                  *)

\* The places of an account's queue whose calls have not ended.
LivePlaces(a) == {i \in 1..Len(queue[a]) : inv[queue[a][i]] # "Disconnected"}

\* The queued calls of an account that have not ended are in entries of their own.
LEMMA QueuedCallsTakeEntries ==
  ASSUME IInv, IsFiniteSet(Slots), NEW a \in Accounts, NEW s \in Slots, occ[s] = None
  PROVE  Cardinality(LivePlaces(a)) < Cardinality(Slots)
<1> DEFINE live == LivePlaces(a)
           entry == [i \in live |-> slotOf[queue[a][i]]]
<1>1. /\ queue[a] \in Seq(Calls) /\ None \notin Calls
      /\ TableInv /\ BegunInv
  BY CallAssumption DEF IInv, TypeOK
<1>2. /\ Len(queue[a]) \in Nat /\ live \subseteq 1..Len(queue[a])
      /\ \A i \in live : queue[a][i] \in Calls /\ inv[queue[a][i]] # "Disconnected"
  BY <1>1 DEF LivePlaces
<1>3. \A i \in live : Active(queue[a][i])
  BY <1>1, <1>2 DEF Active, TableInv, BegunInv, SessionStates
<1>4. \A i \in live : entry[i] \in Slots /\ occ[entry[i]] = queue[a][i]
  BY <1>1, <1>2, <1>3 DEF TableInv, BegunInv
<1>5. \A i \in live : entry[i] \in Slots \ {s}
  BY <1>1, <1>2, <1>4
<1>6. \A i, j \in live : entry[i] = entry[j] => i = j
  <2>1. \A i, j \in live : queue[a][i] = queue[a][j] => i = j
    BY <1>1, <1>2 DEF BegunInv
  <2> HIDE DEF entry
  <2> QED
    BY <1>4, <2>1
<1>7. entry \in Injection(live, Slots \ {s})
  BY <1>5, <1>6 DEF Injection, IsInjective
<1>8. /\ IsFiniteSet(Slots \ {s})
      /\ Cardinality(Slots \ {s}) = Cardinality(Slots) - 1
      /\ Cardinality(Slots) \in Nat
  BY FS_RemoveElement, FS_CardinalityType
<1>9. IsFiniteSet(live) /\ Cardinality(live) \in Nat
  <2>1. IsFiniteSet(1..Len(queue[a]))
    BY <1>2, FS_Interval
  <2>2. IsFiniteSet(live)
    BY <1>2, <2>1, FS_Subset
  <2> QED
    BY <2>2, FS_CardinalityType
<1>10. Cardinality(live) <= Cardinality(Slots \ {s})
  BY <1>7, <1>8, FS_Injection
<1> QED
  BY <1>8, <1>9, <1>10

\* What the status may become in a step other than the arrival of a call.
LEMMA FullOnlyOnArrival ==
  ASSUME Next, status' = "incoming_full", status # "incoming_full"
  PROVE  \E c \in Calls, a \in Accounts, s \in Slots : IncomingCall(c, a, s)
<1>1. ASSUME NEW p, NEW st, OnCallState(p, st)
      PROVE  UNCHANGED status \/ status' \in {"undefined", "state_full"}
  BY <1>1 DEF OnCallState
<1>2. ASSUME NEW h \in Calls, EndCall(h)
      PROVE  UNCHANGED status \/ status' \in {"undefined", "state_full"}
  BY <1>1, <1>2 DEF EndCall
<1>3. ASSUME NEW c \in Calls, Confirm(c) \/ RemoteEnd(c) \/ AnswerJob(c) PROVE FALSE
  BY <1>1, <1>3 DEF Confirm, RemoteEnd, AnswerJob
<1>4. ASSUME NEW s \in Slots, RemoteEndReads(s) \/ RemoteEndReported(s) PROVE FALSE
  BY <1>1, <1>4 DEF RemoteEndReads, RemoteEndReported
<1>5. ASSUME NEW s \in Slots, OnCallMediaState(s) PROVE FALSE
  BY <1>5 DEF OnCallMediaState
<1>6. ASSUME NEW h \in Calls, RejectJob(h) \/ HangupCall(h) \/ DropPorts(h) PROVE FALSE
  BY <1>2, <1>6 DEF RejectJob, HangupCall, DropPorts
<1>7. ASSUME NEW h \in Calls,
             \/ AnswerSessionProgress(h) \/ Reject(h) \/ Add(h) \/ Answered(h)
             \/ AwaitCallState(h) \/ AwaitHangup(h) \/ Drop(h) \/ Hangup(h) \/ Rejected(h)
             \/ CheckActive(h)
      PROVE  FALSE
  BY <1>7 DEF AnswerSessionProgress, Reject, Add, Answered, AwaitCallState, AwaitHangup,
     Drop, Hangup, Rejected, CheckActive
<1>8. ASSUME NEW a \in Accounts, AddAccount(a) \/ DropAccount(a) \/ NextCall(a)
      PROVE  FALSE
  BY <1>8 DEF AddAccount, DropAccount, NextCall
<1> QED
  BY <1>3, <1>4, <1>5, <1>6, <1>7, <1>8 DEF Next, Worker, Pool, Owner

\* The entry that the arriving call takes is one that no queued call is in.
LEMMA FullQueueStep ==
  ASSUME IInv, IsFiniteSet(Slots), Next, status' = "incoming_full",
         status # "incoming_full"
  PROVE  \E a \in Accounts :
            /\ \E c \in Calls : inv[c] = "Null" /\ inv'[c] # "Null" /\ accOf'[c] = a
            /\ Len(queue[a]) = IncomingCap
            /\ Cardinality(LivePlaces(a)) < Cardinality(Slots)
<1>1. PICK c \in Calls, a \in Accounts, s \in Slots : IncomingCall(c, a, s)
  BY FullOnlyOnArrival
<1>2. /\ occ[s] = None /\ inv[c] = "Null" /\ Len(queue[a]) >= IncomingCap
      /\ inv' = [inv EXCEPT ![c] = "Incoming"] /\ accOf' = [accOf EXCEPT ![c] = a]
  BY <1>1 DEF IncomingCall, OnIncomingCall
<1>3. /\ inv \in [Calls -> PjsipInvState] /\ accOf \in [Calls -> Accounts \cup {None}]
      /\ queue[a] \in Seq(Calls) /\ Len(queue[a]) <= IncomingCap
  BY DEF IInv, TypeOK
<1>4. Len(queue[a]) \in Nat /\ IncomingCap \in Nat
  BY <1>3, CallAssumption
<1>5. Len(queue[a]) = IncomingCap
  BY <1>2, <1>3, <1>4
<1>6. inv'[c] # "Null" /\ accOf'[c] = a
  BY <1>2, <1>3
<1>7. Cardinality(LivePlaces(a)) < Cardinality(Slots)
  BY <1>2, QueuedCallsTakeEntries
<1> QED
  BY <1>2, <1>5, <1>6, <1>7

\* The expect on try_send in on_incoming_call fails only when the queue in which the
\* call finds no place holds fewer live calls than pjsua's table has entries: the
\* rest, all of them if the table is small, ended and were left in the queue.
THEOREM FullQueuesWantCleaning ==
  ASSUME IsFiniteSet(Slots)
  PROVE  Spec => FullQueueIsStale
<1>1. IInv /\ [Next]_vars =>
          [status # "incoming_full" /\ status' = "incoming_full" =>
             \E a \in Accounts :
                /\ \E c \in Calls : inv[c] = "Null" /\ inv'[c] # "Null" /\ accOf'[c] = a
                /\ Len(queue[a]) = IncomingCap
                /\ Cardinality({i \in 1..Len(queue[a]) : inv[queue[a][i]] # "Disconnected"})
                       < Cardinality(Slots)]_vars
  BY FullQueueStep DEF LivePlaces
<1> QED
  BY <1>1, Invariant, PTL DEF Spec, FullQueueIsStale

-----------------------------------------------------------------------------
(* Reports and those who wait for them                                      *)

\* A report of state st is still to be read by h.
Has(h, st) == \E i \in 1..Len(chan[h]) : chan[h][i] = st

\* From its answer on until it leaves, a handle has still to read, or is about to
\* be sent, the report of every state its call has reached that it may yet await.
Told(h) ==
    /\ stage[h] \in {"answering", "connecting"} => Has(h, "Connecting")
    /\ stage[h] \in Adding /\ inv[h] = "Confirmed" => Has(h, "Confirmed")
    /\ stage[h] \in {"answering"} \cup AfterAnswer /\ inv[h] = "Disconnected" =>
           Has(h, "Disconnected") \/ cbPtr[slotOf[h]] = h

ToldInv ==
    Running => \A h \in Calls : answeredBy[h] = h /\ Undisturbed(h) => Told(h)

\* A handle that pjsua points to while another call is in its entry was made for an
\* outdated queue entry, and did not answer its own call.
LentInv ==
    \A s \in Slots : \A p \in {userData[s], cbPtr[s]} \cap Calls :
        occ[s] \notin {None, p} => answeredBy[p] # p

LEMMA LentStep ==
  ASSUME LifeAndAnswers, LentInv, [Next]_vars
  PROVE  LentInv'
<1>1. /\ occ \in [Slots -> Calls \cup {None}]
      /\ userData \in [Slots -> Calls \cup {None}]
      /\ cbPtr \in [Slots -> Calls \cup {None, Idle}]
      /\ slotOf \in [Calls -> Slots \cup {None}]
      /\ answeredBy \in [Calls -> Calls \cup {None}]
      /\ inv \in [Calls -> PjsipInvState]
      /\ queue \in [Accounts -> Seq(Calls)]
      /\ None \notin Calls /\ Idle \notin Calls
      /\ TableInv /\ BegunInv /\ PointerInv
  BY CallAssumption DEF LifeAndAnswers, IInv, TypeOK
<1>2. ASSUME UNCHANGED answeredBy,
             \A s \in Slots :
                 \/ occ'[s] = occ[s] /\ userData'[s] \in {userData[s], None}
                    /\ cbPtr'[s] \in {cbPtr[s], userData[s], Idle}
                 \/ userData'[s] = None /\ cbPtr'[s] = Idle
                 \/ occ'[s] = None
      PROVE  LentInv'
  BY <1>1, <1>2 DEF LentInv
<1>3. ASSUME NEW c \in Calls, NEW a \in Accounts, NEW s \in Slots, IncomingCall(c, a, s)
      PROVE  LentInv'
  <2>1. /\ UNCHANGED <<answeredBy, cbPtr>> /\ occ[s] = None
        /\ occ' = [occ EXCEPT ![s] = c] /\ userData' = [userData EXCEPT ![s] = None]
    BY <1>3 DEF IncomingCall, histVars
  <2>2. cbPtr[s] = Idle
    BY <1>1, <2>1 DEF TableInv
  <2> QED
    BY <1>1, <1>2, <2>1, <2>2
<1>4. ASSUME NEW a \in Accounts, NextCall(a) PROVE LentInv'
  <2>1. UNCHANGED <<occ, cbPtr, answeredBy>>
    BY <1>4 DEF NextCall, histVars
  <2>2. PICK h \in Calls : h = Head(queue[a]) /\ stage[h] = "none"
    <3>1. queue[a] \in Seq(Calls) /\ queue[a] # <<>>
      BY <1>1, <1>4 DEF NextCall
    <3>2. 1 \in 1..Len(queue[a]) /\ Head(queue[a]) = queue[a][1] /\ queue[a][1] \in Calls
      BY <3>1
    <3> QED
      BY <1>1, <3>2 DEF BegunInv
  <2>3. answeredBy[h] # h
    BY <2>2 DEF LifeAndAnswers, AnswerInv, AnswerOf, HasAnswered, Early
  <2>4. UNCHANGED userData \/ userData' = [userData EXCEPT ![slotOf[h]] = h]
    BY <1>4, <2>2 DEF NextCall
  <2> QED
    BY <1>1, <2>1, <2>3, <2>4 DEF LentInv
<1>5. ASSUME NEW x \in Calls, AnswerJob(x) PROVE LentInv'
  <2>1. UNCHANGED <<occ, cbPtr, userData>>
    BY <1>5 DEF AnswerJob
  <2>2. CASE UNCHANGED answeredBy
    BY <1>1, <2>1, <2>2 DEF LentInv
  <2>3. CASE Ringing(slotOf[x]) /\ answeredBy' = [answeredBy EXCEPT ![occ[slotOf[x]]] = x]
    <3>1. slotOf[x] \in Slots /\ occ[slotOf[x]] \in Calls
      <4>1. inv[x] # "Null"
        BY <1>1, <1>5 DEF AnswerJob, BegunInv
      <4> QED
        BY <1>1, <2>3, <4>1 DEF Ringing, TableInv
    <3>2. ASSUME NEW s \in Slots, NEW p \in {userData[s], cbPtr[s]} \cap Calls,
                 occ[s] \notin {None, p}
          PROVE  answeredBy'[p] # p
      <4>1. answeredBy[p] # p /\ slotOf[p] = s
        BY <1>1, <3>2 DEF LentInv, PointerInv
      <4>2. CASE p = occ[slotOf[x]]
        <5>1. x # p
          BY <3>2, <4>1, <4>2
        <5> QED
          BY <1>1, <2>3, <4>2, <5>1
      <4>3. CASE p # occ[slotOf[x]]
        BY <1>1, <2>3, <4>1, <4>3
      <4> QED
        BY <4>2, <4>3
    <3> QED
      BY <2>1, <3>2 DEF LentInv
  <2> QED
    BY <1>5, <2>2, <2>3 DEF AnswerJob
<1>6. ASSUME NEW c \in Calls, Confirm(c) \/ RemoteEnd(c) PROVE LentInv'
  BY <1>1, <1>2, <1>6 DEF Confirm, RemoteEnd, TableInv, Active, histVars
<1>7. ASSUME NEW s \in Slots,
             RemoteEndReads(s) \/ RemoteEndReported(s) \/ OnCallMediaState(s)
      PROVE  LentInv'
  BY <1>1, <1>2, <1>7 DEF RemoteEndReads, RemoteEndReported, OnCallMediaState, pjsuaVars,
     histVars
<1>8. ASSUME NEW h \in Calls, EndCall(h), UNCHANGED <<cbPtr, answeredBy>> PROVE LentInv'
  BY <1>1, <1>2, <1>8 DEF EndCall
<1>9. ASSUME NEW h \in Calls, RejectJob(h) \/ HangupCall(h) PROVE LentInv'
  <2>1. UNCHANGED <<cbPtr, answeredBy>>
    BY <1>9 DEF RejectJob, HangupCall
  <2> QED
    BY <1>1, <1>2, <1>8, <1>9, <2>1 DEF RejectJob, HangupCall
<1>10. ASSUME NEW h \in Calls,
              \/ AnswerSessionProgress(h) \/ Reject(h) \/ Add(h) \/ Answered(h)
              \/ AwaitCallState(h) \/ AwaitHangup(h) \/ Drop(h) \/ Hangup(h) \/ Rejected(h)
              \/ CheckActive(h) \/ DropPorts(h)
       PROVE  LentInv'
  BY <1>1, <1>2, <1>10 DEF AnswerSessionProgress, Reject, Add, Answered, AwaitCallState,
     AwaitHangup, Drop, Hangup, Rejected, CheckActive, DropPorts, pjsuaVars, histVars
<1>11. ASSUME NEW a \in Accounts, AddAccount(a) \/ DropAccount(a) PROVE LentInv'
  BY <1>1, <1>2, <1>11 DEF AddAccount, DropAccount, pjsuaVars, histVars
<1>12. CASE UNCHANGED vars
  BY <1>1, <1>2, <1>12 DEF vars, pjsuaVars, histVars
<1> QED
  BY <1>3, <1>4, <1>5, <1>6, <1>7, <1>9, <1>10, <1>11, <1>12
     DEF Next, Worker, Pool, Owner

\* A report that did not stop the process is in its channel, and all the others
\* are still in theirs.
LEMMA ReportHeard ==
  ASSUME TypeOK, NEW p \in Calls \cup {None}, NEW st \in PjsipInvState,
         OnCallState(p, st), Running'
  PROVE  /\ \A x \in Calls : \A m : Has(x, m) => Has(x, m)'
         /\ p \in Calls => Has(p, st)'
<1>1. chan \in [Calls -> Seq(PjsipInvState)] /\ None \notin Calls
  BY CallAssumption DEF TypeOK
<1>2. CASE p = None /\ UNCHANGED chan
  BY <1>1, <1>2 DEF Has
<1>3. CASE p \in Calls /\ chan' = [chan EXCEPT ![p] = Append(@, st)]
  <2>1. /\ Len(chan[p]) \in Nat /\ Len(chan'[p]) = Len(chan[p]) + 1
        /\ chan'[p][Len(chan[p]) + 1] = st
        /\ \A i \in 1..Len(chan[p]) : chan'[p][i] = chan[p][i]
    BY <1>1, <1>3
  <2>2. \A m : Has(p, m) => Has(p, m)'
    BY <2>1 DEF Has
  <2>3. Has(p, st)'
    BY <2>1 DEF Has
  <2>4. \A x \in Calls \ {p} : chan'[x] = chan[x]
    BY <1>1, <1>3
  <2>5. \A x \in Calls \ {p} : \A m : Has(x, m) => Has(x, m)'
    BY <2>4 DEF Has
  <2> QED
    BY <2>2, <2>3, <2>5
<1> QED
  BY <1>1, <1>2, <1>3 DEF OnCallState, Running, Usable

\* A handle is undisturbed after a step only if it was before.
LEMMA UndisturbedBefore ==
  ASSUME IInv, [Next]_vars, NEW h \in Calls, inv[h] # "Null", Undisturbed(h)'
  PROVE  Undisturbed(h)
<1>1. /\ box \in [Calls -> {"none", "live", "freed"}] /\ BegunInv
      /\ queue \in [Accounts -> Seq(Calls)]
      /\ slotOf \in [Calls -> Slots \cup {None}]
      /\ accOf \in [Calls -> Accounts \cup {None}]
  BY DEF IInv, TypeOK
<1>2. ASSUME UNCHANGED <<slotOf, accOf>>,
             \A x \in Calls : box[x] # "none" => box'[x] # "none"
      PROVE  Undisturbed(h)
  BY <1>2 DEF Undisturbed
<1>3. ASSUME NEW c \in Calls, NEW a \in Accounts, NEW s \in Slots, IncomingCall(c, a, s)
      PROVE  Undisturbed(h)
  <2>1. /\ inv[c] = "Null" /\ UNCHANGED box
        /\ slotOf' = [slotOf EXCEPT ![c] = s] /\ accOf' = [accOf EXCEPT ![c] = a]
    BY <1>3 DEF IncomingCall, handleVars
  <2>2. \A x \in Calls : box[x] # "none" => x # c
    BY <1>1, <2>1 DEF BegunInv
  <2>3. \A x \in Calls \ {c} : slotOf'[x] = slotOf[x] /\ accOf'[x] = accOf[x]
    BY <1>1, <2>1
  <2> QED
    BY <2>1, <2>2, <2>3 DEF Undisturbed
<1>4. ASSUME NEW a \in Accounts, NextCall(a) PROVE Undisturbed(h)
  <2>1. UNCHANGED <<slotOf, accOf>> /\ \E st \in {"live", "freed"} :
           box' = [box EXCEPT ![Head(queue[a])] = st]
    BY <1>4 DEF NextCall, idVars
  <2> QED
    BY <1>1, <1>2, <2>1
<1>5. ASSUME NEW x \in Calls, FreeHandle(x)
      PROVE  \A y \in Calls : box[y] # "none" => box'[y] # "none"
  BY <1>1, <1>5 DEF FreeHandle
<1>6. ASSUME NEW x \in Calls, CheckActive(x) \/ HangupCall(x) PROVE Undisturbed(h)
  BY <1>2, <1>5, <1>6 DEF CheckActive, HangupCall, idVars
<1>7. ASSUME NEW s \in Slots,
             RemoteEndReads(s) \/ RemoteEndReported(s) \/ OnCallMediaState(s)
      PROVE  Undisturbed(h)
  BY <1>2, <1>7 DEF RemoteEndReads, RemoteEndReported, OnCallMediaState, idVars, handleVars
<1>8. ASSUME NEW c \in Calls, Confirm(c) \/ RemoteEnd(c) \/ AnswerJob(c) \/ RejectJob(c)
      PROVE  Undisturbed(h)
  BY <1>2, <1>8 DEF Confirm, RemoteEnd, AnswerJob, RejectJob, idVars, handleVars
<1>9. ASSUME NEW x \in Calls,
             \/ AnswerSessionProgress(x) \/ Reject(x) \/ Add(x) \/ Answered(x)
             \/ AwaitCallState(x) \/ AwaitHangup(x) \/ Drop(x) \/ Hangup(x) \/ Rejected(x)
             \/ DropPorts(x)
      PROVE  Undisturbed(h)
  BY <1>2, <1>9 DEF AnswerSessionProgress, Reject, Add, Answered, AwaitCallState,
     AwaitHangup, Drop, Hangup, Rejected, DropPorts, idVars
<1>10. ASSUME NEW a \in Accounts, AddAccount(a) \/ DropAccount(a) PROVE Undisturbed(h)
  BY <1>2, <1>10 DEF AddAccount, DropAccount, idVars, handleVars
<1>11. CASE UNCHANGED vars
  BY <1>2, <1>11 DEF vars, idVars, handleVars
<1> QED
  BY <1>3, <1>4, <1>6, <1>7, <1>8, <1>9, <1>10, <1>11 DEF Next, Worker, Pool, Owner

\* The call of an undisturbed handle that lives is reported to it.
LEMMA OwnPointer ==
  ASSUME IInv, QueueInv, NEW h \in Calls, box[h] = "live", occ[slotOf[h]] = h,
         Undisturbed(h)
  PROVE  slotOf[h] \in Slots /\ userData[slotOf[h]] = h
<1>1. slotOf[h] \in Slots /\ userData[slotOf[h]] \in Calls \cup {None}
  BY DEF IInv, TypeOK, TableInv, BegunInv
<1>2. \/ userData[slotOf[h]] = h
      \/ /\ userData[slotOf[h]] # None
         /\ accOf[userData[slotOf[h]]] # accOf[h]
  BY DEF QueueInv, OwnEvents
<1>3. userData[slotOf[h]] # None =>
         /\ slotOf[userData[slotOf[h]]] = slotOf[h] /\ box[userData[slotOf[h]]] # "none"
  BY <1>1 DEF IInv, PointerInv
<1> QED
  BY <1>1, <1>2, <1>3 DEF Undisturbed

\* Only the job that answers changes the record of answers.
LEMMA OnlyJobsAnswer ==
  ASSUME [Next]_vars, \A x \in Calls : ~AnswerJob(x)
  PROVE  UNCHANGED answeredBy
<1>1. ASSUME NEW c \in Calls, NEW a \in Accounts, NEW s \in Slots, IncomingCall(c, a, s)
      PROVE  UNCHANGED answeredBy
  BY <1>1 DEF IncomingCall, histVars
<1>2. ASSUME NEW h \in Calls,
             \/ Confirm(h) \/ RemoteEnd(h) \/ RejectJob(h)
             \/ AnswerSessionProgress(h) \/ Reject(h) \/ Add(h) \/ Answered(h)
             \/ AwaitCallState(h) \/ AwaitHangup(h) \/ Drop(h) \/ Hangup(h) \/ Rejected(h)
             \/ CheckActive(h) \/ HangupCall(h) \/ DropPorts(h)
      PROVE  UNCHANGED answeredBy
  BY <1>2 DEF Confirm, RemoteEnd, RejectJob, AnswerSessionProgress, Reject, Add, Answered,
     AwaitCallState, AwaitHangup, Drop, Hangup, Rejected, CheckActive, HangupCall,
     DropPorts, histVars
<1>3. ASSUME NEW s \in Slots,
             RemoteEndReads(s) \/ RemoteEndReported(s) \/ OnCallMediaState(s)
      PROVE  UNCHANGED answeredBy
  BY <1>3 DEF RemoteEndReads, RemoteEndReported, OnCallMediaState, histVars
<1>4. ASSUME NEW a \in Accounts, AddAccount(a) \/ DropAccount(a) \/ NextCall(a)
      PROVE  UNCHANGED answeredBy
  BY <1>4 DEF AddAccount, DropAccount, NextCall, histVars
<1>5. CASE UNCHANGED vars
  BY <1>5 DEF vars, histVars
<1> QED
  BY <1>1, <1>2, <1>3, <1>4, <1>5 DEF Next, Worker, Pool, Owner

\* No step loses what an undisturbed handle was told of the call it answered, and
\* what happens to this call in the step is told to it.
LEMMA ToldStep ==
  ASSUME LifeAndAnswers, QueueInv, LentInv, ToldInv, Next, Running, Running',
         NEW h \in Calls, answeredBy'[h] = h, Undisturbed(h)'
  PROVE  Told(h)'
<1> DEFINE t == slotOf[h]
           Waiting == {"answering"} \cup AfterAnswer
<1>1. /\ stage \in [Calls -> Stages]
      /\ inv \in [Calls -> PjsipInvState]
      /\ chan \in [Calls -> Seq(PjsipInvState)]
      /\ slotOf \in [Calls -> Slots \cup {None}]
      /\ occ \in [Slots -> Calls \cup {None}]
      /\ userData \in [Slots -> Calls \cup {None}]
      /\ cbPtr \in [Slots -> Calls \cup {None, Idle}]
      /\ answeredBy \in [Calls -> Calls \cup {None}]
      /\ job \in [Calls -> Jobs]
      /\ queue \in [Accounts -> Seq(Calls)]
      /\ None \notin Calls \cup Slots /\ Idle \notin Calls \cup {None}
      /\ TypeOK /\ TableInv /\ BegunInv /\ IInv
  BY CallAssumption DEF LifeAndAnswers, IInv, TypeOK
<1>2. inv[h] # "Null"
  <2>1. CASE answeredBy[h] = h
    BY <1>1, <2>1 DEF LifeAndAnswers, AnswerInv, OnRecord
  <2>2. CASE answeredBy[h] # h
    <3>1. PICK x \in Calls : AnswerJob(x)
      BY <2>2, OnlyJobsAnswer
    <3>2. occ[slotOf[x]] = h /\ Ringing(slotOf[x])
      BY <1>1, <2>2, <3>1 DEF AnswerJob
    <3> QED
      BY <3>2 DEF Ringing
  <2> QED
    BY <2>1, <2>2
<1>3. /\ t \in Slots /\ Undisturbed(h)
      /\ stage[h] \in Waiting \cup Dropping /\ box[h] = "live" /\ occ[t] = h =>
             userData[t] = h
      /\ stage[h] \in Waiting => box[h] = "live"
  <2>1. t \in Slots /\ Undisturbed(h)
    BY <1>1, <1>2, UndisturbedBefore DEF TableInv
  <2>2. box[h] = "live" /\ occ[t] = h => userData[t] = h
    BY <1>1, <2>1, OwnPointer
  <2>3. box[h] \in {"none", "live", "freed"} /\ LifeOf(h)
    BY <1>1 DEF TypeOK, LifeAndAnswers, LifeInv
  <2>4. stage[h] \in Waiting => box[h] = "live"
    BY <2>3 DEF LifeOf, AfterAnswer
  <2> QED
    BY <2>1, <2>2, <2>4
<1>4. answeredBy[h] = h => Told(h)
  BY <1>3 DEF ToldInv
<1>5. ASSUME UNCHANGED <<inv, chan, slotOf, cbPtr, answeredBy>>,
             \/ stage'[h] = stage[h]
             \/ stage'[h] \notin Waiting
             \/ stage[h] = "answering" /\ stage'[h] = "connecting"
             \/ stage[h] = "call" /\ stage'[h] = "awaiting"
      PROVE  Told(h)'
  BY <1>4, <1>5 DEF Told, Has, Adding, AfterAnswer
<1>6. ASSUME UNCHANGED <<slotOf, answeredBy, inv, chan, cbPtr, stage>> PROVE Told(h)'
  BY <1>5, <1>6
<1>7. ASSUME NEW c \in Calls, NEW a \in Accounts, NEW s \in Slots, IncomingCall(c, a, s)
      PROVE  Told(h)'
  <2>1. /\ UNCHANGED <<cbPtr, stage, chan, answeredBy>> /\ c # h
        /\ slotOf'[h] = slotOf[h] /\ inv'[h] = inv[h]
    BY <1>1, <1>2, <1>7 DEF IncomingCall, handleVars, histVars
  <2> QED
    BY <1>4, <2>1 DEF Told, Has
<1>8. ASSUME NEW c \in Calls, Confirm(c) PROVE Told(h)'
  <2>1. /\ UNCHANGED <<slotOf, cbPtr, stage, answeredBy>>
        /\ inv[c] = "Connecting" /\ inv' = [inv EXCEPT ![c] = "Confirmed"]
        /\ OnCallState(userData[slotOf[c]], "Confirmed")
    BY <1>8 DEF Confirm, idVars, histVars
  <2>2. slotOf[c] \in Slots /\ occ[slotOf[c]] = c
    BY <1>1, <2>1 DEF TableInv, Active
  <2>3. /\ \A m : Has(h, m) => Has(h, m)'
        /\ userData[slotOf[c]] = h => Has(h, "Confirmed")'
    <3>1. "Confirmed" \in PjsipInvState /\ userData[slotOf[c]] \in Calls \cup {None}
      BY <1>1, <2>2 DEF PjsipInvState
    <3> QED
      BY <1>1, <2>1, <3>1, ReportHeard
  <2>4. Told(h)
    BY <1>4, <2>1
  <2>5. CASE c = h
    <3>1. stage[h] \in Waiting => Has(h, "Confirmed")'
      BY <1>3, <2>2, <2>3, <2>5
    <3>2. inv'[h] = "Confirmed"
      BY <1>1, <2>1, <2>5
    <3> QED
      BY <2>1, <2>3, <2>4, <3>1, <3>2 DEF Told, Adding, AfterAnswer
  <2>6. CASE c # h
    <3>1. inv'[h] = inv[h]
      BY <1>1, <2>1, <2>6
    <3> QED
      BY <2>1, <2>3, <2>4, <3>1 DEF Told
  <2> QED
    BY <2>5, <2>6
<1>9. ASSUME NEW c \in Calls, RemoteEnd(c) PROVE Told(h)'
  <2>1. /\ UNCHANGED <<slotOf, chan, stage, answeredBy>>
        /\ Active(c) /\ inv' = [inv EXCEPT ![c] = "Disconnected"]
        /\ cbPtr' = [cbPtr EXCEPT ![slotOf[c]] = userData[slotOf[c]]]
    BY <1>9 DEF RemoteEnd, idVars, handleVars, histVars
  <2>2. slotOf[c] \in Slots /\ occ[slotOf[c]] = c /\ cbPtr[slotOf[c]] = Idle
    <3>1. slotOf[c] \in Slots /\ occ[slotOf[c]] = c /\ inv[c] # "Disconnected"
      BY <1>1, <2>1 DEF TableInv, Active
    <3> QED
      BY <1>1, <3>1 DEF TableInv
  <2>3. Told(h)
    BY <1>4, <2>1
  <2>4. CASE c = h
    <3>1. stage[h] \in Waiting => cbPtr'[t] = h
      BY <1>1, <1>3, <2>1, <2>2, <2>4
    <3>2. inv'[h] = "Disconnected"
      BY <1>1, <2>1, <2>4
    <3> QED
      BY <2>1, <2>3, <3>1, <3>2 DEF Told, Has
  <2>5. CASE c # h
    <3>1. inv'[h] = inv[h] /\ (cbPtr[t] = h => cbPtr'[t] = h)
      BY <1>1, <1>3, <2>1, <2>2, <2>5
    <3> QED
      BY <2>1, <2>3, <3>1 DEF Told, Has
  <2> QED
    BY <2>4, <2>5
<1>10. ASSUME NEW s \in Slots, RemoteEndReported(s) PROVE Told(h)'
  <2>1. /\ UNCHANGED <<slotOf, inv, stage, answeredBy>>
        /\ cbPtr[s] # Idle /\ cbPtr' = [cbPtr EXCEPT ![s] = Idle]
        /\ OnCallState(cbPtr[s], "Disconnected")
    BY <1>10 DEF RemoteEndReported, idVars, histVars
  <2>2. /\ \A m : Has(h, m) => Has(h, m)'
        /\ cbPtr[s] = h => Has(h, "Disconnected")'
    <3>1. "Disconnected" \in PjsipInvState /\ cbPtr[s] \in Calls \cup {None}
      BY <1>1, <2>1 DEF PjsipInvState
    <3> QED
      BY <1>1, <2>1, <3>1, ReportHeard
  <2>3. cbPtr[t] = h => Has(h, "Disconnected")' \/ cbPtr'[t] = h
    BY <1>1, <1>3, <2>1, <2>2
  <2>4. Told(h)
    BY <1>4, <2>1
  <2> QED
    BY <2>1, <2>2, <2>3, <2>4 DEF Told
<1>reads. ASSUME NEW s \in Slots, RemoteEndReads(s) PROVE Told(h)'
  <2>1. /\ UNCHANGED <<slotOf, inv, chan, stage, answeredBy>>
        /\ cbPtr[s] # Idle /\ cbPtr' = [cbPtr EXCEPT ![s] = userData[s]]
    BY <1>reads DEF RemoteEndReads, idVars, handleVars, histVars
  <2>2. ASSUME stage[h] \in Waiting, cbPtr[t] = h PROVE cbPtr'[t] = h
    <3>1. occ[t] = h
      BY <1>1, <1>3, <2>1, <2>2 DEF LentInv, TableInv
    <3> QED
      BY <1>1, <1>3, <2>1, <2>2, <3>1
  <2>3. Told(h)
    BY <1>4, <2>1
  <2> QED
    BY <2>1, <2>2, <2>3 DEF Told, Has
<1>11. ASSUME NEW x \in Calls, AnswerJob(x) PROVE Told(h)'
  <2>1. UNCHANGED <<slotOf, cbPtr, stage>>
    BY <1>11 DEF AnswerJob, idVars
  <2>2. CASE UNCHANGED <<inv, answeredBy, chan>>
    BY <1>6, <2>1, <2>2
  <2>3. CASE /\ Ringing(slotOf[x])
             /\ inv' = [inv EXCEPT ![occ[slotOf[x]]] = "Connecting"]
             /\ answeredBy' = [answeredBy EXCEPT ![occ[slotOf[x]]] = x]
             /\ OnCallState(userData[slotOf[x]], "Connecting")
    <3>1. slotOf[x] \in Slots /\ occ[slotOf[x]] \in Calls
      <4>1. inv[x] # "Null"
        BY <1>1, <1>11 DEF AnswerJob, BegunInv
      <4> QED
        BY <1>1, <2>3, <4>1 DEF Ringing, TableInv
    <3>2. /\ \A m : Has(h, m) => Has(h, m)'
          /\ userData[slotOf[x]] = h => Has(h, "Connecting")'
      <4>1. "Connecting" \in PjsipInvState /\ userData[slotOf[x]] \in Calls \cup {None}
        BY <1>1, <3>1 DEF PjsipInvState
      <4> QED
        BY <1>1, <2>3, <4>1, ReportHeard
    <3>3. CASE occ[slotOf[x]] = h
      <4>1. x = h /\ inv'[h] = "Connecting"
        BY <1>1, <2>3, <3>1, <3>3
      <4>2. stage[h] \in {"answering", "done"} \cup Dropping
        BY <1>1, <1>11, <4>1 DEF AnswerJob, LifeAndAnswers, LifeInv, LifeOf
      <4>3. stage[h] = "answering" => Has(h, "Connecting")'
        BY <1>3, <3>2, <3>3, <4>1
      <4> QED
        BY <2>1, <4>1, <4>2, <4>3 DEF Told, Adding, AfterAnswer, Dropping
    <3>4. CASE occ[slotOf[x]] # h
      <4>1. inv'[h] = inv[h] /\ answeredBy[h] = h
        BY <1>1, <2>3, <3>1, <3>4
      <4> QED
        BY <1>4, <2>1, <3>2, <4>1 DEF Told
    <3> QED
      BY <3>3, <3>4
  <2> QED
    BY <1>11, <2>2, <2>3 DEF AnswerJob
<1>12. ASSUME NEW x \in Calls, inv[x] # "Null", SlotActive(slotOf[x]), EndCall(x),
              UNCHANGED <<slotOf, cbPtr, answeredBy>>,
              stage'[h] = stage[h] \/ stage'[h] \notin Waiting
       PROVE  Told(h)'
  <2>1. PICK c \in Calls : /\ c = occ[slotOf[x]] /\ slotOf[x] \in Slots
                           /\ slotOf[c] = slotOf[x]
    BY <1>1, <1>12 DEF SlotActive, TableInv
  <2>2. /\ inv' = [inv EXCEPT ![c] = "Disconnected"]
        /\ OnCallState(userData[slotOf[c]], "Disconnected")
    BY <1>12, <2>1 DEF EndCall
  <2>3. /\ \A m : Has(h, m) => Has(h, m)'
        /\ userData[slotOf[c]] = h => Has(h, "Disconnected")'
    <3>1. "Disconnected" \in PjsipInvState /\ userData[slotOf[c]] \in Calls \cup {None}
      BY <1>1, <2>1 DEF PjsipInvState
    <3> QED
      BY <1>1, <2>2, <3>1, ReportHeard
  <2>4. Told(h)
    BY <1>4, <1>12
  <2>5. CASE c = h
    <3>1. stage[h] \in Waiting => Has(h, "Disconnected")'
      BY <1>3, <2>1, <2>3, <2>5
    <3>2. inv'[h] = "Disconnected"
      BY <1>1, <2>2, <2>5
    <3> QED
      BY <1>12, <2>3, <2>4, <3>1, <3>2 DEF Told, Adding, AfterAnswer
  <2>6. CASE c # h
    <3>1. inv'[h] = inv[h]
      BY <1>1, <2>2, <2>6
    <3> QED
      BY <1>12, <2>3, <2>4, <3>1 DEF Told, Adding, AfterAnswer
  <2> QED
    BY <2>5, <2>6
<1>13. ASSUME NEW x \in Calls, RejectJob(x) PROVE Told(h)'
  <2>1. UNCHANGED <<slotOf, cbPtr, stage, answeredBy>> /\ inv[x] # "Null"
    BY <1>1, <1>13 DEF RejectJob, idVars, BegunInv
  <2> QED
    BY <1>6, <1>12, <1>13, <2>1 DEF RejectJob
<1>14. ASSUME NEW x \in Calls, FreeHandle(x)
       PROVE  stage'[h] = stage[h] \/ stage'[h] \notin Waiting
  BY <1>1, <1>14 DEF FreeHandle, AfterAnswer
<1>15. ASSUME NEW x \in Calls, HangupCall(x) PROVE Told(h)'
  <2>1. UNCHANGED <<slotOf, cbPtr, answeredBy>> /\ inv[x] # "Null"
    BY <1>1, <1>15 DEF HangupCall, idVars, BegunInv
  <2>2. CASE SlotActive(slotOf[x]) /\ EndCall(x) /\ FreeHandle(x)
    BY <1>12, <1>14, <2>1, <2>2
  <2>3. CASE UNCHANGED <<inv, chan, stage>>
    BY <1>6, <2>1, <2>3
  <2> QED
    BY <1>15, <2>2, <2>3 DEF HangupCall
<1>16. ASSUME NEW x \in Calls, CheckActive(x) PROVE Told(h)'
  <2>1. UNCHANGED <<inv, chan, slotOf, cbPtr, answeredBy>>
    BY <1>16 DEF CheckActive, idVars, pjsuaVars, histVars
  <2>2. stage'[h] = stage[h] \/ stage'[h] \notin Waiting
    BY <1>1, <1>14, <1>16 DEF CheckActive, AfterAnswer
  <2> QED
    BY <1>5, <2>1, <2>2
<1>17. ASSUME NEW x \in Calls, AwaitCallState(x) PROVE Told(h)'
  <2>1. /\ UNCHANGED <<inv, slotOf, cbPtr, answeredBy>>
        /\ stage[x] \in DOMAIN Awaited /\ chan[x] # <<>>
        /\ chan' = [chan EXCEPT ![x] = Tail(@)]
        /\ stage' = [stage EXCEPT ![x] = IF Head(chan[x]) = Awaited[stage[x]]
                                         THEN AfterAwait[stage[x]] ELSE "ports"]
    BY <1>17 DEF AwaitCallState, Move, idVars, pjsuaVars, histVars
  <2>2. Told(h)
    BY <1>4, <2>1
  <2>3. CASE x = h
    <3>1. /\ Len(chan[h]) \in Nat \ {0} /\ Len(chan'[h]) = Len(chan[h]) - 1
          /\ Head(chan[h]) = chan[h][1]
          /\ \A i \in 1..Len(chan'[h]) : chan'[h][i] = chan[h][i + 1]
      BY <1>1, <2>1, <2>3
    <3>2. ASSUME NEW m, Has(h, m), m # Head(chan[h]) PROVE Has(h, m)'
      <4>1. PICK i \in 1..Len(chan[h]) : chan[h][i] = m
        BY <3>2 DEF Has
      <4>2. i # 1
        BY <3>1, <3>2, <4>1
      <4>3. i - 1 \in 1..Len(chan'[h]) /\ (i - 1) + 1 = i
        BY <3>1, <4>1, <4>2
      <4> QED
        BY <3>1, <4>1, <4>3 DEF Has
    <3>3. CASE stage'[h] = "ports"
      BY <3>3 DEF Told, Adding, AfterAnswer
    <3>4. CASE /\ Head(chan[h]) = Awaited[stage[h]]
               /\ stage'[h] = AfterAwait[stage[h]]
      <4>1. CASE stage[h] = "connecting"
        <5>1. Head(chan[h]) = "Connecting" /\ stage'[h] = "confirming"
          BY <3>4, <4>1 DEF Awaited, AfterAwait
        <5> QED
          BY <2>1, <2>2, <3>2, <4>1, <5>1 DEF Told, Adding, AfterAnswer
      <4>2. CASE stage[h] = "confirming"
        <5>1. Head(chan[h]) = "Confirmed" /\ stage'[h] = "call"
          BY <3>4, <4>2 DEF Awaited, AfterAwait
        <5> QED
          BY <2>1, <2>2, <3>2, <4>2, <5>1 DEF Told, Adding, AfterAnswer
      <4>3. CASE stage[h] = "awaiting"
        <5>1. stage'[h] = "ports"
          BY <3>4, <4>3 DEF AfterAwait
        <5> QED
          BY <3>3, <5>1
      <4> QED
        BY <2>1, <2>3, <4>1, <4>2, <4>3 DEF Awaited
    <3> QED
      BY <1>1, <2>1, <2>3, <3>3, <3>4
  <2>4. CASE x # h
    <3>1. chan'[h] = chan[h] /\ stage'[h] = stage[h]
      BY <1>1, <2>1, <2>4
    <3> QED
      BY <2>1, <2>2, <3>1 DEF Told, Has
  <2> QED
    BY <2>3, <2>4
<1>18. ASSUME NEW x \in Calls, Add(x) PROVE Told(h)'
  <2>1. /\ UNCHANGED <<inv, chan, slotOf, cbPtr, answeredBy>>
        /\ stage[x] = "setup"
        /\ \E st \in Stages : stage' = [stage EXCEPT ![x] = st]
    BY <1>18 DEF Add, Move, idVars, pjsuaVars, histVars, Stages
  <2>2. stage[h] # "setup"
    BY <2>1 DEF LifeAndAnswers, AnswerInv, AnswerOf, HasAnswered, Early
  <2>3. stage'[h] = stage[h]
    BY <1>1, <2>1, <2>2
  <2> QED
    BY <1>5, <2>1, <2>3
<1>19. ASSUME NEW x \in Calls,
              \/ AnswerSessionProgress(x) \/ Reject(x) \/ Answered(x) \/ AwaitHangup(x)
              \/ Drop(x) \/ Hangup(x) \/ Rejected(x) \/ DropPorts(x)
       PROVE  Told(h)'
  <2>1. UNCHANGED <<inv, chan, slotOf, cbPtr, answeredBy>>
    BY <1>19 DEF AnswerSessionProgress, Reject, Answered, AwaitHangup, Drop, Hangup,
       Rejected, DropPorts, idVars, pjsuaVars, histVars
  <2>2. \/ UNCHANGED stage
        \/ /\ stage[x] = "answering" /\ stage' = [stage EXCEPT ![x] = "connecting"]
        \/ /\ stage[x] = "call" /\ stage' = [stage EXCEPT ![x] = "awaiting"]
        \/ \E st \in {"setup", "handle", "ports", "done"} :
              stage' = [stage EXCEPT ![x] = st]
    BY <1>19 DEF AnswerSessionProgress, Reject, Answered, AwaitHangup, Drop, Hangup,
       Rejected, DropPorts, Move
  <2>3. \/ stage'[h] = stage[h]
        \/ stage'[h] \notin Waiting
        \/ stage[h] = "answering" /\ stage'[h] = "connecting"
        \/ stage[h] = "call" /\ stage'[h] = "awaiting"
    BY <1>1, <2>2 DEF AfterAnswer
  <2> QED
    BY <1>5, <2>1, <2>3
<1>20. ASSUME NEW s \in Slots, OnCallMediaState(s) PROVE Told(h)'
  BY <1>6, <1>20 DEF OnCallMediaState, idVars, pjsuaVars, histVars
<1>21. ASSUME NEW a \in Accounts, AddAccount(a) \/ DropAccount(a) PROVE Told(h)'
  BY <1>6, <1>21 DEF AddAccount, DropAccount, idVars, pjsuaVars, handleVars, histVars
<1>22. ASSUME NEW a \in Accounts, NextCall(a) PROVE Told(h)'
  <2>1. /\ UNCHANGED <<inv, chan, slotOf, cbPtr, answeredBy>>
        /\ \E st \in {"incoming", "unmade"} :
              stage' = [stage EXCEPT ![Head(queue[a])] = st]
    BY <1>22 DEF NextCall, idVars, histVars
  <2>2. stage'[h] = stage[h] \/ stage'[h] \notin Waiting
    BY <1>1, <2>1 DEF AfterAnswer
  <2> QED
    BY <1>5, <2>1, <2>2
<1> QED
  BY <1>7, <1>8, <1>9, <1>10, <1>11, <1>13, <1>15, <1>16, <1>17, <1>18, <1>19, <1>20,
     <1>21, <1>22, <1>reads DEF Next, Worker, Pool, Owner

\* Only a running process takes steps.
LEMMA NextRuns == Next => Running
BY DEF Next, Worker, Pool, Owner, IncomingCall, Confirm, RemoteEnd, RemoteEndReads,
   RemoteEndReported, OnCallMediaState, AnswerJob, RejectJob, AddAccount, DropAccount, NextCall,
   AnswerSessionProgress, Reject, Add, Answered, AwaitCallState, AwaitHangup, Drop,
   Hangup, Rejected, CheckActive, HangupCall, DropPorts, Move

\* Whoever awaits a state of its call that has passed has it to read, or is about to
\* be told: PjsuaCallSetup::add and await_hangup miss no report.
THEOREM NoReportIsMissed == Spec => []NobodyWaitsInVain
<1>1. Init => ToldInv
  BY CallAssumption DEF Init, ToldInv
<1>2. LifeAndAnswers /\ QueueInv /\ LentInv /\ ToldInv /\ [Next]_vars => ToldInv'
  <2> SUFFICES ASSUME LifeAndAnswers, QueueInv, LentInv, ToldInv, [Next]_vars,
                      Running', NEW h \in Calls, answeredBy'[h] = h, Undisturbed(h)'
               PROVE  Told(h)'
    BY DEF ToldInv
  <2>1. CASE Next
    BY <2>1, NextRuns, ToldStep
  <2>2. CASE UNCHANGED vars
    BY <2>2 DEF ToldInv, Told, Has, Undisturbed, Running, vars, idVars, pjsuaVars,
       handleVars, histVars
  <2> QED
    BY <2>1, <2>2
<1>3. LifeAndAnswers /\ ToldInv => NobodyWaitsInVain
  <2> SUFFICES ASSUME LifeAndAnswers, ToldInv, Running, NEW h \in Calls,
                      stage[h] \in DOMAIN Awaited, chan[h] = <<>>,
                      answeredBy[h] = h, Undisturbed(h)
               PROVE  \/ Order[inv[h]] < Order[Awaited[stage[h]]]
                      \/ cbPtr[slotOf[h]] = h
    BY DEF NobodyWaitsInVain
  <2>1. Told(h) /\ inv[h] \in SessionStates /\ inv[h] \notin {"Null", "Incoming"}
    BY CallAssumption
       DEF ToldInv, LifeAndAnswers, IInv, TableInv, AnswerInv, OnRecord
  <2>2. \A m : ~Has(h, m)
    BY DEF Has
  <2>3. stage[h] \in {"connecting", "confirming", "awaiting"}
    BY DEF Awaited
  <2>4. stage[h] # "connecting"
    BY <2>1, <2>2 DEF Told
  <2>5. stage[h] = "confirming" => inv[h] # "Confirmed"
    BY <2>1, <2>2 DEF Told, Adding
  <2>6. inv[h] = "Disconnected" => cbPtr[slotOf[h]] = h
    BY <2>1, <2>2, <2>3 DEF Told, AfterAnswer
  <2> QED
    BY <2>1, <2>3, <2>4, <2>5, <2>6 DEF SessionStates, Order, Awaited
<1>4. Init => LentInv
  BY CallAssumption DEF Init, LentInv
<1>5. LifeAndAnswers /\ LentInv /\ [Next]_vars => LentInv'
  BY LentStep
<1> QED
  BY <1>1, <1>2, <1>3, <1>4, <1>5, LifeAndAnswersInvariant, QueueInvariant, PTL DEF Spec

=============================================================================
