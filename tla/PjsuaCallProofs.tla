--------------------------- MODULE PjsuaCallProofs ---------------------------
(***************************************************************************)
(* Proofs about PjsuaCall, for any calls, entries, accounts, capacities    *)
(* and faults.                                                             *)
(***************************************************************************)
EXTENDS PjsuaCall, TLAPS

-----------------------------------------------------------------------------
(* The inductive invariant                                                  *)

\* The states an incoming INVITE session goes through here.
SessionStates == {"Null", "Incoming", "Connecting", "Confirmed", "Disconnected"}

\* pjsua's table: an active call is in its entry; an entry's occupant was put
\* there; a call that has ended keeps its entry exactly as long as the callback
\* that reports it.
TableInv ==
    /\ \A c \in Calls : inv[c] \in SessionStates
    /\ \A c \in Calls : inv[c] # "Null" => slotOf[c] \in Slots
    /\ \A c \in Calls : Active(c) => occ[slotOf[c]] = c
    /\ \A s \in Slots : occ[s] # None => slotOf[occ[s]] = s /\ inv[occ[s]] # "Null"
    /\ \A s \in Slots : cbPtr[s] # Idle <=>
                            occ[s] # None /\ inv[occ[s]] = "Disconnected"

\* Only a call that arrived is queued, gets a handle or a job, and a queued call
\* has no handle yet.
BegunInv ==
    /\ \A h \in Calls : stage[h] # "none" \/ box[h] # "none" \/ job[h] # "none" =>
           inv[h] # "Null"
    /\ \A a \in Accounts : \A i \in 1..Len(queue[a]) :
           LET h == queue[a][i]
           IN  accOf[h] = a /\ inv[h] # "Null" /\ box[h] = "none" /\ stage[h] = "none"
    /\ \A a \in Accounts : \A i, j \in 1..Len(queue[a]) :
           queue[a][i] = queue[a][j] => i = j

\* The pointers pjsua holds are to boxes that were made, by handles of the entry.
PointerInv ==
    /\ \A s \in Slots : userData[s] # None =>
           slotOf[userData[s]] = s /\ box[userData[s]] # "none"
    /\ \A s \in Slots : cbPtr[s] \in Calls =>
           slotOf[cbPtr[s]] = s /\ box[cbPtr[s]] # "none"

\* The reports a call in state st has made to one handle at most.
Reported == [Incoming |-> 0, Connecting |-> 1, Confirmed |-> 2]

\* A handle's channel holds no more than the reports that the call in its entry has
\* made so far, or, in the callback that reports its end, two before the third.
ChannelInv ==
    /\ \A h \in Calls : box[h] = "none" => chan[h] = <<>>
    /\ \A s \in Slots : SlotActive(s) /\ userData[s] # None =>
           Len(chan[userData[s]]) <= Reported[inv[occ[s]]]
    /\ \A s \in Slots : cbPtr[s] # Idle =>
           \A p \in Calls : p = cbPtr[s] \/ p = userData[s] => Len(chan[p]) <= 2

\* The inductive invariant: types, pjsua's table, who has begun, whom the pointers
\* lent to pjsua belong to, how full a channel is, and the two safety properties
\* that lean on each other through them.
IInv ==
    /\ TypeOK /\ TableInv /\ BegunInv /\ PointerInv /\ ChannelInv
    /\ ActiveCallDataLive /\ StateChannelSuffices

-----------------------------------------------------------------------------
(* Type correctness                                                         *)

\* A report of a state keeps the channels and the status typed.
LEMMA OnCallStateType ==
  ASSUME TypeOK, NEW p, NEW st \in PjsipInvState, OnCallState(p, st)
  PROVE  chan' \in [Calls -> Seq(PjsipInvState)] /\ status' \in Statuses
<1>1. chan \in [Calls -> Seq(PjsipInvState)] /\ status \in Statuses
  BY DEF TypeOK
<1>2. status' \in Statuses
  BY <1>1 DEF OnCallState, Statuses
<1>3. CASE UNCHANGED chan
  BY <1>1, <1>2, <1>3
<1>4. CASE chan' = [chan EXCEPT ![p] = Append(@, st)]
  <2>1. ASSUME NEW x \in Calls PROVE chan'[x] \in Seq(PjsipInvState)
    <3>1. chan[x] \in Seq(PjsipInvState)
      BY <1>1
    <3>2. Append(chan[x], st) \in Seq(PjsipInvState)
      BY <3>1
    <3>3. chan'[x] = IF x = p THEN Append(chan[x], st) ELSE chan[x]
      BY <1>1, <1>4
    <3> QED
      BY <3>1, <3>2, <3>3
  <2>2. chan' = [x \in Calls |-> chan'[x]]
    BY <1>1, <1>4
  <2> QED
    BY <1>2, <2>1, <2>2
<1> QED
  BY <1>3, <1>4 DEF OnCallState

\* The initial state is typed.
LEMMA TypeInit == Init => TypeOK
BY CallAssumption DEF Init, TypeOK, Statuses, AccountStates, PjsipInvState, Stages,
       PortStates, Jobs

\* One step per action, under it one per variable the action changes.
LEMMA TypeStep == TypeOK /\ [Next]_vars => TypeOK'
<1> SUFFICES ASSUME TypeOK, [Next]_vars PROVE TypeOK'
  OBVIOUS
<1>status. status \in Statuses
  BY DEF TypeOK
<1>acc. acc \in [Accounts -> AccountStates]
  BY DEF TypeOK
<1>queue. queue \in [Accounts -> Seq(Calls)]
  BY DEF TypeOK
<1>slotOf. slotOf \in [Calls -> Slots \cup {None}]
  BY DEF TypeOK
<1>accOf. accOf \in [Calls -> Accounts \cup {None}]
  BY DEF TypeOK
<1>occ. occ \in [Slots -> Calls \cup {None}]
  BY DEF TypeOK
<1>userData. userData \in [Slots -> Calls \cup {None}]
  BY DEF TypeOK
<1>inv. inv \in [Calls -> PjsipInvState]
  BY DEF TypeOK
<1>cbPtr. cbPtr \in [Slots -> Calls \cup {None, Idle}]
  BY DEF TypeOK
<1>stage. stage \in [Calls -> Stages]
  BY DEF TypeOK
<1>box. box \in [Calls -> {"none", "live", "freed"}]
  BY DEF TypeOK
<1>chan. chan \in [Calls -> Seq(PjsipInvState)]
  BY DEF TypeOK
<1>job. job \in [Calls -> Jobs]
  BY DEF TypeOK
<1>media. media \in [Calls -> {"unsent", "sent"} \cup Calls]
  BY DEF TypeOK
<1>ports. ports \in [Calls -> [sink : PortStates, stream : PortStates]]
  BY DEF TypeOK
<1>answeredBy. answeredBy \in [Calls -> Calls \cup {None}]
  BY DEF TypeOK
<1>endedBy. endedBy \in [Calls -> Calls \cup {None}]
  BY DEF TypeOK
<1>cap. IncomingCap \in Nat \ {0} /\ \A a \in Accounts : Len(queue[a]) <= IncomingCap
  BY CallAssumption DEF TypeOK
<1>states. {"Incoming", "Connecting", "Confirmed", "Disconnected"} \subseteq PjsipInvState
  BY DEF PjsipInvState
<1>1. ASSUME NEW c \in Calls, NEW a \in Accounts, NEW s \in Slots, IncomingCall(c, a, s) PROVE TypeOK'
  <2>1. slotOf' \in [Calls -> Slots \cup {None}]
    BY <1>1, <1>slotOf DEF IncomingCall
  <2>2. accOf' \in [Calls -> Accounts \cup {None}]
    BY <1>1, <1>accOf DEF IncomingCall
  <2>3. occ' \in [Slots -> Calls \cup {None}]
    BY <1>1, <1>occ DEF IncomingCall
  <2>4. userData' \in [Slots -> Calls \cup {None}]
    BY <1>1, <1>userData DEF IncomingCall
  <2>5. inv' \in [Calls -> PjsipInvState]
    BY <1>1, <1>inv DEF IncomingCall, PjsipInvState
  <2>6. status' \in Statuses
    BY <1>1, <1>status DEF IncomingCall, OnIncomingCall, Statuses
  <2>7. /\ queue' \in [Accounts -> Seq(Calls)]
       /\ \A b \in Accounts : Len(queue'[b]) <= IncomingCap
    <3>1. queue[a] \in Seq(Calls) /\ Len(queue[a]) \in Nat
      BY <1>queue
    <3>2. /\ Append(queue[a], c) \in Seq(Calls)
          /\ Len(Append(queue[a], c)) = Len(queue[a]) + 1
      BY <3>1
    <3>3. CASE UNCHANGED queue
      BY <1>queue, <1>cap, <3>3
    <3>4. CASE Len(queue[a]) < IncomingCap /\ queue' = [queue EXCEPT ![a] = Append(@, c)]
      BY <1>queue, <1>cap, <3>1, <3>2, <3>4
    <3> QED
      BY <1>1, <3>3, <3>4 DEF IncomingCall, OnIncomingCall
  <2> QED
    BY <1>1, <2>1, <2>2, <2>3, <2>4, <2>5, <2>6, <2>7 DEF TypeOK, IncomingCall,
       accVars, idVars, pjsuaVars, handleVars, histVars
<1>2. ASSUME NEW c \in Calls, Confirm(c) PROVE TypeOK'
  <2>1. chan' \in [Calls -> Seq(PjsipInvState)] /\ status' \in Statuses
    BY <1>2, <1>states, OnCallStateType DEF Confirm
  <2>2. inv' \in [Calls -> PjsipInvState]
    BY <1>2, <1>inv DEF Confirm, PjsipInvState
  <2> QED
    BY <1>2, <2>1, <2>2 DEF TypeOK, Confirm,
       accVars, idVars, pjsuaVars, handleVars, histVars
<1>3. ASSUME NEW c \in Calls, RemoteEnd(c) PROVE TypeOK'
  <2>1. inv' \in [Calls -> PjsipInvState]
    BY <1>3, <1>inv DEF RemoteEnd, PjsipInvState
  <2>2. cbPtr' \in [Slots -> Calls \cup {None, Idle}]
    BY <1>3, <1>cbPtr, <1>userData DEF RemoteEnd
  <2> QED
    BY <1>3, <2>1, <2>2 DEF TypeOK, RemoteEnd,
       accVars, idVars, pjsuaVars, handleVars, histVars
<1>reads. ASSUME NEW s \in Slots, RemoteEndReads(s) PROVE TypeOK'
  <2>1. cbPtr' \in [Slots -> Calls \cup {None, Idle}]
    BY <1>reads, <1>cbPtr, <1>userData DEF RemoteEndReads
  <2> QED
    BY <1>reads, <2>1 DEF TypeOK, RemoteEndReads,
       accVars, idVars, pjsuaVars, handleVars, histVars
<1>4. ASSUME NEW s \in Slots, RemoteEndReported(s) PROVE TypeOK'
  <2>1. chan' \in [Calls -> Seq(PjsipInvState)] /\ status' \in Statuses
    BY <1>4, <1>states, OnCallStateType DEF RemoteEndReported
  <2>2. cbPtr' \in [Slots -> Calls \cup {None, Idle}]
    BY <1>4, <1>cbPtr DEF RemoteEndReported
  <2>3. occ' \in [Slots -> Calls \cup {None}]
    BY <1>4, <1>occ DEF RemoteEndReported
  <2>4. userData' \in [Slots -> Calls \cup {None}]
    BY <1>4, <1>userData DEF RemoteEndReported
  <2> QED
    BY <1>4, <2>1, <2>2, <2>3, <2>4 DEF TypeOK, RemoteEndReported,
       accVars, idVars, pjsuaVars, handleVars, histVars
<1>5. ASSUME NEW s \in Slots, OnCallMediaState(s) PROVE TypeOK'
  <2>1. media' \in [Calls -> {"unsent", "sent"} \cup Calls]
    BY <1>5, <1>media, <1>occ DEF OnCallMediaState
  <2>2. status' \in Statuses
    BY <1>5, <1>status DEF OnCallMediaState, Statuses
  <2> QED
    BY <1>5, <2>1, <2>2 DEF TypeOK, OnCallMediaState,
       accVars, idVars, pjsuaVars, handleVars, histVars
<1>6. ASSUME NEW h \in Calls, AnswerJob(h) PROVE TypeOK'
  <2>1. chan' \in [Calls -> Seq(PjsipInvState)] /\ status' \in Statuses
    <3>1. CASE OnCallState(userData[slotOf[h]], "Connecting")
      BY <3>1, <1>states, OnCallStateType
    <3>2. CASE UNCHANGED <<chan, status>>
      BY <3>2, <1>chan, <1>status DEF Statuses
    <3> QED
      BY <1>6, <3>1, <3>2 DEF AnswerJob
  <2>2. inv' \in [Calls -> PjsipInvState]
    BY <1>6, <1>inv DEF AnswerJob, PjsipInvState
  <2>3. answeredBy' \in [Calls -> Calls \cup {None}]
    BY <1>6, <1>answeredBy DEF AnswerJob
  <2>4. job' \in [Calls -> Jobs]
    BY <1>6, <1>job DEF AnswerJob, Jobs
  <2> QED
    BY <1>6, <2>1, <2>2, <2>3, <2>4 DEF TypeOK, AnswerJob,
       accVars, idVars, pjsuaVars, handleVars, histVars
<1>7. ASSUME NEW h \in Calls, RejectJob(h) PROVE TypeOK'
  <2>1. chan' \in [Calls -> Seq(PjsipInvState)] /\ status' \in Statuses
    <3>1. CASE EndCall(h)
      BY <3>1, <1>states, OnCallStateType DEF EndCall
    <3>2. CASE UNCHANGED <<chan, status>>
      BY <3>2, <1>chan, <1>status DEF Statuses
    <3> QED
      BY <1>7, <3>1, <3>2 DEF RejectJob
  <2>2. inv' \in [Calls -> PjsipInvState]
    BY <1>7, <1>inv DEF RejectJob, EndCall, PjsipInvState
  <2>3. endedBy' \in [Calls -> Calls \cup {None}]
    BY <1>7, <1>endedBy DEF RejectJob, EndCall
  <2>4. occ' \in [Slots -> Calls \cup {None}]
    BY <1>7, <1>occ DEF RejectJob, EndCall
  <2>5. userData' \in [Slots -> Calls \cup {None}]
    BY <1>7, <1>userData DEF RejectJob, EndCall
  <2>6. job' \in [Calls -> Jobs]
    BY <1>7, <1>job DEF RejectJob, Jobs
  <2> QED
    BY <1>7, <2>1, <2>2, <2>3, <2>4, <2>5, <2>6 DEF TypeOK, RejectJob,
       accVars, idVars, pjsuaVars, handleVars, histVars
<1>8. ASSUME NEW a \in Accounts, AddAccount(a) PROVE TypeOK'
  <2>1. acc' \in [Accounts -> AccountStates]
    BY <1>8, <1>acc DEF AddAccount, AccountStates
  <2> QED
    BY <1>8, <2>1 DEF TypeOK, AddAccount,
       accVars, idVars, pjsuaVars, handleVars, histVars
<1>9. ASSUME NEW a \in Accounts, DropAccount(a) PROVE TypeOK'
  <2>1. acc' \in [Accounts -> AccountStates]
    BY <1>9, <1>acc DEF DropAccount, AccountStates
  <2>2. /\ queue' \in [Accounts -> Seq(Calls)]
       /\ \A b \in Accounts : Len(queue'[b]) <= IncomingCap
    BY <1>9, <1>queue, <1>cap DEF DropAccount
  <2> QED
    BY <1>9, <2>1, <2>2 DEF TypeOK, DropAccount,
       accVars, idVars, pjsuaVars, handleVars, histVars
<1>10. ASSUME NEW a \in Accounts, NextCall(a) PROVE TypeOK'
  <2>1. /\ queue' \in [Accounts -> Seq(Calls)]
       /\ \A b \in Accounts : Len(queue'[b]) <= IncomingCap
    BY <1>10, <1>queue, <1>cap DEF NextCall
  <2>2. box' \in [Calls -> {"none", "live", "freed"}]
    BY <1>10, <1>box DEF NextCall
  <2>3. stage' \in [Calls -> Stages]
    BY <1>10, <1>stage DEF NextCall, Stages
  <2>4. userData' \in [Slots -> Calls \cup {None}]
    <3>1. Head(queue[a]) \in Calls
      BY <1>10, <1>queue DEF NextCall
    <3> QED
      BY <1>10, <1>userData, <3>1 DEF NextCall
  <2> QED
    BY <1>10, <2>1, <2>2, <2>3, <2>4 DEF TypeOK, NextCall,
       accVars, idVars, pjsuaVars, handleVars, histVars
<1>11. ASSUME NEW h \in Calls, AnswerSessionProgress(h) PROVE TypeOK'
  <2>1. stage' \in [Calls -> Stages]
    BY <1>11, <1>stage DEF AnswerSessionProgress, Move, Stages
  <2> QED
    BY <1>11, <2>1 DEF TypeOK, AnswerSessionProgress,
       accVars, idVars, pjsuaVars, handleVars, histVars
<1>12. ASSUME NEW h \in Calls, Reject(h) PROVE TypeOK'
  <2>1. stage' \in [Calls -> Stages]
    BY <1>12, <1>stage DEF Reject, Move, Stages
  <2>2. job' \in [Calls -> Jobs]
    BY <1>12, <1>job DEF Reject, Jobs
  <2> QED
    BY <1>12, <2>1, <2>2 DEF TypeOK, Reject,
       accVars, idVars, pjsuaVars, handleVars, histVars
<1>13. ASSUME NEW h \in Calls, Add(h) PROVE TypeOK'
  <2>1. ports' \in [Calls -> [sink : PortStates, stream : PortStates]]
    BY <1>13, <1>ports DEF Add, PortStates
  <2>2. media' \in [Calls -> {"unsent", "sent"} \cup Calls]
    BY <1>13, <1>media DEF Add
  <2>3. job' \in [Calls -> Jobs]
    BY <1>13, <1>job DEF Add, Jobs
  <2>4. stage' \in [Calls -> Stages]
    BY <1>13, <1>stage DEF Add, Move, Stages
  <2> QED
    BY <1>13, <2>1, <2>2, <2>3, <2>4 DEF TypeOK, Add,
       accVars, idVars, pjsuaVars, handleVars, histVars
<1>14. ASSUME NEW h \in Calls, Answered(h) PROVE TypeOK'
  <2>1. stage' \in [Calls -> Stages]
    BY <1>14, <1>stage DEF Answered, Move, Stages
  <2> QED
    BY <1>14, <2>1 DEF TypeOK, Answered,
       accVars, idVars, pjsuaVars, handleVars, histVars
<1>15. ASSUME NEW h \in Calls, AwaitCallState(h) PROVE TypeOK'
  <2>1. chan' \in [Calls -> Seq(PjsipInvState)]
    BY <1>15, <1>chan DEF AwaitCallState, PjsipInvState
  <2>2. stage' \in [Calls -> Stages]
    BY <1>15, <1>stage DEF AwaitCallState, Move, Awaited, AfterAwait, Stages
  <2> QED
    BY <1>15, <2>1, <2>2 DEF TypeOK, AwaitCallState,
       accVars, idVars, pjsuaVars, handleVars, histVars
<1>16. ASSUME NEW h \in Calls, AwaitHangup(h) PROVE TypeOK'
  <2>1. stage' \in [Calls -> Stages]
    BY <1>16, <1>stage DEF AwaitHangup, Move, Stages
  <2> QED
    BY <1>16, <2>1 DEF TypeOK, AwaitHangup,
       accVars, idVars, pjsuaVars, handleVars, histVars
<1>17. ASSUME NEW h \in Calls, Drop(h) PROVE TypeOK'
  <2>1. stage' \in [Calls -> Stages]
    BY <1>17, <1>stage DEF Drop, Move, Stages
  <2> QED
    BY <1>17, <2>1 DEF TypeOK, Drop,
       accVars, idVars, pjsuaVars, handleVars, histVars
<1>18. ASSUME NEW h \in Calls, Hangup(h) PROVE TypeOK'
  <2>1. stage' \in [Calls -> Stages]
    BY <1>18, <1>stage DEF Hangup, Move, Stages
  <2> QED
    BY <1>18, <2>1 DEF TypeOK, Hangup,
       accVars, idVars, pjsuaVars, handleVars, histVars
<1>19. ASSUME NEW h \in Calls, Rejected(h) PROVE TypeOK'
  <2>1. stage' \in [Calls -> Stages]
    BY <1>19, <1>stage DEF Rejected, Move, Stages
  <2> QED
    BY <1>19, <2>1 DEF TypeOK, Rejected,
       accVars, idVars, pjsuaVars, handleVars, histVars
<1>20. ASSUME NEW h \in Calls, CheckActive(h) PROVE TypeOK'
  <2>1. stage' \in [Calls -> Stages]
    BY <1>20, <1>stage DEF CheckActive, FreeHandle, Stages
  <2>2. box' \in [Calls -> {"none", "live", "freed"}]
    BY <1>20, <1>box DEF CheckActive, FreeHandle
  <2>3. job' \in [Calls -> Jobs]
    BY <1>20, <1>job DEF CheckActive, FreeHandle, Jobs
  <2> QED
    BY <1>20, <2>1, <2>2, <2>3 DEF TypeOK, CheckActive,
       accVars, idVars, pjsuaVars, handleVars, histVars
<1>21. ASSUME NEW h \in Calls, HangupCall(h) PROVE TypeOK'
  <2>1. chan' \in [Calls -> Seq(PjsipInvState)] /\ status' \in Statuses
    <3>1. CASE EndCall(h)
      BY <3>1, <1>states, OnCallStateType DEF EndCall
    <3>2. CASE UNCHANGED chan /\ status' = "hangup_failed"
      BY <3>2, <1>chan, <1>status DEF Statuses
    <3> QED
      BY <1>21, <3>1, <3>2 DEF HangupCall
  <2>2. inv' \in [Calls -> PjsipInvState]
    BY <1>21, <1>inv DEF HangupCall, EndCall, PjsipInvState
  <2>3. endedBy' \in [Calls -> Calls \cup {None}]
    BY <1>21, <1>endedBy DEF HangupCall, EndCall
  <2>4. occ' \in [Slots -> Calls \cup {None}]
    BY <1>21, <1>occ DEF HangupCall, EndCall
  <2>5. userData' \in [Slots -> Calls \cup {None}]
    BY <1>21, <1>userData DEF HangupCall, EndCall
  <2>6. box' \in [Calls -> {"none", "live", "freed"}]
    BY <1>21, <1>box DEF HangupCall, FreeHandle
  <2>7. job' \in [Calls -> Jobs]
    BY <1>21, <1>job DEF HangupCall, FreeHandle, Jobs
  <2>8. stage' \in [Calls -> Stages]
    BY <1>21, <1>stage DEF HangupCall, FreeHandle, Stages
  <2> QED
    BY <1>21, <2>1, <2>2, <2>3, <2>4, <2>5, <2>6, <2>7, <2>8 DEF TypeOK, HangupCall,
       accVars, idVars, pjsuaVars, handleVars, histVars
<1>22. ASSUME NEW h \in Calls, DropPorts(h) PROVE TypeOK'
  <2>1. ports' \in [Calls -> [sink : PortStates, stream : PortStates]]
    BY <1>22, <1>ports DEF DropPorts, PortStates
  <2>2. stage' \in [Calls -> Stages]
    BY <1>22, <1>stage DEF DropPorts, Stages
  <2>3. status' \in Statuses
    BY <1>22, <1>status DEF DropPorts, Statuses
  <2> QED
    BY <1>22, <2>1, <2>2, <2>3 DEF TypeOK, DropPorts,
       accVars, idVars, pjsuaVars, handleVars, histVars
<1>23. CASE UNCHANGED vars
  BY <1>23 DEF TypeOK, vars, accVars, idVars, pjsuaVars, handleVars, histVars
<1> QED
  BY <1>1, <1>2, <1>3, <1>reads, <1>4, <1>5, <1>6, <1>7, <1>8, <1>9, <1>10, <1>11, <1>12, <1>13, <1>14, <1>15, <1>16, <1>17, <1>18, <1>19, <1>20, <1>21, <1>22, <1>23 DEF Next, Worker, Pool, Owner

\* Every variable keeps its type, and no channel of incoming calls holds more
\* than its capacity.
THEOREM TypeCorrect == Spec => []TypeOK
BY TypeInit, TypeStep, PTL DEF Spec

-----------------------------------------------------------------------------
(* The call table                                                           *)

\* pjsua's table is empty at first.
LEMMA TableInit == Init => TableInv
BY CallAssumption DEF Init, TableInv, SessionStates, Active

\* A hangup request leaves the table consistent.
LEMMA EndCallTable ==
  ASSUME TypeOK, TableInv, NEW h \in Calls, slotOf[h] \in Slots,
         SlotActive(slotOf[h]), EndCall(h), UNCHANGED <<slotOf, cbPtr>>
  PROVE  TableInv'
<1>1. /\ occ \in [Slots -> Calls \cup {None}]
      /\ inv \in [Calls -> PjsipInvState]
      /\ slotOf \in [Calls -> Slots \cup {None}]
  BY DEF TypeOK
<1> DEFINE s == slotOf[h]
           c == occ[s]
<1>2. c \in Calls /\ c # None /\ Active(c) /\ slotOf[c] = s
  BY <1>1, CallAssumption DEF SlotActive, TableInv
<1>3. /\ inv' = [inv EXCEPT ![c] = "Disconnected"]
      /\ occ' = [occ EXCEPT ![s] = None]
  BY DEF EndCall
<1>4. cbPtr[s] = Idle
  BY <1>2 DEF TableInv, Active
<1> QED
  BY <1>1, <1>2, <1>3, <1>4, CallAssumption DEF TableInv, Active, SessionStates

\* No step leaves an active call without its entry, or an entry with another call.
LEMMA TableStep ==
  ASSUME TypeOK, TableInv, BegunInv, [Next]_vars
  PROVE  TableInv'
<1>1. /\ occ \in [Slots -> Calls \cup {None}]
      /\ inv \in [Calls -> PjsipInvState]
      /\ slotOf \in [Calls -> Slots \cup {None}]
      /\ cbPtr \in [Slots -> Calls \cup {None, Idle}]
      /\ userData \in [Slots -> Calls \cup {None}]
  BY DEF TypeOK
<1>2. None \notin Calls \cup Slots /\ Idle \notin Calls \cup {None}
  BY CallAssumption
<1>3. CASE UNCHANGED <<slotOf, occ, inv, cbPtr>>
  BY <1>3 DEF TableInv, Active
<1>4. ASSUME NEW c \in Calls, NEW a \in Accounts, NEW s \in Slots, IncomingCall(c, a, s)
      PROVE  TableInv'
  <2>1. /\ inv[c] = "Null" /\ occ[s] = None
        /\ slotOf' = [slotOf EXCEPT ![c] = s]
        /\ occ' = [occ EXCEPT ![s] = c]
        /\ inv' = [inv EXCEPT ![c] = "Incoming"]
        /\ cbPtr' = cbPtr
    BY <1>4 DEF IncomingCall
  <2> QED
    BY <1>1, <1>2, <2>1 DEF TableInv, Active, SessionStates
<1>5. ASSUME NEW c \in Calls, Confirm(c) PROVE TableInv'
  BY <1>1, <1>2, <1>5 DEF Confirm, idVars, TableInv, Active, SessionStates
<1>6. ASSUME NEW c \in Calls, RemoteEnd(c) PROVE TableInv'
  BY <1>1, <1>2, <1>6 DEF RemoteEnd, idVars, TableInv, Active, SessionStates
<1>reads. ASSUME NEW s \in Slots, RemoteEndReads(s) PROVE TableInv'
  BY <1>1, <1>2, <1>reads DEF RemoteEndReads, idVars, TableInv, Active
<1>7. ASSUME NEW s \in Slots, RemoteEndReported(s) PROVE TableInv'
  BY <1>1, <1>2, <1>7 DEF RemoteEndReported, idVars, TableInv, Active, SessionStates
<1>8. ASSUME NEW h \in Calls, AnswerJob(h) PROVE TableInv'
  BY <1>1, <1>2, <1>8
     DEF AnswerJob, Ringing, idVars, TableInv, BegunInv, Active, SessionStates
<1>9. ASSUME NEW h \in Calls, RejectJob(h) PROVE TableInv'
  <2>1. slotOf[h] \in Slots
    BY <1>9 DEF RejectJob, BegunInv, TableInv
  <2>2. CASE SlotActive(slotOf[h]) /\ EndCall(h)
    BY <1>9, <2>1, <2>2, EndCallTable DEF RejectJob, idVars
  <2>3. CASE UNCHANGED <<inv, occ>>
    BY <1>3, <1>9, <2>3 DEF RejectJob, idVars
  <2> QED
    BY <1>9, <2>2, <2>3 DEF RejectJob
<1>10. ASSUME NEW h \in Calls, HangupCall(h) PROVE TableInv'
  <2>1. slotOf[h] \in Slots
    BY <1>10 DEF HangupCall, BegunInv, TableInv
  <2>2. CASE SlotActive(slotOf[h]) /\ EndCall(h)
    BY <1>10, <2>1, <2>2, EndCallTable DEF HangupCall, idVars
  <2>3. CASE UNCHANGED <<inv, occ>>
    BY <1>3, <1>10, <2>3 DEF HangupCall, idVars
  <2> QED
    BY <1>10, <2>2, <2>3 DEF HangupCall
<1>11. ASSUME NEW h \in Calls,
              \/ AnswerSessionProgress(h) \/ Reject(h) \/ Add(h) \/ Answered(h)
              \/ AwaitCallState(h) \/ AwaitHangup(h) \/ Drop(h) \/ Hangup(h) \/ Rejected(h)
              \/ CheckActive(h) \/ DropPorts(h)
       PROVE  TableInv'
  BY <1>3, <1>11 DEF AnswerSessionProgress, Reject, Add, Answered, AwaitCallState,
     AwaitHangup, Drop, Hangup, Rejected, CheckActive, DropPorts, idVars, pjsuaVars
<1>12. ASSUME NEW a \in Accounts, AddAccount(a) \/ DropAccount(a) \/ NextCall(a)
       PROVE  TableInv'
  BY <1>3, <1>12 DEF AddAccount, DropAccount, NextCall, idVars, pjsuaVars
<1>13. ASSUME NEW s \in Slots, OnCallMediaState(s) PROVE TableInv'
  BY <1>3, <1>13 DEF OnCallMediaState, idVars, pjsuaVars
<1>14. CASE UNCHANGED vars
  BY <1>3, <1>14 DEF vars, idVars, pjsuaVars
<1> QED
  BY <1>reads, <1>4, <1>5, <1>6, <1>7, <1>8, <1>9, <1>10, <1>11, <1>12, <1>13, <1>14
     DEF Next, Worker, Pool, Owner

-----------------------------------------------------------------------------
(* Queues and handles                                                       *)

\* At first no call has begun.
LEMMA BegunInit == Init => BegunInv
BY DEF Init, BegunInv

\* A step that leaves the queues alone, and changes only handles and jobs that
\* were begun.
LEMMA BegunFrame ==
  ASSUME TypeOK, BegunInv, UNCHANGED <<queue, accOf>>,
         \A x \in Calls :
            /\ inv[x] # "Null" => inv'[x] # "Null"
            /\ stage'[x] = stage[x] \/ (inv[x] # "Null" /\ stage[x] # "none")
            /\ box'[x] = box[x] \/ (inv[x] # "Null" /\ stage[x] # "none")
            /\ job'[x] = job[x] \/ inv[x] # "Null"
  PROVE  BegunInv'
<1>1. queue \in [Accounts -> Seq(Calls)]
  BY DEF TypeOK
<1>2. \A h \in Calls : stage'[h] # "none" \/ box'[h] # "none" \/ job'[h] # "none" =>
          inv'[h] # "Null"
  BY DEF BegunInv
<1>3. ASSUME NEW a \in Accounts, NEW i \in 1..Len(queue[a])
      PROVE  LET h == queue[a][i]
             IN  accOf'[h] = a /\ inv'[h] # "Null" /\ box'[h] = "none" /\ stage'[h] = "none"
  <2>1. queue[a][i] \in Calls
    BY <1>1
  <2> QED
    BY <2>1 DEF BegunInv
<1> QED
  BY <1>2, <1>3 DEF BegunInv

\* Calls are queued once, when they arrive, and get their handle from the queue.
LEMMA BegunStep ==
  ASSUME TypeOK, TableInv, BegunInv, [Next]_vars
  PROVE  BegunInv'
<1>1. /\ queue \in [Accounts -> Seq(Calls)]
      /\ accOf \in [Calls -> Accounts \cup {None}]
      /\ inv \in [Calls -> PjsipInvState]
      /\ stage \in [Calls -> Stages]
      /\ box \in [Calls -> {"none", "live", "freed"}]
      /\ job \in [Calls -> Jobs]
  BY DEF TypeOK
<1>2. ASSUME NEW c \in Calls, NEW a \in Accounts, NEW s \in Slots, IncomingCall(c, a, s)
      PROVE  BegunInv'
  <2>1. /\ inv[c] = "Null"
        /\ inv' = [inv EXCEPT ![c] = "Incoming"]
        /\ accOf' = [accOf EXCEPT ![c] = a]
        /\ UNCHANGED <<stage, box, job>>
    BY <1>2 DEF IncomingCall, handleVars
  <2>2. stage[c] = "none" /\ box[c] = "none"
    BY <2>1 DEF BegunInv
  <2>3. \A h \in Calls : stage'[h] # "none" \/ box'[h] # "none" \/ job'[h] # "none" =>
            inv'[h] # "Null"
    BY <1>1, <2>1 DEF BegunInv
  <2>4. \A b \in Accounts : \A i \in 1..Len(queue[b]) :
            /\ queue[b][i] \in Calls /\ queue[b][i] # c
            /\ accOf'[queue[b][i]] = b /\ inv'[queue[b][i]] # "Null"
            /\ box'[queue[b][i]] = "none" /\ stage'[queue[b][i]] = "none"
    BY <1>1, <2>1 DEF BegunInv
  <2>5. CASE queue' = queue
    BY <2>3, <2>4, <2>5 DEF BegunInv
  <2>6. CASE queue' = [queue EXCEPT ![a] = Append(@, c)]
    <3>1. /\ queue'[a] = Append(queue[a], c)
          /\ \A b \in Accounts \ {a} : queue'[b] = queue[b]
      BY <1>1, <2>6
    <3>2. /\ Len(queue'[a]) = Len(queue[a]) + 1
          /\ \A i \in 1..Len(queue[a]) : queue'[a][i] = queue[a][i]
          /\ queue'[a][Len(queue[a]) + 1] = c
          /\ Len(queue[a]) \in Nat
      BY <1>1, <3>1
    <3>3. \A b \in Accounts : \A i \in 1..Len(queue'[b]) :
              LET h == queue'[b][i]
              IN  accOf'[h] = b /\ inv'[h] # "Null" /\ box'[h] = "none" /\ stage'[h] = "none"
      <4> TAKE b \in Accounts
      <4>1. CASE b # a
        BY <2>4, <3>1, <4>1
      <4>2. CASE b = a
        <5> TAKE i \in 1..Len(queue'[b])
        <5>1. CASE i \in 1..Len(queue[a])
          BY <2>4, <3>2, <4>2, <5>1
        <5>2. CASE i = Len(queue[a]) + 1
          BY <1>1, <2>1, <2>2, <3>2, <4>2, <5>2
        <5> QED
          BY <3>2, <4>2, <5>1, <5>2
      <4> QED
        BY <4>1, <4>2
    <3>4. \A b \in Accounts : \A i, j \in 1..Len(queue'[b]) :
              queue'[b][i] = queue'[b][j] => i = j
      <4> TAKE b \in Accounts
      <4>1. CASE b # a
        BY <3>1, <4>1 DEF BegunInv
      <4>2. CASE b = a
        <5> TAKE i, j \in 1..Len(queue'[b])
        <5>1. /\ i \in 1..Len(queue[a]) \/ i = Len(queue[a]) + 1
              /\ j \in 1..Len(queue[a]) \/ j = Len(queue[a]) + 1
          BY <3>2, <4>2
        <5> QED
          BY <2>4, <3>2, <4>2, <5>1 DEF BegunInv
      <4> QED
        BY <4>1, <4>2
    <3> QED
      BY <2>3, <3>3, <3>4 DEF BegunInv
  <2> QED
    BY <1>2, <2>5, <2>6 DEF IncomingCall, OnIncomingCall
<1>3. ASSUME NEW a \in Accounts, NextCall(a) PROVE BegunInv'
  <2> DEFINE h == Head(queue[a])
  <2>1. /\ queue[a] # <<>>
        /\ queue' = [queue EXCEPT ![a] = Tail(@)]
        /\ UNCHANGED <<accOf, inv, job>>
        /\ \A x \in Calls \ {h} : stage'[x] = stage[x] /\ box'[x] = box[x]
    BY <1>1, <1>3 DEF NextCall, idVars
  <2>2. /\ Len(queue[a]) \in Nat \ {0} /\ h = queue[a][1] /\ h \in Calls
        /\ Tail(queue[a]) \in Seq(Calls)
        /\ Len(Tail(queue[a])) = Len(queue[a]) - 1
        /\ \A i \in 1..(Len(queue[a]) - 1) : Tail(queue[a])[i] = queue[a][i + 1]
    BY <1>1, <2>1
  <2>3. inv[h] # "Null" /\ accOf[h] = a
    BY <2>2 DEF BegunInv
  <2>4. \A x \in Calls : stage'[x] # "none" \/ box'[x] # "none" \/ job'[x] # "none" =>
            inv'[x] # "Null"
    BY <2>1, <2>3 DEF BegunInv
  <2>5. /\ queue'[a] = Tail(queue[a])
        /\ \A b \in Accounts \ {a} : queue'[b] = queue[b]
    BY <1>1, <2>1
  <2>6. ASSUME NEW b \in Accounts, b # a, NEW i \in 1..Len(queue'[b])
        PROVE  LET x == queue'[b][i]
               IN  accOf'[x] = b /\ inv'[x] # "Null" /\ box'[x] = "none" /\ stage'[x] = "none"
    <3>1. queue'[b][i] = queue[b][i] /\ i \in 1..Len(queue[b]) /\ queue[b][i] \in Calls
      BY <1>1, <2>5, <2>6
    <3>2. accOf[queue[b][i]] = b
      BY <3>1 DEF BegunInv
    <3>3. queue[b][i] # h
      BY <2>3, <2>6, <3>2
    <3> QED
      BY <2>1, <3>1, <3>3 DEF BegunInv
  <2>7. ASSUME NEW i \in 1..Len(queue'[a])
        PROVE  LET x == queue'[a][i]
               IN  accOf'[x] = a /\ inv'[x] # "Null" /\ box'[x] = "none" /\ stage'[x] = "none"
    <3>1. i + 1 \in 1..Len(queue[a]) /\ i + 1 # 1 /\ queue'[a][i] = queue[a][i + 1]
      BY <2>2, <2>5, <2>7
    <3>2. queue[a][i + 1] \in Calls
      BY <1>1, <3>1
    <3>3. queue[a][i + 1] # h
      BY <2>2, <3>1 DEF BegunInv
    <3> QED
      BY <2>1, <3>1, <3>2, <3>3 DEF BegunInv
  <2>8. ASSUME NEW b \in Accounts, NEW i \in 1..Len(queue'[b]), NEW j \in 1..Len(queue'[b]),
               queue'[b][i] = queue'[b][j]
        PROVE  i = j
    <3>1. CASE b # a
      BY <2>5, <2>8, <3>1 DEF BegunInv
    <3>2. CASE b = a
      <4>1. i \in 1..(Len(queue[a]) - 1) /\ j \in 1..(Len(queue[a]) - 1)
        BY <2>2, <2>5, <3>2
      <4>2. /\ i + 1 \in 1..Len(queue[a]) /\ queue'[a][i] = queue[a][i + 1]
            /\ j + 1 \in 1..Len(queue[a]) /\ queue'[a][j] = queue[a][j + 1]
        BY <2>2, <2>5, <4>1
      <4>3. i + 1 = j + 1
        BY <2>8, <3>2, <4>2 DEF BegunInv
      <4> QED
        BY <4>1, <4>3
    <3> QED
      BY <3>1, <3>2
  <2> QED
    BY <2>4, <2>6, <2>7, <2>8 DEF BegunInv
<1>4. ASSUME NEW a \in Accounts, AddAccount(a) \/ DropAccount(a) PROVE BegunInv'
  <2>1. UNCHANGED <<accOf, inv, stage, box, job>>
    BY <1>4 DEF AddAccount, DropAccount, idVars, pjsuaVars, handleVars
  <2>2. \A b \in Accounts : queue'[b] = queue[b] \/ queue'[b] = <<>>
    BY <1>1, <1>4 DEF AddAccount, DropAccount
  <2> QED
    BY <2>1, <2>2 DEF BegunInv
<1>5. ASSUME NEW c \in Calls, Confirm(c) \/ RemoteEnd(c) PROVE BegunInv'
  BY <1>1, <1>5, BegunFrame DEF Confirm, RemoteEnd, accVars, idVars, handleVars
<1>6. ASSUME NEW s \in Slots,
             RemoteEndReads(s) \/ RemoteEndReported(s) \/ OnCallMediaState(s)
      PROVE  BegunInv'
  BY <1>1, <1>6, BegunFrame
     DEF RemoteEndReads, RemoteEndReported, OnCallMediaState, accVars, idVars, pjsuaVars,
         handleVars
<1>7. ASSUME NEW h \in Calls, AnswerJob(h) PROVE BegunInv'
  <2>1. inv[h] # "Null"
    BY <1>7 DEF AnswerJob, BegunInv
  <2>2. \A x \in Calls : inv'[x] = inv[x] \/ inv'[x] = "Connecting"
    BY <1>1, <1>7 DEF AnswerJob
  <2> QED
    BY <1>1, <1>7, <2>1, <2>2, BegunFrame DEF AnswerJob, accVars, idVars
<1>8. ASSUME NEW h \in Calls, RejectJob(h) PROVE BegunInv'
  <2>1. inv[h] # "Null"
    BY <1>8 DEF RejectJob, BegunInv
  <2>2. \A x \in Calls : inv'[x] = inv[x] \/ inv'[x] = "Disconnected"
    BY <1>1, <1>8 DEF RejectJob, EndCall
  <2> QED
    BY <1>1, <1>8, <2>1, <2>2, BegunFrame DEF RejectJob, accVars, idVars
<1>9. ASSUME NEW h \in Calls, HangupCall(h) PROVE BegunInv'
  <2>1. inv[h] # "Null" /\ stage[h] # "none"
    BY <1>9 DEF HangupCall, BegunInv
  <2>2. \A x \in Calls : inv'[x] = inv[x] \/ inv'[x] = "Disconnected"
    BY <1>1, <1>9 DEF HangupCall, EndCall
  <2>3. \A x \in Calls \ {h} : stage'[x] = stage[x] /\ box'[x] = box[x] /\ job'[x] = job[x]
    BY <1>1, <1>9 DEF HangupCall, FreeHandle
  <2> QED
    BY <1>9, <2>1, <2>2, <2>3, BegunFrame DEF HangupCall, accVars, idVars
<1>10. ASSUME NEW h \in Calls,
              \/ AnswerSessionProgress(h) \/ Reject(h) \/ Add(h) \/ Answered(h)
              \/ AwaitCallState(h) \/ AwaitHangup(h) \/ Drop(h) \/ Hangup(h) \/ Rejected(h)
              \/ CheckActive(h) \/ DropPorts(h)
       PROVE  BegunInv'
  <2>1. UNCHANGED <<queue, accOf, inv>>
    BY <1>10 DEF AnswerSessionProgress, Reject, Add, Answered, AwaitCallState,
       AwaitHangup, Drop, Hangup, Rejected, CheckActive, DropPorts, accVars, idVars,
       pjsuaVars
  <2>2. stage[h] # "none"
    BY <1>10 DEF AnswerSessionProgress, Reject, Add, Answered, AwaitCallState, Move,
       Awaited, AwaitHangup, Drop, Hangup, Rejected, CheckActive, DropPorts
  <2>3. \A x \in Calls \ {h} : stage'[x] = stage[x] /\ box'[x] = box[x] /\ job'[x] = job[x]
    BY <1>1, <1>10 DEF AnswerSessionProgress, Reject, Add, Answered, AwaitCallState,
       Move, AwaitHangup, Drop, Hangup, Rejected, CheckActive, FreeHandle, DropPorts
  <2>4. inv[h] # "Null"
    BY <2>2 DEF BegunInv
  <2> QED
    BY <2>1, <2>2, <2>3, <2>4, BegunFrame
<1>11. CASE UNCHANGED vars
  BY <1>11 DEF vars, accVars, idVars, pjsuaVars, handleVars, BegunInv
<1> QED
  BY <1>2, <1>3, <1>4, <1>5, <1>6, <1>7, <1>8, <1>9, <1>10, <1>11
     DEF Next, Worker, Pool, Owner

-----------------------------------------------------------------------------
(* The user data pointers                                                   *)

\* pjsua holds no pointer at first.
LEMMA PointerInit == Init => PointerInv /\ ActiveCallDataLive
BY CallAssumption DEF Init, PointerInv, ActiveCallDataLive, SlotActive

\* A step that gives pjsua no new pointer and takes no box away from memory.
LEMMA PointerFrame ==
  ASSUME TypeOK, PointerInv, UNCHANGED slotOf,
         \A x \in Calls : box[x] # "none" => box'[x] # "none",
         \A s \in Slots : /\ userData'[s] \in {userData[s], None}
                          /\ cbPtr'[s] \in {cbPtr[s], userData[s], Idle}
  PROVE  PointerInv'
<1>1. /\ userData \in [Slots -> Calls \cup {None}]
      /\ cbPtr \in [Slots -> Calls \cup {None, Idle}]
      /\ None \notin Calls /\ Idle \notin Calls
  BY CallAssumption DEF TypeOK
<1>2. ASSUME NEW s \in Slots, userData'[s] # None
      PROVE  slotOf'[userData'[s]] = s /\ box'[userData'[s]] # "none"
  <2>1. userData'[s] = userData[s] /\ userData[s] \in Calls
    BY <1>1, <1>2
  <2> QED
    BY <1>2, <2>1 DEF PointerInv
<1>3. ASSUME NEW s \in Slots, cbPtr'[s] \in Calls
      PROVE  slotOf'[cbPtr'[s]] = s /\ box'[cbPtr'[s]] # "none"
  BY <1>1, <1>3 DEF PointerInv
<1> QED
  BY <1>2, <1>3 DEF PointerInv

\* pjsua is only ever lent boxes that were made, by handles of the entry.
LEMMA PointerStep ==
  ASSUME TypeOK, TableInv, BegunInv, PointerInv, [Next]_vars
  PROVE  PointerInv'
<1>1. /\ slotOf \in [Calls -> Slots \cup {None}]
      /\ userData \in [Slots -> Calls \cup {None}]
      /\ cbPtr \in [Slots -> Calls \cup {None, Idle}]
      /\ box \in [Calls -> {"none", "live", "freed"}]
      /\ queue \in [Accounts -> Seq(Calls)]
      /\ None \notin Calls \cup Slots /\ Idle \notin Calls \cup {None}
  BY CallAssumption DEF TypeOK
<1>2. ASSUME NEW c \in Calls, NEW a \in Accounts, NEW s \in Slots, IncomingCall(c, a, s)
      PROVE  PointerInv'
  <2>1. /\ inv[c] = "Null"
        /\ slotOf' = [slotOf EXCEPT ![c] = s]
        /\ userData' = [userData EXCEPT ![s] = None]
        /\ UNCHANGED <<cbPtr, box>>
    BY <1>2 DEF IncomingCall, handleVars
  <2>2. box[c] = "none"
    BY <2>1 DEF BegunInv
  <2> QED
    BY <1>1, <2>1, <2>2 DEF PointerInv
<1>3. ASSUME NEW a \in Accounts, NextCall(a) PROVE PointerInv'
  <2> DEFINE h == Head(queue[a])
  <2>1. /\ h \in Calls /\ h = queue[a][1] /\ 1 \in 1..Len(queue[a])
        /\ UNCHANGED <<slotOf, cbPtr>>
    BY <1>1, <1>3 DEF NextCall, idVars
  <2>2. inv[h] # "Null" /\ slotOf[h] \in Slots
    BY <2>1 DEF BegunInv, TableInv
  <2>3. /\ box'[h] # "none"
        /\ \A x \in Calls \ {h} : box'[x] = box[x]
        /\ \A s \in Slots : userData'[s] = userData[s] \/ (userData'[s] = h /\ s = slotOf[h])
    BY <1>1, <1>3, <2>1 DEF NextCall
  <2>4. \A s \in Slots : userData'[s] # None =>
            slotOf[userData'[s]] = s /\ box'[userData'[s]] # "none"
    BY <1>1, <2>2, <2>3 DEF PointerInv
  <2>5. \A s \in Slots : cbPtr[s] \in Calls =>
            slotOf[cbPtr[s]] = s /\ box'[cbPtr[s]] # "none"
    BY <1>1, <2>3 DEF PointerInv
  <2> QED
    BY <2>1, <2>4, <2>5 DEF PointerInv
<1>4. ASSUME NEW c \in Calls, Confirm(c) \/ RemoteEnd(c) PROVE PointerInv'
  BY <1>1, <1>4, PointerFrame DEF Confirm, RemoteEnd, idVars, handleVars
<1>5. ASSUME NEW s \in Slots,
             RemoteEndReads(s) \/ RemoteEndReported(s) \/ OnCallMediaState(s)
      PROVE  PointerInv'
  BY <1>1, <1>5, PointerFrame
     DEF RemoteEndReads, RemoteEndReported, OnCallMediaState, idVars, pjsuaVars, handleVars
<1>6. ASSUME NEW h \in Calls, AnswerJob(h) PROVE PointerInv'
  BY <1>1, <1>6, PointerFrame DEF AnswerJob, idVars
<1>7. ASSUME NEW h \in Calls, RejectJob(h) PROVE PointerInv'
  BY <1>1, <1>7, PointerFrame DEF RejectJob, EndCall, idVars
<1>8. ASSUME NEW h \in Calls, CheckActive(h) PROVE PointerInv'
  BY <1>1, <1>8, PointerFrame DEF CheckActive, FreeHandle, idVars, pjsuaVars
<1>9. ASSUME NEW h \in Calls, HangupCall(h) PROVE PointerInv'
  BY <1>1, <1>9, PointerFrame DEF HangupCall, EndCall, FreeHandle, idVars
<1>10. ASSUME NEW h \in Calls,
              \/ AnswerSessionProgress(h) \/ Reject(h) \/ Add(h) \/ Answered(h)
              \/ AwaitCallState(h) \/ AwaitHangup(h) \/ Drop(h) \/ Hangup(h) \/ Rejected(h)
              \/ DropPorts(h)
       PROVE  PointerInv'
  <2>1. UNCHANGED <<slotOf, userData, cbPtr, box>>
    BY <1>10 DEF AnswerSessionProgress, Reject, Add, Answered, AwaitCallState,
       AwaitHangup, Drop, Hangup, Rejected, DropPorts, idVars, pjsuaVars
  <2> QED
    BY <2>1, PointerFrame
<1>11. ASSUME NEW a \in Accounts, AddAccount(a) \/ DropAccount(a) PROVE PointerInv'
  BY <1>11, PointerFrame DEF AddAccount, DropAccount, idVars, pjsuaVars, handleVars
<1>12. CASE UNCHANGED vars
  BY <1>12, PointerFrame DEF vars, idVars, pjsuaVars, handleVars
<1> QED
  BY <1>2, <1>3, <1>4, <1>5, <1>6, <1>7, <1>8, <1>9, <1>10, <1>11, <1>12
     DEF Next, Worker, Pool, Owner

\* A step that makes no call active, lends no pointer, and frees only the box of
\* a handle whose entry holds no active call.
LEMMA DataLiveFrame ==
  ASSUME TypeOK, PointerInv, ActiveCallDataLive,
         \A s \in Slots : SlotActive(s)' /\ userData'[s] # None =>
                              SlotActive(s) /\ userData'[s] = userData[s],
         \A x \in Calls : \/ box'[x] = box[x]
                          \/ \E s \in Slots : s = slotOf[x] /\ ~SlotActive(s)'
  PROVE  ActiveCallDataLive'
<1>1. userData \in [Slots -> Calls \cup {None}]
  BY DEF TypeOK
<1>2. ASSUME NEW s \in Slots, SlotActive(s)', userData'[s] # None
      PROVE  box'[userData'[s]] = "live"
  <2>1. /\ userData'[s] = userData[s] /\ userData[s] \in Calls
        /\ box[userData[s]] = "live" /\ slotOf[userData[s]] = s
    BY <1>1, <1>2 DEF PointerInv, ActiveCallDataLive
  <2> QED
    BY <1>2, <2>1
<1> QED
  BY <1>2 DEF ActiveCallDataLive

\* No step frees the user data of a call that has not ended.
LEMMA DataLiveStep ==
  ASSUME TypeOK, TableInv, BegunInv, PointerInv, ActiveCallDataLive, [Next]_vars
  PROVE  ActiveCallDataLive'
<1>1. /\ occ \in [Slots -> Calls \cup {None}]
      /\ inv \in [Calls -> PjsipInvState]
      /\ slotOf \in [Calls -> Slots \cup {None}]
      /\ userData \in [Slots -> Calls \cup {None}]
      /\ box \in [Calls -> {"none", "live", "freed"}]
      /\ queue \in [Accounts -> Seq(Calls)]
      /\ None \notin Calls \cup Slots
  BY CallAssumption DEF TypeOK
<1>2. ASSUME UNCHANGED <<occ, inv, userData, box>> PROVE ActiveCallDataLive'
  BY <1>2 DEF ActiveCallDataLive, SlotActive, Active
<1>3. ASSUME NEW c \in Calls, NEW a \in Accounts, NEW s \in Slots, IncomingCall(c, a, s)
      PROVE  ActiveCallDataLive'
  <2>1. /\ inv[c] = "Null"
        /\ occ' = [occ EXCEPT ![s] = c]
        /\ inv' = [inv EXCEPT ![c] = "Incoming"]
        /\ userData' = [userData EXCEPT ![s] = None]
        /\ UNCHANGED box
    BY <1>3 DEF IncomingCall, handleVars
  <2>2. \A t \in Slots \ {s} : SlotActive(t)' => SlotActive(t)
    BY <1>1, <2>1 DEF SlotActive, Active, TableInv
  <2> QED
    BY <1>1, <2>1, <2>2 DEF ActiveCallDataLive
<1>4. ASSUME NEW a \in Accounts, NextCall(a) PROVE ActiveCallDataLive'
  <2> DEFINE h == Head(queue[a])
  <2>1. /\ h \in Calls /\ h = queue[a][1] /\ 1 \in 1..Len(queue[a])
        /\ UNCHANGED <<occ, inv>>
    BY <1>1, <1>4 DEF NextCall
  <2>2. box[h] = "none"
    BY <2>1 DEF BegunInv
  <2>3. \A s \in Slots : SlotActive(s)' = SlotActive(s)
    BY <2>1 DEF SlotActive, Active
  <2>4. \A s \in Slots : userData[s] # h
    BY <2>1, <2>2, <1>1 DEF PointerInv
  <2>5. /\ \A x \in Calls \ {h} : box'[x] = box[x]
        /\ \A s \in Slots : \/ userData'[s] = userData[s]
                            \/ userData'[s] = h /\ box'[h] = "live"
    BY <1>1, <1>4, <2>1 DEF NextCall
  <2> QED
    BY <1>1, <2>3, <2>4, <2>5 DEF ActiveCallDataLive
<1>5. ASSUME NEW c \in Calls, Confirm(c) \/ RemoteEnd(c) PROVE ActiveCallDataLive'
  <2>1. UNCHANGED <<occ, userData, box>>
    BY <1>5 DEF Confirm, RemoteEnd, handleVars
  <2>2. \A s \in Slots : SlotActive(s)' => SlotActive(s)
    BY <1>1, <1>5, <2>1 DEF Confirm, RemoteEnd, SlotActive, Active
  <2> QED
    BY <2>1, <2>2, DataLiveFrame
<1>6. ASSUME NEW s \in Slots, RemoteEndReported(s) PROVE ActiveCallDataLive'
  <2>1. \A t \in Slots : SlotActive(t)' => SlotActive(t) /\ userData'[t] = userData[t]
    BY <1>1, <1>6 DEF RemoteEndReported, SlotActive, Active
  <2> QED
    BY <1>6, <2>1, DataLiveFrame DEF RemoteEndReported
<1>7. ASSUME NEW h \in Calls, AnswerJob(h) PROVE ActiveCallDataLive'
  <2>1. UNCHANGED <<occ, userData, box>>
    BY <1>7 DEF AnswerJob
  <2>2. \A s \in Slots : SlotActive(s)' => SlotActive(s)
    BY <1>1, <1>7, <2>1 DEF AnswerJob, Ringing, SlotActive, Active
  <2> QED
    BY <2>1, <2>2, DataLiveFrame
<1>8. ASSUME NEW h \in Calls, slotOf[h] \in Slots, EndCall(h)
      PROVE  /\ \E s \in Slots : s = slotOf[h] /\ ~SlotActive(s)'
             /\ \A t \in Slots : SlotActive(t)' => SlotActive(t) /\ userData'[t] = userData[t]
  <2>0. PICK s \in Slots : s = slotOf[h]
    BY <1>8
  <2>1. /\ occ' = [occ EXCEPT ![s] = None]
        /\ inv' = [inv EXCEPT ![occ[s]] = "Disconnected"]
        /\ userData' = [userData EXCEPT ![s] = None]
    BY <1>8, <2>0 DEF EndCall
  <2>2. ~SlotActive(s)'
    BY <1>1, <2>1 DEF SlotActive
  <2>3. ASSUME NEW t \in Slots, SlotActive(t)'
        PROVE  SlotActive(t) /\ userData'[t] = userData[t]
    BY <1>1, <1>8, <2>1, <2>3 DEF SlotActive, Active
  <2> QED
    BY <2>0, <2>2, <2>3
<1>9. ASSUME NEW h \in Calls, RejectJob(h) PROVE ActiveCallDataLive'
  <2>1. slotOf[h] \in Slots /\ UNCHANGED box
    BY <1>9 DEF RejectJob, BegunInv, TableInv
  <2>2. CASE EndCall(h)
    BY <1>8, <2>1, <2>2, DataLiveFrame
  <2>3. CASE UNCHANGED <<inv, occ, userData>>
    BY <1>2, <2>1, <2>3
  <2> QED
    BY <1>9, <2>2, <2>3 DEF RejectJob
<1>10. ASSUME NEW h \in Calls, CheckActive(h) PROVE ActiveCallDataLive'
  <2>1. slotOf[h] \in Slots /\ UNCHANGED <<slotOf, inv, occ, userData>>
    BY <1>10 DEF CheckActive, BegunInv, TableInv, idVars, pjsuaVars
  <2>2. \A s \in Slots : SlotActive(s)' = SlotActive(s)
    BY <2>1 DEF SlotActive, Active
  <2>3. \/ UNCHANGED box
        \/ ~SlotActive(slotOf[h]) /\ box' = [box EXCEPT ![h] = "freed"]
    BY <1>10 DEF CheckActive, FreeHandle
  <2>4. \A x \in Calls : \/ box'[x] = box[x]
                         \/ \E s \in Slots : s = slotOf[x] /\ ~SlotActive(s)'
    BY <1>1, <2>1, <2>2, <2>3
  <2> QED
    BY <2>1, <2>2, <2>4, DataLiveFrame
<1>11. ASSUME NEW h \in Calls, HangupCall(h) PROVE ActiveCallDataLive'
  <2>1. slotOf[h] \in Slots
    BY <1>11 DEF HangupCall, BegunInv, TableInv
  <2>2. CASE EndCall(h) /\ FreeHandle(h)
    <3>1. \A x \in Calls \ {h} : box'[x] = box[x]
      BY <1>1, <2>2 DEF FreeHandle
    <3>2. /\ \E s \in Slots : s = slotOf[h] /\ ~SlotActive(s)'
          /\ \A t \in Slots : SlotActive(t)' => SlotActive(t) /\ userData'[t] = userData[t]
      BY <1>8, <2>1, <2>2
    <3> QED
      BY <3>1, <3>2, DataLiveFrame
  <2>3. CASE UNCHANGED <<inv, occ, userData, box>>
    BY <1>2, <2>3
  <2> QED
    BY <1>11, <2>2, <2>3 DEF HangupCall
<1>12. ASSUME NEW h \in Calls,
              \/ AnswerSessionProgress(h) \/ Reject(h) \/ Add(h) \/ Answered(h)
              \/ AwaitCallState(h) \/ AwaitHangup(h) \/ Drop(h) \/ Hangup(h) \/ Rejected(h)
              \/ DropPorts(h)
       PROVE  ActiveCallDataLive'
  BY <1>2, <1>12 DEF AnswerSessionProgress, Reject, Add, Answered, AwaitCallState,
     AwaitHangup, Drop, Hangup, Rejected, DropPorts, pjsuaVars
<1>13. ASSUME NEW a \in Accounts, AddAccount(a) \/ DropAccount(a)
       PROVE  ActiveCallDataLive'
  BY <1>2, <1>13 DEF AddAccount, DropAccount, pjsuaVars, handleVars
<1>14. ASSUME NEW s \in Slots, RemoteEndReads(s) \/ OnCallMediaState(s)
       PROVE  ActiveCallDataLive'
  BY <1>2, <1>14 DEF RemoteEndReads, OnCallMediaState, pjsuaVars, handleVars
<1>15. CASE UNCHANGED vars
  BY <1>2, <1>15 DEF vars, pjsuaVars, handleVars
<1> QED
  BY <1>3, <1>4, <1>5, <1>6, <1>7, <1>9, <1>10, <1>11, <1>12, <1>13, <1>14, <1>15
     DEF Next, Worker, Pool, Owner

-----------------------------------------------------------------------------
(* The channels of call states                                              *)

\* All channels are empty at first.
LEMMA ChannelInit == Init => ChannelInv /\ StateChannelSuffices
BY CallAssumption DEF Init, ChannelInv, StateChannelSuffices, SlotActive

\* One report makes one channel longer by one, and with two messages at most
\* waiting there it finds room.
LEMMA OnCallStateEffect ==
  ASSUME TypeOK, StateChannelSuffices, NEW p \in Calls \cup {None},
         NEW st \in PjsipInvState, OnCallState(p, st)
  PROVE  /\ \A x \in Calls : x # p => chan'[x] = chan[x]
         /\ p \in Calls => \/ chan'[p] = chan[p]
                           \/ box[p] = "live" /\ Len(chan'[p]) = Len(chan[p]) + 1
         /\ (p \in Calls => Len(chan[p]) <= 2) => StateChannelSuffices'
<1>1. chan \in [Calls -> Seq(PjsipInvState)] /\ None \notin Calls /\ StateCap \in Nat
  BY CallAssumption DEF TypeOK
<1>2. CASE UNCHANGED chan /\ status' = "undefined"
  BY <1>2 DEF StateChannelSuffices
<1>3. CASE UNCHANGED <<chan, status>>
  BY <1>3 DEF StateChannelSuffices
<1>4. CASE /\ Usable(p)
           /\ chan' = [chan EXCEPT ![p] = Append(@, st)]
           /\ UNCHANGED status
  <2>1. p \in Calls /\ box[p] = "live"
    BY <1>4 DEF Usable
  <2>2. chan[p] \in Seq(PjsipInvState) /\ chan'[p] = Append(chan[p], st)
    BY <1>1, <1>4, <2>1
  <2>3. Len(chan'[p]) = Len(chan[p]) + 1
    BY <2>2
  <2>4. \A x \in Calls : x # p => chan'[x] = chan[x]
    BY <1>1, <1>4
  <2> QED
    BY <1>4, <2>1, <2>3, <2>4 DEF StateChannelSuffices
<1>5. CASE Usable(p) /\ ~HasRoom(p) /\ UNCHANGED chan
  <2>1. p \in Calls /\ Len(chan[p]) \in Nat
    BY <1>1, <1>5 DEF Usable
  <2> QED
    BY <1>1, <1>5, <2>1 DEF HasRoom, StateChannelSuffices
<1> QED
  BY <1>2, <1>3, <1>4, <1>5 DEF OnCallState

\* A step that leaves the table alone and reports nothing.
LEMMA ChannelFrame ==
  ASSUME TypeOK, ChannelInv, PointerInv, UNCHANGED <<occ, inv, userData, cbPtr>>,
         \A x \in Calls : /\ box'[x] = "none" => box[x] = "none"
                          /\ \/ chan'[x] = chan[x]
                             \/ chan[x] # <<>> /\ chan'[x] = Tail(chan[x])
  PROVE  ChannelInv'
<1>1. /\ chan \in [Calls -> Seq(PjsipInvState)]
      /\ userData \in [Slots -> Calls \cup {None}]
      /\ occ \in [Slots -> Calls \cup {None}]
  BY DEF TypeOK
<1>2. \A x \in Calls : Len(chan[x]) \in Nat /\ Len(chan'[x]) \in Nat /\
                       Len(chan'[x]) <= Len(chan[x])
  BY <1>1
<1>3. \A h \in Calls : box'[h] = "none" => chan'[h] = <<>>
  BY DEF ChannelInv
<1>4. ASSUME NEW s \in Slots, SlotActive(s)', userData'[s] # None
      PROVE  Len(chan'[userData'[s]]) <= Reported[inv'[occ'[s]]]
  <2>1. /\ userData[s] \in Calls /\ inv[occ[s]] \in {"Incoming", "Connecting", "Confirmed"}
        /\ Len(chan[userData[s]]) <= Reported[inv[occ[s]]]
    BY <1>1, <1>4 DEF ChannelInv, SlotActive, Active
  <2>2. Reported[inv[occ[s]]] \in Nat
    BY <2>1 DEF Reported
  <2> QED
    BY <1>2, <2>1, <2>2
<1>5. ASSUME NEW s \in Slots, cbPtr'[s] # Idle, NEW p \in Calls,
             p = cbPtr'[s] \/ p = userData'[s]
      PROVE  Len(chan'[p]) <= 2
  <2>1. Len(chan[p]) <= 2
    BY <1>5 DEF ChannelInv
  <2> QED
    BY <1>2, <2>1
<1> QED
  BY <1>3, <1>4, <1>5 DEF ChannelInv

\* A step that reports once, to a handle of entry s with at most two messages
\* waiting, and leaves the other entries alone.
LEMMA ChannelReport ==
  ASSUME TypeOK, TableInv, PointerInv, ChannelInv, StateChannelSuffices,
         NEW s \in Slots, NEW p \in Calls \cup {None}, NEW st \in PjsipInvState,
         OnCallState(p, st),
         p \in Calls => slotOf[p] = s /\ Len(chan[p]) <= 2,
         \A x \in Calls : box'[x] = "none" => box[x] = "none",
         \A t \in Slots \ {s} : /\ occ'[t] = occ[t] /\ userData'[t] = userData[t]
                                /\ cbPtr'[t] = cbPtr[t]
                                /\ occ[t] # None => inv'[occ[t]] = inv[occ[t]],
         cbPtr'[s] = Idle,
         \/ ~SlotActive(s)'
         \/ userData'[s] = None
         \/ userData'[s] = p /\ Len(chan[p]) + 1 <= Reported[inv'[occ'[s]]]
  PROVE  ChannelInv' /\ StateChannelSuffices'
<1>1. /\ userData \in [Slots -> Calls \cup {None}]
      /\ cbPtr \in [Slots -> Calls \cup {None, Idle}]
      /\ chan \in [Calls -> Seq(PjsipInvState)]
      /\ occ \in [Slots -> Calls \cup {None}]
      /\ None \notin Calls
  BY CallAssumption DEF TypeOK
<1>2. \A x \in Calls : Len(chan[x]) \in Nat
  BY <1>1
<1>3. /\ \A x \in Calls : x # p => chan'[x] = chan[x]
      /\ p \in Calls => \/ chan'[p] = chan[p]
                        \/ box[p] = "live" /\ Len(chan'[p]) = Len(chan[p]) + 1
      /\ StateChannelSuffices'
  BY OnCallStateEffect
<1>4. ASSUME NEW h \in Calls, box'[h] = "none" PROVE chan'[h] = <<>>
  BY <1>3, <1>4 DEF ChannelInv
<1>5. ASSUME NEW t \in Slots, SlotActive(t)', userData'[t] # None
      PROVE  Len(chan'[userData'[t]]) <= Reported[inv'[occ'[t]]]
  <2>1. CASE t = s
    <3>1. /\ p \in Calls /\ userData'[s] = p
          /\ Len(chan[p]) + 1 <= Reported[inv'[occ'[s]]]
          /\ Len(chan'[p]) = Len(chan[p]) \/ Len(chan'[p]) = Len(chan[p]) + 1
      BY <1>3, <1>5, <2>1
    <3>2. Reported[inv'[occ'[s]]] \in Nat
      BY <1>5, <2>1 DEF SlotActive, Active, Reported
    <3> QED
      BY <1>2, <2>1, <3>1, <3>2
  <2>2. CASE t # s
    <3>1. userData'[t] = userData[t] /\ userData[t] \in Calls /\ userData[t] # p
      BY <1>1, <1>5, <2>2 DEF PointerInv
    <3>2. occ'[t] = occ[t] /\ inv'[occ[t]] = inv[occ[t]] /\ SlotActive(t)
      BY <1>5, <2>2 DEF SlotActive, Active
    <3> QED
      BY <1>3, <3>1, <3>2, <1>5 DEF ChannelInv
  <2> QED
    BY <2>1, <2>2
<1>6. ASSUME NEW t \in Slots, cbPtr'[t] # Idle, NEW q \in Calls,
             q = cbPtr'[t] \/ q = userData'[t]
      PROVE  Len(chan'[q]) <= 2
  <2>1. t # s /\ cbPtr'[t] = cbPtr[t] /\ userData'[t] = userData[t]
    BY <1>6
  <2>2. q # p
    BY <1>1, <1>6, <2>1 DEF PointerInv
  <2> QED
    BY <1>3, <1>6, <2>1, <2>2 DEF ChannelInv
<1> QED
  BY <1>3, <1>4, <1>5, <1>6 DEF ChannelInv

\* A call reports to one handle at most three times.
LEMMA ChannelStep ==
  ASSUME TypeOK, TableInv, BegunInv, PointerInv, ChannelInv, StateChannelSuffices,
         [Next]_vars
  PROVE  ChannelInv' /\ StateChannelSuffices'
<1>1. /\ occ \in [Slots -> Calls \cup {None}]
      /\ inv \in [Calls -> PjsipInvState]
      /\ slotOf \in [Calls -> Slots \cup {None}]
      /\ userData \in [Slots -> Calls \cup {None}]
      /\ cbPtr \in [Slots -> Calls \cup {None, Idle}]
      /\ box \in [Calls -> {"none", "live", "freed"}]
      /\ chan \in [Calls -> Seq(PjsipInvState)]
      /\ queue \in [Accounts -> Seq(Calls)]
      /\ None \notin Calls \cup Slots /\ Idle \notin Calls \cup {None}
      /\ {"Connecting", "Confirmed", "Disconnected"} \subseteq PjsipInvState
  BY CallAssumption DEF TypeOK, PjsipInvState
<1>2. \A x \in Calls : Len(chan[x]) \in Nat
  BY <1>1
<1>3. ASSUME NEW s \in Slots, SlotActive(s), userData[s] # None
      PROVE  userData[s] \in Calls /\ Len(chan[userData[s]]) <= 2
  BY <1>1, <1>2, <1>3 DEF ChannelInv, SlotActive, Active, Reported
<1>4. ASSUME NEW c \in Calls, NEW a \in Accounts, NEW s \in Slots, IncomingCall(c, a, s)
      PROVE  ChannelInv' /\ StateChannelSuffices'
  <2>1. /\ inv[c] = "Null"
        /\ occ' = [occ EXCEPT ![s] = c]
        /\ inv' = [inv EXCEPT ![c] = "Incoming"]
        /\ userData' = [userData EXCEPT ![s] = None]
        /\ UNCHANGED <<cbPtr, box, chan>>
    BY <1>4 DEF IncomingCall, handleVars
  <2>2. \A t \in Slots \ {s} : occ'[t] = occ[t] /\ userData'[t] = userData[t]
    BY <1>1, <2>1
  <2>3. \A t \in Slots \ {s} : occ[t] # None => occ[t] \in Calls /\ inv'[occ[t]] = inv[occ[t]]
    BY <1>1, <2>1 DEF TableInv
  <2>4. userData'[s] = None
    BY <1>1, <2>1
  <2>5. cbPtr[s] = Idle
    BY <1>4 DEF IncomingCall, TableInv
  <2>6. ChannelInv'
    BY <2>1, <2>2, <2>3, <2>4, <2>5 DEF ChannelInv, SlotActive, Active
  <2> QED
    BY <1>4, <2>6 DEF IncomingCall, OnIncomingCall, StateChannelSuffices
<1>5. ASSUME NEW c \in Calls, Confirm(c) PROVE ChannelInv' /\ StateChannelSuffices'
  <2>1. PICK s \in Slots : s = slotOf[c] /\ occ[s] = c /\ SlotActive(s)
    BY <1>1, <1>5 DEF Confirm, TableInv, SlotActive, Active
  <2>2. /\ inv[c] = "Connecting"
        /\ inv' = [inv EXCEPT ![c] = "Confirmed"]
        /\ OnCallState(userData[s], "Confirmed")
        /\ UNCHANGED <<occ, userData, cbPtr, box>>
    BY <1>5, <2>1 DEF Confirm
  <2>3. userData[s] \in Calls => slotOf[userData[s]] = s /\ Len(chan[userData[s]]) <= 1
    BY <1>1, <2>1, <2>2 DEF ChannelInv, PointerInv, Reported
  <2>4. /\ \A t \in Slots \ {s} : occ[t] # None => inv'[occ[t]] = inv[occ[t]]
        /\ inv'[occ'[s]] = "Confirmed" /\ Reported["Confirmed"] = 2
    BY <1>1, <2>1, <2>2 DEF TableInv, Reported
  <2>5. cbPtr'[s] = Idle
    BY <1>1, <2>1, <2>2 DEF TableInv, SlotActive, Active
  <2>6. /\ userData[s] \in Calls => Len(chan[userData[s]]) <= 2
        /\ \/ userData'[s] = None
           \/ userData'[s] = userData[s] /\ Len(chan[userData[s]]) + 1 <= Reported[inv'[occ'[s]]]
    BY <1>1, <1>2, <2>2, <2>3, <2>4
  <2> QED
    BY <1>1, <2>2, <2>3, <2>4, <2>5, <2>6, ChannelReport
<1>6. ASSUME NEW h \in Calls, AnswerJob(h) PROVE ChannelInv' /\ StateChannelSuffices'
  <2>1. PICK s \in Slots : s = slotOf[h]
    BY <1>6 DEF AnswerJob, BegunInv, TableInv
  <2>2. CASE UNCHANGED <<inv, chan, status>>
    BY <1>6, <2>2, ChannelFrame DEF AnswerJob, StateChannelSuffices
  <2>3. CASE /\ Ringing(s)
             /\ inv' = [inv EXCEPT ![occ[s]] = "Connecting"]
             /\ OnCallState(userData[s], "Connecting")
    <3>1. /\ occ[s] \in Calls /\ inv[occ[s]] = "Incoming" /\ SlotActive(s)
          /\ UNCHANGED <<occ, userData, cbPtr, box>>
      BY <1>1, <1>6, <2>3 DEF AnswerJob, Ringing, SlotActive, Active
    <3>2. userData[s] \in Calls => slotOf[userData[s]] = s /\ Len(chan[userData[s]]) <= 0
      BY <1>1, <3>1 DEF ChannelInv, PointerInv, Reported
    <3>3. /\ \A t \in Slots \ {s} : occ[t] # None => inv'[occ[t]] = inv[occ[t]]
          /\ inv'[occ'[s]] = "Connecting" /\ Reported["Connecting"] = 1
      BY <1>1, <2>3, <3>1 DEF TableInv, Reported
    <3>4. cbPtr'[s] = Idle
      BY <1>1, <3>1 DEF TableInv
    <3>5. /\ userData[s] \in Calls => Len(chan[userData[s]]) <= 2
          /\ \/ userData'[s] = None
             \/ /\ userData'[s] = userData[s]
                /\ Len(chan[userData[s]]) + 1 <= Reported[inv'[occ'[s]]]
      BY <1>1, <1>2, <3>1, <3>2, <3>3
    <3> QED
      BY <1>1, <2>3, <3>1, <3>2, <3>3, <3>4, <3>5, ChannelReport
  <2> QED
    BY <1>6, <2>1, <2>2, <2>3 DEF AnswerJob
<1>7. ASSUME NEW s \in Slots, RemoteEndReported(s)
      PROVE  ChannelInv' /\ StateChannelSuffices'
  <2>1. /\ cbPtr[s] # Idle
        /\ OnCallState(cbPtr[s], "Disconnected")
        /\ cbPtr' = [cbPtr EXCEPT ![s] = Idle]
        /\ occ' = [occ EXCEPT ![s] = None]
        /\ userData' = [userData EXCEPT ![s] = None]
        /\ UNCHANGED <<inv, box>>
    BY <1>7 DEF RemoteEndReported
  <2>2. cbPtr[s] \in Calls \cup {None}
    BY <1>1, <2>1
  <2>3. cbPtr[s] \in Calls => slotOf[cbPtr[s]] = s /\ Len(chan[cbPtr[s]]) <= 2
    BY <2>1 DEF ChannelInv, PointerInv
  <2>4. cbPtr'[s] = Idle /\ userData'[s] = None
    BY <1>1, <2>1
  <2>5. \A t \in Slots \ {s} : /\ occ'[t] = occ[t] /\ userData'[t] = userData[t]
                               /\ cbPtr'[t] = cbPtr[t]
    BY <1>1, <2>1
  <2> QED
    BY <1>1, <2>1, <2>2, <2>3, <2>4, <2>5, ChannelReport
<1>8. ASSUME NEW h \in Calls, NEW s \in Slots, s = slotOf[h], SlotActive(s), EndCall(h),
             UNCHANGED cbPtr, \A x \in Calls : box'[x] = "none" => box[x] = "none"
      PROVE  ChannelInv' /\ StateChannelSuffices'
  <2>1. /\ inv' = [inv EXCEPT ![occ[s]] = "Disconnected"]
        /\ OnCallState(userData[s], "Disconnected")
        /\ occ' = [occ EXCEPT ![s] = None]
        /\ userData' = [userData EXCEPT ![s] = None]
    BY <1>8 DEF EndCall
  <2>2. occ[s] \in Calls /\ userData[s] \in Calls \cup {None}
    BY <1>1, <1>8 DEF SlotActive
  <2>3. userData[s] \in Calls => slotOf[userData[s]] = s /\ Len(chan[userData[s]]) <= 2
    BY <1>1, <1>3, <1>8 DEF PointerInv
  <2>4. cbPtr'[s] = Idle /\ userData'[s] = None
    BY <1>1, <1>8, <2>1 DEF TableInv, SlotActive, Active
  <2>5. \A t \in Slots \ {s} : /\ occ'[t] = occ[t] /\ userData'[t] = userData[t]
                               /\ cbPtr'[t] = cbPtr[t]
                               /\ occ[t] # None => inv'[occ[t]] = inv[occ[t]]
    BY <1>1, <1>8, <2>1, <2>2 DEF TableInv
  <2> QED
    BY <1>1, <1>8, <2>1, <2>2, <2>3, <2>4, <2>5, ChannelReport
<1>9. ASSUME NEW h \in Calls, RejectJob(h) PROVE ChannelInv' /\ StateChannelSuffices'
  <2>1. PICK s \in Slots : s = slotOf[h]
    BY <1>9 DEF RejectJob, BegunInv, TableInv
  <2>2. UNCHANGED <<cbPtr, box>>
    BY <1>9 DEF RejectJob
  <2>3. CASE UNCHANGED <<inv, occ, userData, chan, status>>
    BY <2>2, <2>3, ChannelFrame DEF StateChannelSuffices
  <2>4. CASE SlotActive(s) /\ EndCall(h)
    BY <1>8, <2>1, <2>2, <2>4
  <2> QED
    BY <1>9, <2>1, <2>3, <2>4 DEF RejectJob
<1>10. ASSUME NEW h \in Calls, HangupCall(h) PROVE ChannelInv' /\ StateChannelSuffices'
  <2>1. PICK s \in Slots : s = slotOf[h]
    BY <1>10 DEF HangupCall, BegunInv, TableInv
  <2>2. UNCHANGED cbPtr /\ \A x \in Calls : box'[x] = "none" => box[x] = "none"
    BY <1>1, <1>10 DEF HangupCall, FreeHandle
  <2>3. CASE UNCHANGED <<inv, occ, userData, chan>> /\ status' = "hangup_failed"
    BY <2>2, <2>3, ChannelFrame DEF StateChannelSuffices
  <2>4. CASE SlotActive(s) /\ EndCall(h)
    BY <1>8, <2>1, <2>2, <2>4
  <2> QED
    BY <1>10, <2>1, <2>3, <2>4 DEF HangupCall
<1>11. ASSUME NEW c \in Calls, RemoteEnd(c) PROVE ChannelInv' /\ StateChannelSuffices'
  <2>1. PICK s \in Slots : s = slotOf[c] /\ occ[s] = c /\ SlotActive(s)
    BY <1>1, <1>11 DEF RemoteEnd, TableInv, SlotActive, Active
  <2>2. /\ inv' = [inv EXCEPT ![c] = "Disconnected"]
        /\ cbPtr' = [cbPtr EXCEPT ![s] = userData[s]]
        /\ UNCHANGED <<occ, userData, box, chan, status>>
    BY <1>11, <2>1 DEF RemoteEnd, handleVars
  <2>3. ~SlotActive(s)'
    BY <1>1, <2>1, <2>2 DEF SlotActive, Active
  <2>4. \A t \in Slots \ {s} : occ[t] # None => inv'[occ[t]] = inv[occ[t]]
    BY <1>1, <2>1, <2>2 DEF TableInv
  <2>5. ASSUME NEW t \in Slots, SlotActive(t)', userData'[t] # None
        PROVE  Len(chan'[userData'[t]]) <= Reported[inv'[occ'[t]]]
    BY <2>2, <2>3, <2>4, <2>5 DEF ChannelInv, SlotActive, Active
  <2>6. ASSUME NEW t \in Slots, cbPtr'[t] # Idle, NEW p \in Calls,
               p = cbPtr'[t] \/ p = userData'[t]
        PROVE  Len(chan'[p]) <= 2
    <3>1. CASE t = s
      BY <1>1, <1>3, <2>1, <2>2, <2>6, <3>1
    <3>2. CASE t # s
      BY <1>1, <2>2, <2>6, <3>2 DEF ChannelInv
    <3> QED
      BY <3>1, <3>2
  <2> QED
    BY <2>2, <2>5, <2>6 DEF ChannelInv, StateChannelSuffices
<1>12. ASSUME NEW a \in Accounts, NextCall(a) PROVE ChannelInv' /\ StateChannelSuffices'
  <2> DEFINE h == Head(queue[a])
  <2>1. /\ h \in Calls /\ h = queue[a][1] /\ 1 \in 1..Len(queue[a])
        /\ UNCHANGED <<occ, inv, cbPtr, chan, status>>
    BY <1>1, <1>12 DEF NextCall
  <2>2. box[h] = "none" /\ chan[h] = <<>>
    BY <2>1 DEF BegunInv, ChannelInv
  <2>3. /\ \A x \in Calls : box'[x] = "none" => box[x] = "none"
        /\ \A s \in Slots : userData'[s] = userData[s] \/ userData'[s] = h
    BY <1>1, <1>12, <2>1 DEF NextCall
  <2>4. ASSUME NEW s \in Slots, SlotActive(s)', userData'[s] # None
        PROVE  Len(chan'[userData'[s]]) <= Reported[inv'[occ'[s]]]
    <3>1. SlotActive(s) /\ inv[occ[s]] \in {"Incoming", "Connecting", "Confirmed"}
      BY <2>1, <2>4 DEF SlotActive, Active
    <3>2. CASE userData'[s] = userData[s]
      BY <2>1, <2>4, <3>1, <3>2 DEF ChannelInv
    <3>3. CASE userData'[s] = h
      <4>1. Len(chan'[h]) = 0
        BY <2>1, <2>2
      <4> QED
        BY <2>1, <3>1, <3>3, <4>1 DEF Reported
    <3> QED
      BY <2>3, <3>2, <3>3
  <2>5. ASSUME NEW s \in Slots, cbPtr'[s] # Idle, NEW p \in Calls,
               p = cbPtr'[s] \/ p = userData'[s]
        PROVE  Len(chan'[p]) <= 2
    <3>1. Len(chan[h]) = 0
      BY <2>2
    <3> QED
      BY <2>1, <2>3, <2>5, <3>1 DEF ChannelInv
  <2> QED
    BY <2>1, <2>3, <2>4, <2>5 DEF ChannelInv, StateChannelSuffices
<1>reads. ASSUME NEW s \in Slots, RemoteEndReads(s)
          PROVE  ChannelInv' /\ StateChannelSuffices'
  <2>1. /\ cbPtr[s] # Idle
        /\ cbPtr' = [cbPtr EXCEPT ![s] = userData[s]]
        /\ UNCHANGED <<status, occ, userData, inv, chan, box>>
    BY <1>reads DEF RemoteEndReads, handleVars
  <2>2. ASSUME NEW t \in Slots, cbPtr'[t] # Idle, NEW p \in Calls,
               p = cbPtr'[t] \/ p = userData'[t]
        PROVE  Len(chan'[p]) <= 2
    BY <1>1, <2>1, <2>2 DEF ChannelInv
  <2> QED
    BY <2>1, <2>2 DEF ChannelInv, StateChannelSuffices, SlotActive, Active
<1>13. ASSUME NEW h \in Calls,
              \/ AnswerSessionProgress(h) \/ Reject(h) \/ Add(h) \/ Answered(h)
              \/ AwaitCallState(h) \/ AwaitHangup(h) \/ Drop(h) \/ Hangup(h) \/ Rejected(h)
              \/ CheckActive(h) \/ DropPorts(h)
       PROVE  ChannelInv' /\ StateChannelSuffices'
  <2>1. UNCHANGED <<occ, inv, userData, cbPtr>>
    BY <1>13 DEF AnswerSessionProgress, Reject, Add, Answered, AwaitCallState,
       AwaitHangup, Drop, Hangup, Rejected, CheckActive, DropPorts, pjsuaVars
  <2>2. \A x \in Calls : box'[x] = "none" => box[x] = "none"
    BY <1>1, <1>13 DEF AnswerSessionProgress, Reject, Add, Answered, AwaitCallState,
       AwaitHangup, Drop, Hangup, Rejected, CheckActive, FreeHandle, DropPorts
  <2>3. \A x \in Calls : \/ chan'[x] = chan[x]
                         \/ chan[x] # <<>> /\ chan'[x] = Tail(chan[x])
    BY <1>1, <1>13 DEF AnswerSessionProgress, Reject, Add, Answered, AwaitCallState,
       AwaitHangup, Drop, Hangup, Rejected, CheckActive, DropPorts
  <2>4. status' = status \/ status' = "port_failed"
    BY <1>13 DEF AnswerSessionProgress, Reject, Add, Answered, AwaitCallState,
       AwaitHangup, Drop, Hangup, Rejected, CheckActive, DropPorts
  <2> QED
    BY <2>1, <2>2, <2>3, <2>4, ChannelFrame DEF StateChannelSuffices
<1>14. ASSUME NEW a \in Accounts, AddAccount(a) \/ DropAccount(a)
       PROVE  ChannelInv' /\ StateChannelSuffices'
  BY <1>14, ChannelFrame
     DEF AddAccount, DropAccount, pjsuaVars, handleVars, StateChannelSuffices
<1>15. ASSUME NEW s \in Slots, OnCallMediaState(s)
       PROVE  ChannelInv' /\ StateChannelSuffices'
  BY <1>15, ChannelFrame DEF OnCallMediaState, pjsuaVars, StateChannelSuffices
<1>16. CASE UNCHANGED vars
  BY <1>16, ChannelFrame DEF vars, pjsuaVars, handleVars, StateChannelSuffices
<1> QED
  BY <1>reads, <1>4, <1>5, <1>6, <1>7, <1>9, <1>10, <1>11, <1>12, <1>13, <1>14, <1>15, <1>16
     DEF Next, Worker, Pool, Owner

-----------------------------------------------------------------------------
(* The invariant, and what follows                                          *)

\* The invariant holds at first ...
LEMMA InvariantInit == Init => IInv
BY TypeInit, TableInit, BegunInit, PointerInit, ChannelInit DEF IInv

\* ... every step preserves it ...
LEMMA InvariantStep == IInv /\ [Next]_vars => IInv'
BY TypeStep, TableStep, BegunStep, PointerStep, DataLiveStep, ChannelStep DEF IInv

\* ... and so it always holds: the invariant that CallsOneAccount checks, for any
\* calls, entries, accounts, capacities and faults.
THEOREM Invariant == Spec => []IInv
BY InvariantInit, InvariantStep, PTL DEF Spec

\* While a call has not ended, the user data that pjsua's callbacks would find
\* for it is not freed.
THEOREM DataOfActiveCallsLives == Spec => []ActiveCallDataLive
<1>1. IInv => ActiveCallDataLive
  BY DEF IInv
<1> QED
  BY <1>1, Invariant, PTL

\* With a capacity of three, on_call_state's try_send never fails.
THEOREM ChannelOfThreeSuffices == Spec => []StateChannelSuffices
<1>1. IInv => StateChannelSuffices
  BY DEF IInv
<1> QED
  BY <1>1, Invariant, PTL

-----------------------------------------------------------------------------
(* Handles and the calls of others                                          *)

\* A handle whose call is not in its entry any more has a call that ended.
LEMMA EndedIfAway ==
  ASSUME TableInv, NEW h \in Calls, inv[h] # "Null", occ[slotOf[h]] # h
  PROVE  inv[h] = "Disconnected"
BY DEF TableInv, SessionStates, Active

\* An INVITE session that has ended never comes back to life.
LEMMA EndedForGood ==
  ASSUME IInv, [Next]_vars, NEW x \in Calls, inv[x] = "Disconnected"
  PROVE  inv'[x] = "Disconnected"
<1>1. inv \in [Calls -> PjsipInvState]
  BY DEF IInv, TypeOK
<1>2. ASSUME NEW c \in Calls, NEW a \in Accounts, NEW s \in Slots, IncomingCall(c, a, s)
      PROVE  inv'[x] = "Disconnected"
  BY <1>1, <1>2 DEF IncomingCall
<1>3. ASSUME NEW c \in Calls, Confirm(c) \/ RemoteEnd(c) PROVE inv'[x] = "Disconnected"
  BY <1>1, <1>3 DEF Confirm, RemoteEnd
<1>4. ASSUME NEW s \in Slots,
             RemoteEndReads(s) \/ RemoteEndReported(s) \/ OnCallMediaState(s)
      PROVE  inv'[x] = "Disconnected"
  BY <1>4 DEF RemoteEndReads, RemoteEndReported, OnCallMediaState, pjsuaVars
<1>5. ASSUME NEW h \in Calls, AnswerJob(h) \/ RejectJob(h) \/ HangupCall(h)
      PROVE  inv'[x] = "Disconnected"
  BY <1>1, <1>5 DEF AnswerJob, Ringing, RejectJob, HangupCall, EndCall
<1>6. ASSUME NEW h \in Calls,
              \/ AnswerSessionProgress(h) \/ Reject(h) \/ Add(h) \/ Answered(h)
              \/ AwaitCallState(h) \/ AwaitHangup(h) \/ Drop(h) \/ Hangup(h) \/ Rejected(h)
              \/ CheckActive(h) \/ DropPorts(h)
      PROVE  inv'[x] = "Disconnected"
  BY <1>6 DEF AnswerSessionProgress, Reject, Add, Answered, AwaitCallState,
     AwaitHangup, Drop, Hangup, Rejected, CheckActive, DropPorts, pjsuaVars
<1>7. ASSUME NEW a \in Accounts, AddAccount(a) \/ DropAccount(a) \/ NextCall(a)
      PROVE  inv'[x] = "Disconnected"
  BY <1>7 DEF AddAccount, DropAccount, NextCall, pjsuaVars
<1>8. CASE UNCHANGED vars
  BY <1>8 DEF vars, pjsuaVars
<1> QED
  BY <1>2, <1>3, <1>4, <1>5, <1>6, <1>7, <1>8 DEF Next, Worker, Pool, Owner

\* A hangup through h's entry ends h's own call, unless it had ended before.
LEMMA EndCallEndsOwn ==
  ASSUME IInv, NEW h \in Calls, inv[h] # "Null", SlotActive(slotOf[h]), EndCall(h)
  PROVE  inv'[h] = "Disconnected"
<1>1. inv \in [Calls -> PjsipInvState] /\ TableInv
  BY DEF IInv, TypeOK
<1>2. inv' = [inv EXCEPT ![occ[slotOf[h]]] = "Disconnected"]
  BY DEF EndCall
<1>3. CASE occ[slotOf[h]] = h
  BY <1>1, <1>2, <1>3
<1>4. CASE occ[slotOf[h]] # h
  BY <1>1, <1>2, <1>4, EndedIfAway
<1> QED
  BY <1>3, <1>4

\* A call that next_call made no handle for never gets one.
LEMMA UnmadeForGood ==
  ASSUME IInv, [Next]_vars, NEW x \in Calls, box[x] = "freed", stage[x] = "unmade"
  PROVE  stage'[x] = "unmade"
<1>1. /\ stage \in [Calls -> Stages]
      /\ queue \in [Accounts -> Seq(Calls)]
      /\ BegunInv
  BY DEF IInv, TypeOK
<1>2. ASSUME NEW a \in Accounts, NextCall(a) PROVE stage'[x] = "unmade"
  <2>1. Head(queue[a]) = queue[a][1] /\ 1 \in 1..Len(queue[a])
    BY <1>1, <1>2 DEF NextCall
  <2>2. Head(queue[a]) # x
    BY <2>1 DEF BegunInv, IInv
  <2> QED
    BY <1>1, <1>2, <2>2 DEF NextCall
<1>3. ASSUME NEW h \in Calls,
              \/ AnswerSessionProgress(h) \/ Reject(h) \/ Add(h) \/ Answered(h)
              \/ AwaitCallState(h) \/ AwaitHangup(h) \/ Drop(h) \/ Hangup(h) \/ Rejected(h)
              \/ CheckActive(h) \/ HangupCall(h) \/ DropPorts(h)
      PROVE  stage'[x] = "unmade"
  <2>1. UNCHANGED stage \/ (stage[h] # "unmade" /\ \E st : stage' = [stage EXCEPT ![h] = st])
    BY <1>3 DEF AnswerSessionProgress, Reject, Add, Answered, AwaitCallState, Awaited,
       AwaitHangup, Drop, Hangup, Rejected, CheckActive, HangupCall, FreeHandle, DropPorts,
       Move
  <2> QED
    BY <1>1, <2>1
<1>4. ASSUME UNCHANGED stage PROVE stage'[x] = "unmade"
  BY <1>4
<1>5. ASSUME Worker \/ Pool \/ \E a \in Accounts : AddAccount(a) \/ DropAccount(a)
      PROVE  stage'[x] = "unmade"
  BY <1>4, <1>5 DEF Worker, Pool, IncomingCall, Confirm, RemoteEnd, RemoteEndReads,
     RemoteEndReported, OnCallMediaState, AnswerJob, RejectJob, AddAccount, DropAccount,
     handleVars
<1>6. CASE UNCHANGED vars
  BY <1>4, <1>6 DEF vars, handleVars
<1> QED
  BY <1>2, <1>3, <1>5, <1>6 DEF Next, Owner

\* A step that frees a handle's user data finds its call ended, or ends it.
LEMMA NoCallOutlivesHandleStep ==
  ASSUME IInv, NoCallOutlivesHandle, [Next]_vars
  PROVE  NoCallOutlivesHandle'
<1> SUFFICES ASSUME NEW x \in Calls, box'[x] = "freed", stage'[x] # "unmade"
             PROVE  inv'[x] = "Disconnected"
  BY DEF NoCallOutlivesHandle
<1>1. /\ box \in [Calls -> {"none", "live", "freed"}]
      /\ queue \in [Accounts -> Seq(Calls)]
      /\ TableInv /\ BegunInv
  BY DEF IInv, TypeOK
<1>2. CASE box[x] = "freed"
  BY <1>2, EndedForGood, UnmadeForGood DEF NoCallOutlivesHandle
<1>3. CASE box[x] # "freed"
  <2>1. ASSUME NEW h \in Calls, CheckActive(h) PROVE inv'[x] = "Disconnected"
    <3>1. /\ x = h /\ ~SlotActive(slotOf[h]) /\ UNCHANGED inv /\ stage[h] = "handle"
      BY <1>1, <1>3, <2>1 DEF CheckActive, FreeHandle, pjsuaVars
    <3>2. inv[h] # "Null"
      BY <3>1 DEF BegunInv, IInv
    <3>3. occ[slotOf[h]] # h \/ ~Active(h)
      BY <3>1, CallAssumption DEF SlotActive
    <3>4. inv[h] = "Disconnected"
      BY <1>1, <3>2, <3>3 DEF TableInv, SessionStates, Active
    <3> QED
      BY <3>1, <3>4
  <2>2. ASSUME NEW h \in Calls, HangupCall(h) PROVE inv'[x] = "Disconnected"
    <3>1. x = h /\ SlotActive(slotOf[h]) /\ EndCall(h) /\ stage[h] = "hangup"
      BY <1>1, <1>3, <2>2 DEF HangupCall, FreeHandle
    <3>2. inv[h] # "Null"
      BY <3>1 DEF BegunInv, IInv
    <3> QED
      BY <3>1, <3>2, EndCallEndsOwn
  <2>3. ASSUME NEW a \in Accounts, NextCall(a) PROVE FALSE
    <3>1. stage \in [Calls -> Stages]
      BY DEF IInv, TypeOK
    <3> QED
      BY <1>1, <1>3, <2>3, <3>1 DEF NextCall
  <2>4. ASSUME UNCHANGED box PROVE FALSE
    BY <1>3, <2>4
  <2>5. ASSUME NEW c \in Calls, NEW a \in Accounts, NEW s \in Slots, IncomingCall(c, a, s)
        PROVE  FALSE
    BY <2>4, <2>5 DEF IncomingCall, handleVars
  <2>6. ASSUME NEW c \in Calls, Confirm(c) \/ RemoteEnd(c) PROVE FALSE
    BY <2>4, <2>6 DEF Confirm, RemoteEnd, handleVars
  <2>7. ASSUME NEW s \in Slots,
               RemoteEndReads(s) \/ RemoteEndReported(s) \/ OnCallMediaState(s)
        PROVE  FALSE
    BY <2>4, <2>7 DEF RemoteEndReads, RemoteEndReported, OnCallMediaState, handleVars
  <2>8. ASSUME NEW h \in Calls, AnswerJob(h) \/ RejectJob(h) PROVE FALSE
    BY <2>4, <2>8 DEF AnswerJob, RejectJob
  <2>9. ASSUME NEW h \in Calls,
              \/ AnswerSessionProgress(h) \/ Reject(h) \/ Add(h) \/ Answered(h)
              \/ AwaitCallState(h) \/ AwaitHangup(h) \/ Drop(h) \/ Hangup(h) \/ Rejected(h)
              \/ DropPorts(h)
        PROVE  FALSE
    BY <2>4, <2>9 DEF AnswerSessionProgress, Reject, Add, Answered, AwaitCallState,
       AwaitHangup, Drop, Hangup, Rejected, DropPorts
  <2>10. ASSUME NEW a \in Accounts, AddAccount(a) \/ DropAccount(a) PROVE FALSE
    BY <2>4, <2>10 DEF AddAccount, DropAccount, handleVars
  <2>11. CASE UNCHANGED vars
    BY <2>4, <2>11 DEF vars, handleVars
  <2> QED
    BY <2>1, <2>2, <2>3, <2>5, <2>6, <2>7, <2>8, <2>9, <2>10, <2>11
       DEF Next, Worker, Pool, Owner
<1> QED
  BY <1>2, <1>3

\* No call outlives its handle, whatever pjsua fails at.
THEOREM CallsEndWithTheirHandles == Spec => []NoCallOutlivesHandle
<1>1. Init => NoCallOutlivesHandle
  BY DEF Init, NoCallOutlivesHandle
<1>2. IInv /\ NoCallOutlivesHandle /\ [Next]_vars => NoCallOutlivesHandle'
  BY NoCallOutlivesHandleStep
<1> QED
  BY <1>1, <1>2, Invariant, PTL DEF Spec

\* A step by which a handle touches another call finds its own ended.
LEMMA OthersOnlyWhenOverStep ==
  ASSUME IInv, OthersOnlyWhenOver, [Next]_vars
  PROVE  OthersOnlyWhenOver'
<1> SUFFICES ASSUME NEW x \in Calls, NEW y \in Calls, x # y,
                    answeredBy'[y] = x \/ endedBy'[y] = x \/ media'[x] = y
             PROVE  inv'[x] = "Disconnected"
  BY DEF OthersOnlyWhenOver
<1>1. /\ inv \in [Calls -> PjsipInvState]
      /\ slotOf \in [Calls -> Slots \cup {None}]
      /\ occ \in [Slots -> Calls \cup {None}]
      /\ userData \in [Slots -> Calls \cup {None}]
      /\ media \in [Calls -> {"unsent", "sent"} \cup Calls]
      /\ answeredBy \in [Calls -> Calls \cup {None}]
      /\ endedBy \in [Calls -> Calls \cup {None}]
      /\ TableInv /\ BegunInv /\ PointerInv
      /\ None \notin Calls \cup Slots
  BY CallAssumption DEF IInv, TypeOK
<1>2. ASSUME inv[x] = "Disconnected" PROVE inv'[x] = "Disconnected"
  BY <1>2, EndedForGood
<1>3. ASSUME answeredBy[y] = x \/ endedBy[y] = x \/ media[x] = y
      PROVE  inv'[x] = "Disconnected"
  BY <1>2, <1>3 DEF OthersOnlyWhenOver
<1>4. ASSUME UNCHANGED <<answeredBy, endedBy, media>> PROVE inv'[x] = "Disconnected"
  BY <1>3, <1>4
<1>5. ASSUME NEW h \in Calls, AnswerJob(h) PROVE inv'[x] = "Disconnected"
  <2>1. CASE UNCHANGED answeredBy
    BY <1>4, <1>5, <2>1 DEF AnswerJob
  <2>2. CASE answeredBy' = [answeredBy EXCEPT ![occ[slotOf[h]]] = h]
    <3>1. UNCHANGED <<endedBy, media>> /\ inv[h] # "Null"
      BY <1>1, <1>5 DEF AnswerJob, BegunInv
    <3>2. CASE y = occ[slotOf[h]] /\ x = h
      BY <1>1, <1>2, <3>1, <3>2, EndedIfAway
    <3>3. CASE answeredBy'[y] = answeredBy[y]
      BY <1>3, <3>1, <3>3
    <3> QED
      BY <1>1, <1>3, <2>2, <3>1, <3>2, <3>3
  <2> QED
    BY <1>5, <2>1, <2>2 DEF AnswerJob
<1>6. ASSUME NEW h \in Calls, inv[h] # "Null", EndCall(h), UNCHANGED <<answeredBy, media>>
      PROVE  inv'[x] = "Disconnected"
  <2>1. endedBy' = [endedBy EXCEPT ![occ[slotOf[h]]] = h]
    BY <1>6 DEF EndCall
  <2>2. CASE y = occ[slotOf[h]] /\ x = h
    BY <1>1, <1>2, <1>6, <2>2, EndedIfAway
  <2>3. CASE endedBy'[y] = endedBy[y]
    BY <1>3, <1>6, <2>3
  <2> QED
    BY <1>1, <1>3, <1>6, <2>1, <2>2, <2>3
<1>7. ASSUME NEW h \in Calls, RejectJob(h) PROVE inv'[x] = "Disconnected"
  <2>1. inv[h] # "Null" /\ UNCHANGED <<answeredBy, media>>
    BY <1>1, <1>7 DEF RejectJob, BegunInv
  <2> QED
    BY <1>4, <1>6, <1>7, <2>1 DEF RejectJob
<1>8. ASSUME NEW h \in Calls, HangupCall(h) PROVE inv'[x] = "Disconnected"
  <2>1. inv[h] # "Null" /\ UNCHANGED <<answeredBy, media>>
    BY <1>1, <1>8 DEF HangupCall, BegunInv
  <2> QED
    BY <1>4, <1>6, <1>8, <2>1 DEF HangupCall
<1>9. ASSUME NEW s \in Slots, OnCallMediaState(s) PROVE inv'[x] = "Disconnected"
  <2>1. UNCHANGED <<answeredBy, endedBy, inv>> /\ occ[s] \in Calls /\ inv[occ[s]] = "Confirmed"
    BY <1>1, <1>9 DEF OnCallMediaState, histVars, pjsuaVars
  <2>2. CASE UNCHANGED media
    BY <1>4, <2>1, <2>2
  <2>3. CASE /\ Usable(userData[s])
             /\ media' = [media EXCEPT ![userData[s]] = occ[s]]
    <3>1. userData[s] \in Calls /\ slotOf[userData[s]] = s /\ box[userData[s]] # "none"
      BY <1>1, <2>3 DEF Usable, PointerInv
    <3>2. CASE x = userData[s] /\ y = occ[s]
      BY <1>1, <1>2, <3>1, <3>2, EndedIfAway DEF BegunInv
    <3>3. CASE media'[x] = media[x]
      BY <1>3, <2>1, <3>3
    <3> QED
      BY <1>1, <1>3, <2>1, <2>3, <3>1, <3>2, <3>3
  <2> QED
    BY <1>9, <2>2, <2>3 DEF OnCallMediaState
<1>10. ASSUME NEW h \in Calls, Add(h) PROVE inv'[x] = "Disconnected"
  <2>1. UNCHANGED <<answeredBy, endedBy>> /\ (media'[x] = media[x] \/ media'[x] = "sent")
    BY <1>1, <1>10 DEF Add, histVars
  <2>2. CASE media'[x] = media[x]
    BY <1>3, <2>1, <2>2
  <2>3. CASE media'[x] = "sent" /\ media[x] # y
    BY <1>3, <2>1, <2>3, CallAssumption
  <2> QED
    BY <2>1, <2>2, <2>3, <1>3
<1>11. ASSUME NEW h \in Calls,
              \/ AnswerSessionProgress(h) \/ Reject(h) \/ Answered(h)
              \/ AwaitCallState(h) \/ AwaitHangup(h) \/ Drop(h) \/ Hangup(h) \/ Rejected(h)
              \/ CheckActive(h) \/ DropPorts(h)
       PROVE  inv'[x] = "Disconnected"
  BY <1>4, <1>11 DEF AnswerSessionProgress, Reject, Answered, AwaitCallState,
     AwaitHangup, Drop, Hangup, Rejected, CheckActive, DropPorts, histVars
<1>12. ASSUME NEW a \in Accounts, AddAccount(a) \/ DropAccount(a) \/ NextCall(a)
       PROVE  inv'[x] = "Disconnected"
  BY <1>4, <1>12 DEF AddAccount, DropAccount, NextCall, handleVars, histVars
<1>13. ASSUME NEW c \in Calls, Confirm(c) \/ RemoteEnd(c) PROVE inv'[x] = "Disconnected"
  BY <1>4, <1>13 DEF Confirm, RemoteEnd, handleVars, histVars
<1>14. ASSUME NEW s \in Slots, RemoteEndReads(s) \/ RemoteEndReported(s)
       PROVE  inv'[x] = "Disconnected"
  BY <1>4, <1>14 DEF RemoteEndReads, RemoteEndReported, handleVars, histVars
<1>15. ASSUME NEW c \in Calls, NEW a \in Accounts, NEW s \in Slots, IncomingCall(c, a, s)
       PROVE  inv'[x] = "Disconnected"
  BY <1>4, <1>15 DEF IncomingCall, handleVars, histVars
<1>16. CASE UNCHANGED vars
  BY <1>4, <1>16 DEF vars, handleVars, histVars
<1> QED
  BY <1>5, <1>7, <1>8, <1>9, <1>10, <1>11, <1>12, <1>13, <1>14, <1>15, <1>16
     DEF Next, Worker, Pool, Owner

\* A handle that answers, hangs up or feeds media to another call has lost its
\* own: no handle of a live call ever touches somebody else's.
THEOREM LiveHandlesKeepToTheirCall == Spec => []OthersOnlyWhenOver
<1>1. Init => OthersOnlyWhenOver
  BY CallAssumption DEF Init, OthersOnlyWhenOver
<1>2. IInv /\ OthersOnlyWhenOver /\ [Next]_vars => OthersOnlyWhenOver'
  BY OthersOnlyWhenOverStep
<1> QED
  BY <1>1, <1>2, Invariant, PTL DEF Spec

=============================================================================
