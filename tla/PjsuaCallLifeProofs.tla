------------------------- MODULE PjsuaCallLifeProofs -------------------------
(***************************************************************************)
(* More proofs about PjsuaCall: what a handle has at each stage of its     *)
(* life, what it is told, and where an illegal access can come from.       *)
(***************************************************************************)
EXTENDS PjsuaCallProofs

-----------------------------------------------------------------------------
(* The inductive invariant                                                  *)

\* Stages before add has done anything, and stages that only an answer leads to.
Early == {"none", "incoming", "setup"}
AfterAnswer == {"connecting", "confirming", "call", "awaiting"}

\* What a handle owns at each stage: the boxed user data, a job, ports.
LifeOf(h) ==
    /\ stage[h] = "none" <=> box[h] = "none"
    /\ box[h] = "live" => stage[h] \notin {"rejecting", "done", "unmade"}
    /\ box[h] = "freed" => stage[h] \in {"rejecting", "ports", "done", "unmade"}
    /\ stage[h] \in Early => job[h] = "none" /\ ~PortsAdded(h)
    /\ stage[h] \in Early => ports[h].sink = "none" /\ ports[h].stream = "none"
    /\ job[h] = "answer" => stage[h] \in {"answering", "done"} \cup Dropping
    /\ job[h] = "willReject" => stage[h] \in {"handle", "hangup"} /\ ~PortsAdded(h)
    /\ job[h] = "reject" => stage[h] \in {"rejecting", "done"}
    /\ stage[h] \in {"rejecting", "done", "unmade"} => ~PortsAdded(h)

LifeInv == \A h \in Calls : LifeOf(h)

HasAnswered(h) == \E c \in Calls : answeredBy[c] = h

\* What a handle that answered has: its answer on record, media data handed over
\* first, ports that stay until a drop takes them away, and a call of its own that
\* has ended once its user data is freed.
AnswerOf(h) ==
    /\ stage[h] \in AfterAnswer => HasAnswered(h)
    /\ stage[h] = "answering" /\ job[h] = "ok" => HasAnswered(h)
    /\ job[h] = "answer" \/ HasAnswered(h) => media[h] # "unsent"
    /\ media[h] # "unsent" => stage[h] \notin Early
    /\ media[h] = "sent" /\ box[h] = "live" =>
           \/ ports[h] = [sink |-> "added", stream |-> "added"]
           \/ stage[h] \in {"handle", "hangup"} /\ ports[h].sink = "destroyed"
    /\ box[h] = "freed" => inv[h] = "Disconnected" \/ (job[h] = "none" /\ ~HasAnswered(h))

\* A call has an answer on record from CONNECTING on, and only then.
OnRecord(c) ==
    /\ inv[c] \in {"Connecting", "Confirmed"} => answeredBy[c] # None
    /\ inv[c] \in {"Null", "Incoming"} => answeredBy[c] = None

AnswerInv == \A x \in Calls : AnswerOf(x) /\ OnRecord(x)

\* The messages in a channel: reports of a state that the call in the entry has
\* reached; whoever hears of a confirmed call has one, or had one.
ReportInv ==
    /\ \A h \in Calls : \A i \in 1..Len(chan[h]) :
           chan[h][i] = "Confirmed" => inv[h] \in {"Confirmed", "Disconnected"}
    /\ \A s \in Slots : SlotActive(s) /\ userData[s] # None =>
           \A i \in 1..Len(chan[userData[s]]) :
               Order[chan[userData[s]][i]] <= Order[inv[occ[s]]]
    /\ \A s \in Slots : cbPtr[s] # Idle =>
           \A p \in Calls : p = cbPtr[s] \/ p = userData[s] =>
               \A i \in 1..Len(chan[p]) : Order[chan[p][i]] < Order["Disconnected"]
    /\ EventsOrdered

\* Of the calls that one account queued for one entry, only the last can still be
\* in it, and once it has its handle none of the others is left in the queue.
QueueInv ==
    /\ \A a \in Accounts : \A i, j \in 1..Len(queue[a]) :
           i < j /\ slotOf[queue[a][i]] = slotOf[queue[a][j]] =>
               occ[slotOf[queue[a][i]]] # queue[a][i]
    /\ \A a \in Accounts : \A i \in 1..Len(queue[a]) : \A c \in Calls :
           box[c] # "none" /\ occ[slotOf[c]] = c /\ accOf[c] = a =>
               slotOf[queue[a][i]] # slotOf[c]
    /\ OwnEvents

-----------------------------------------------------------------------------
(* What a handle owns                                                       *)

\* At first nothing has a handle.
LEMMA LifeInit == Init => LifeInv
BY DEF Init, LifeInv, LifeOf, PortsAdded, Early, Dropping

\* A step that changes at most one handle, and leaves that one in order.
LEMMA LifeFrame ==
  ASSUME LifeInv, NEW h \in Calls, LifeOf(h)',
         \A x \in Calls \ {h} : /\ stage'[x] = stage[x] /\ box'[x] = box[x]
                                /\ job'[x] = job[x] /\ ports'[x] = ports[x]
  PROVE  LifeInv'
<1>1. ASSUME NEW x \in Calls, x # h PROVE LifeOf(x)'
  BY <1>1 DEF LifeInv, LifeOf, PortsAdded
<1> QED
  BY <1>1 DEF LifeInv

\* Every step leaves a handle with what its stage says it has.
LEMMA LifeStep ==
  ASSUME TypeOK, BegunInv, LifeInv, [Next]_vars
  PROVE  LifeInv'
<1>1. /\ stage \in [Calls -> Stages]
      /\ box \in [Calls -> {"none", "live", "freed"}]
      /\ job \in [Calls -> Jobs]
      /\ ports \in [Calls -> [sink : PortStates, stream : PortStates]]
      /\ queue \in [Accounts -> Seq(Calls)]
  BY DEF TypeOK
<1>2. CASE UNCHANGED <<stage, box, job, ports>>
  BY <1>2 DEF LifeInv, LifeOf, PortsAdded
<1>3. ASSUME NEW a \in Accounts, NextCall(a) PROVE LifeInv'
  <2>1. PICK h \in Calls : h = Head(queue[a]) /\ stage[h] = "none"
    <3>1. queue[a] \in Seq(Calls) /\ queue[a] # <<>>
      BY <1>1, <1>3 DEF NextCall
    <3>2. 1 \in 1..Len(queue[a]) /\ Head(queue[a]) = queue[a][1] /\ queue[a][1] \in Calls
      BY <3>1
    <3> QED
      BY <3>2 DEF BegunInv
  <2>2. /\ \/ stage' = [stage EXCEPT ![h] = "incoming"] /\ box' = [box EXCEPT ![h] = "live"]
           \/ stage' = [stage EXCEPT ![h] = "unmade"] /\ box' = [box EXCEPT ![h] = "freed"]
        /\ UNCHANGED <<job, ports>>
    BY <1>3, <2>1 DEF NextCall
  <2>3. LifeOf(h)'
    BY <1>1, <2>1, <2>2 DEF LifeInv, LifeOf, PortsAdded, Early, Dropping
  <2> QED
    BY <1>1, <2>1, <2>2, <2>3, LifeFrame
<1>4. ASSUME NEW h \in Calls, AnswerJob(h) PROVE LifeInv'
  <2>1. /\ UNCHANGED <<stage, box, ports>>
        /\ job[h] = "answer" /\ \E r \in {"ok", "err"} : job' = [job EXCEPT ![h] = r]
    BY <1>4 DEF AnswerJob
  <2>2. LifeOf(h)'
    BY <1>1, <2>1 DEF LifeInv, LifeOf, PortsAdded
  <2> QED
    BY <1>1, <2>1, <2>2, LifeFrame
<1>5. ASSUME NEW h \in Calls, RejectJob(h) PROVE LifeInv'
  <2>1. /\ UNCHANGED <<stage, box, ports>>
        /\ job[h] = "reject" /\ \E r \in {"ok", "err"} : job' = [job EXCEPT ![h] = r]
    BY <1>5 DEF RejectJob
  <2>2. LifeOf(h)'
    BY <1>1, <2>1 DEF LifeInv, LifeOf, PortsAdded
  <2> QED
    BY <1>1, <2>1, <2>2, LifeFrame
<1>6. ASSUME NEW h \in Calls, AnswerSessionProgress(h) PROVE LifeInv'
  <2>1. /\ UNCHANGED <<box, job, ports>>
        /\ stage[h] = "incoming" /\ stage' = [stage EXCEPT ![h] = "setup"]
    BY <1>6 DEF AnswerSessionProgress, Move
  <2>2. LifeOf(h)'
    BY <1>1, <2>1 DEF LifeInv, LifeOf, PortsAdded, Early, Dropping
  <2> QED
    BY <1>1, <2>1, <2>2, LifeFrame
<1>7. ASSUME NEW h \in Calls, Reject(h) PROVE LifeInv'
  <2>1. /\ UNCHANGED <<box, ports>>
        /\ stage[h] = "incoming" /\ stage' = [stage EXCEPT ![h] = "handle"]
        /\ job' = [job EXCEPT ![h] = "willReject"]
    BY <1>7 DEF Reject, Move
  <2>2. LifeOf(h)'
    BY <1>1, <2>1 DEF LifeInv, LifeOf, PortsAdded, Early, Dropping
  <2> QED
    BY <1>1, <2>1, <2>2, LifeFrame
<1>8. ASSUME NEW h \in Calls, Add(h) PROVE LifeInv'
  <2>1. UNCHANGED box /\ stage[h] = "setup"
    BY <1>8 DEF Add, Move
  <2>2. \E st \in {"handle", "ports", "answering"} :
           /\ stage' = [stage EXCEPT ![h] = st]
           /\ \/ st = "answering" /\ job' = [job EXCEPT ![h] = "answer"]
              \/ job' = job
           /\ \E r \in [sink : PortStates, stream : PortStates] :
                 ports' = [ports EXCEPT ![h] = r]
    BY <1>8 DEF Add, Move, PortStates
  <2>3. LifeOf(h)'
    BY <1>1, <2>1, <2>2 DEF LifeInv, LifeOf, PortsAdded, Early, Dropping
  <2> QED
    BY <1>1, <2>1, <2>2, <2>3, LifeFrame
<1>9. ASSUME NEW h \in Calls,
             \/ Answered(h) \/ AwaitCallState(h) \/ AwaitHangup(h) \/ Hangup(h)
      PROVE  LifeInv'
  <2>1. /\ UNCHANGED <<box, job, ports>>
        /\ stage[h] \in Adding \cup {"call", "awaiting"}
    BY <1>9 DEF Answered, AwaitCallState, AwaitHangup, Hangup, Move, Awaited, Adding
  <2>2. /\ stage[h] = "answering" => job[h] # "answer"
        /\ \E st \in AfterAnswer \cup {"ports", "handle"} :
              stage' = [stage EXCEPT ![h] = st]
    BY <1>9 DEF Answered, AwaitCallState, AwaitHangup, Hangup, Move, Awaited, AfterAwait,
       AfterAnswer
  <2>3. LifeOf(h)'
    BY <1>1, <2>1, <2>2
       DEF LifeInv, LifeOf, PortsAdded, Early, Dropping, AfterAnswer, Adding
  <2> QED
    BY <1>1, <2>1, <2>2, <2>3, LifeFrame
<1>10. ASSUME NEW h \in Calls, Drop(h) \/ Rejected(h) PROVE LifeInv'
  <2>1. UNCHANGED <<box, job, ports>>
    BY <1>10 DEF Drop, Rejected
  <2>2. \/ /\ stage[h] \in {"incoming", "setup"}
           /\ stage' = [stage EXCEPT ![h] = "handle"]
        \/ /\ stage[h] \in Adding \cup {"call", "awaiting"}
           /\ stage' = [stage EXCEPT ![h] = "ports"]
        \/ /\ stage[h] = "rejecting"
           /\ stage' = [stage EXCEPT ![h] = "done"]
    BY <1>10 DEF Drop, Rejected, Move, Adding
  <2>3. LifeOf(h)'
    BY <1>1, <2>1, <2>2 DEF LifeInv, LifeOf, PortsAdded, Early, Dropping, Adding
  <2> QED
    BY <1>1, <2>1, <2>2, <2>3, LifeFrame
<1>11. ASSUME NEW h \in Calls, stage[h] \in {"handle", "hangup"}, FreeHandle(h),
              UNCHANGED ports
       PROVE  LifeInv'
  <2>1. LifeOf(h)'
    BY <1>1, <1>11 DEF FreeHandle, LifeInv, LifeOf, PortsAdded, Early, Dropping
  <2> QED
    BY <1>1, <1>11, <2>1, LifeFrame DEF FreeHandle
<1>12. ASSUME NEW h \in Calls, CheckActive(h) PROVE LifeInv'
  <2>1. stage[h] = "handle" /\ UNCHANGED ports
    BY <1>12 DEF CheckActive
  <2>2. CASE stage' = [stage EXCEPT ![h] = "hangup"] /\ UNCHANGED <<box, job>>
    <3>1. LifeOf(h)'
      BY <1>1, <2>1, <2>2 DEF LifeInv, LifeOf, PortsAdded, Early, Dropping
    <3> QED
      BY <1>1, <2>1, <2>2, <3>1, LifeFrame
  <2> QED
    BY <1>11, <1>12, <2>1, <2>2 DEF CheckActive
<1>13. ASSUME NEW h \in Calls, HangupCall(h) PROVE LifeInv'
  <2>1. stage[h] = "hangup" /\ UNCHANGED ports
    BY <1>13 DEF HangupCall
  <2> QED
    BY <1>2, <1>11, <1>13, <2>1 DEF HangupCall
<1>14. ASSUME NEW h \in Calls, DropPorts(h) PROVE LifeInv'
  <2>1. stage[h] = "ports" /\ UNCHANGED <<box, job>>
    BY <1>14 DEF DropPorts
  <2>2. CASE UNCHANGED <<ports, stage>>
    BY <1>2, <2>1, <2>2
  <2>3. CASE /\ ports' = [ports EXCEPT ![h] =
                    [sink   |-> IF @.sink = "added" THEN "destroyed" ELSE @.sink,
                     stream |-> IF @.stream = "added" THEN "destroyed" ELSE @.stream]]
             /\ stage' = [stage EXCEPT ![h] = IF box[h] = "live" THEN "handle" ELSE "done"]
    <3>1. ~PortsAdded(h)'
      BY <1>1, <2>3 DEF PortsAdded
    <3>2. stage'[h] = IF box[h] = "live" THEN "handle" ELSE "done"
      BY <1>1, <2>3
    <3>3. LifeOf(h)'
      BY <1>1, <2>1, <3>1, <3>2 DEF LifeInv, LifeOf, Early, Dropping
    <3> QED
      BY <1>1, <2>1, <2>3, <3>3, LifeFrame
  <2> QED
    BY <1>14, <2>2, <2>3 DEF DropPorts
<1>15. ASSUME NEW c \in Calls, NEW a \in Accounts, NEW s \in Slots, IncomingCall(c, a, s)
       PROVE  LifeInv'
  BY <1>2, <1>15 DEF IncomingCall, handleVars
<1>16. ASSUME NEW c \in Calls, Confirm(c) \/ RemoteEnd(c) PROVE LifeInv'
  BY <1>2, <1>16 DEF Confirm, RemoteEnd, handleVars
<1>17. ASSUME NEW s \in Slots,
              RemoteEndReads(s) \/ RemoteEndReported(s) \/ OnCallMediaState(s)
       PROVE  LifeInv'
  BY <1>2, <1>17 DEF RemoteEndReads, RemoteEndReported, OnCallMediaState, handleVars
<1>18. ASSUME NEW a \in Accounts, AddAccount(a) \/ DropAccount(a) PROVE LifeInv'
  BY <1>2, <1>18 DEF AddAccount, DropAccount, handleVars
<1>19. CASE UNCHANGED vars
  BY <1>2, <1>19 DEF vars, handleVars
<1> QED
  BY <1>3, <1>4, <1>5, <1>6, <1>7, <1>8, <1>9, <1>10, <1>12, <1>13, <1>14, <1>15, <1>16,
     <1>17, <1>18, <1>19 DEF Next, Worker, Pool, Owner

\* Whatever way a handle went, its user data is freed and its ports have left the
\* bridge once it is gone.
THEOREM HandlesLeaveNothingBehind == Spec => []Released
<1>1. Init => LifeInv
  BY LifeInit
<1>2. IInv /\ LifeInv /\ [Next]_vars => LifeInv'
  BY LifeStep DEF IInv
<1>3. IInv /\ LifeInv => Released
  <2> SUFFICES ASSUME IInv, LifeInv, NEW h \in Calls, stage[h] \in {"done", "unmade"}
               PROVE  box[h] = "freed" /\ ~PortsAdded(h)
    BY DEF Released
  <2> QED
    BY DEF LifeInv, LifeOf, IInv, TypeOK
<1> QED
  BY <1>1, <1>2, <1>3, Invariant, PTL DEF Spec

-----------------------------------------------------------------------------
(* Answers and media data                                                   *)

\* At first nobody has answered anything.
LEMMA AnswerInit == Init => AnswerInv
BY CallAssumption
   DEF Init, AnswerInv, AnswerOf, OnRecord, HasAnswered, Early, AfterAnswer

\* A step that answers nothing, and changes at most one handle.
LEMMA AnswerFrame ==
  ASSUME IInv, AnswerInv, [Next]_vars, NEW h \in Calls, AnswerOf(h)',
         UNCHANGED answeredBy,
         \A c \in Calls :
            \/ inv'[c] = inv[c] \/ inv'[c] = "Disconnected"
            \/ {inv[c], inv'[c]} \in {{"Null", "Incoming"}, {"Connecting", "Confirmed"}},
         \A x \in Calls \ {h} : /\ stage'[x] = stage[x] /\ box'[x] = box[x]
                                /\ job'[x] = job[x] /\ ports'[x] = ports[x]
                                /\ media'[x] = media[x]
  PROVE  AnswerInv'
<1>1. ASSUME NEW x \in Calls PROVE OnRecord(x)'
  BY DEF AnswerInv, OnRecord
<1>2. ASSUME NEW x \in Calls, x # h PROVE AnswerOf(x)'
  BY <1>2, EndedForGood DEF AnswerInv, AnswerOf, HasAnswered
<1> QED
  BY <1>1, <1>2 DEF AnswerInv

\* When a handle's user data is freed its call has ended, or ends with it.
LEMMA FreedWhenOver ==
  ASSUME IInv, NEW h \in Calls, stage[h] # "none",
         \/ ~SlotActive(slotOf[h]) /\ UNCHANGED inv
         \/ SlotActive(slotOf[h]) /\ EndCall(h)
  PROVE  inv'[h] = "Disconnected"
<1>1. inv[h] # "Null" /\ TableInv
  BY DEF IInv, BegunInv
<1>2. CASE ~SlotActive(slotOf[h]) /\ UNCHANGED inv
  <2>1. occ[slotOf[h]] # h \/ ~Active(h)
    BY <1>2, CallAssumption DEF SlotActive
  <2> QED
    BY <1>1, <1>2, <2>1 DEF TableInv, SessionStates, Active
<1> QED
  BY <1>1, <1>2, EndCallEndsOwn

\* An answer goes on record with the handle whose job gave it.
LEMMA AnswerJobStep ==
  ASSUME IInv, LifeInv, AnswerInv, [Next]_vars, NEW h \in Calls, AnswerJob(h)
  PROVE  AnswerInv'
<1>1. /\ job \in [Calls -> Jobs] /\ inv \in [Calls -> PjsipInvState]
      /\ occ \in [Slots -> Calls \cup {None}] /\ slotOf \in [Calls -> Slots \cup {None}]
      /\ answeredBy \in [Calls -> Calls \cup {None}]
      /\ None \notin Calls
      /\ TableInv /\ BegunInv
  BY CallAssumption DEF IInv, TypeOK
<1>2. /\ UNCHANGED <<stage, box, media, ports>>
      /\ job[h] = "answer"
      /\ \E r \in {"ok", "err"} : job' = [job EXCEPT ![h] = r]
  BY DEF AnswerJob
<1>3. CASE UNCHANGED <<inv, answeredBy>> /\ job' = [job EXCEPT ![h] = "err"]
  <2>1. AnswerOf(h)'
    BY <1>1, <1>2, <1>3 DEF AnswerInv, AnswerOf, HasAnswered
  <2> QED
    BY <1>1, <1>2, <1>3, <2>1, AnswerFrame
<1>4. CASE /\ Ringing(slotOf[h])
           /\ inv' = [inv EXCEPT ![occ[slotOf[h]]] = "Connecting"]
           /\ answeredBy' = [answeredBy EXCEPT ![occ[slotOf[h]]] = h]
  <2>1. PICK c \in Calls : /\ c = occ[slotOf[h]] /\ inv[c] = "Incoming"
                           /\ answeredBy[c] = None
    BY <1>1, <1>2, <1>4 DEF Ringing, AnswerInv, OnRecord, BegunInv, TableInv
  <2>2. /\ answeredBy'[c] = h /\ inv'[c] = "Connecting"
        /\ \A x \in Calls \ {c} : answeredBy'[x] = answeredBy[x] /\ inv'[x] = inv[x]
    BY <1>1, <1>4, <2>1
  <2>3. ASSUME NEW x \in Calls PROVE OnRecord(x)'
    BY <1>1, <2>2 DEF AnswerInv, OnRecord
  <2>4. \A x \in Calls : HasAnswered(x)' <=> x = h \/ HasAnswered(x)
    BY <1>1, <2>1, <2>2 DEF HasAnswered
  <2>5. ASSUME NEW x \in Calls PROVE AnswerOf(x)'
    <3>1. CASE x = h
      <4>1. media[h] # "unsent" /\ (box[h] = "freed" => inv'[h] = "Disconnected")
        BY <1>2, EndedForGood DEF AnswerInv, AnswerOf
      <4> QED
        BY <1>1, <1>2, <2>4, <3>1, <4>1 DEF AnswerInv, AnswerOf
    <3>2. CASE x # h
      <4>1. job'[x] = job[x] /\ (inv[x] = "Disconnected" => inv'[x] = "Disconnected")
        BY <1>1, <1>2, <3>2, EndedForGood
      <4> QED
        BY <1>2, <2>4, <3>2, <4>1 DEF AnswerInv, AnswerOf
    <3> QED
      BY <3>1, <3>2
  <2> QED
    BY <2>3, <2>5 DEF AnswerInv
<1> QED
  BY <1>3, <1>4 DEF AnswerJob

\* Every step keeps a handle's answer, its media data and its ports in line.
LEMMA AnswerStep ==
  ASSUME IInv, LifeInv, AnswerInv, [Next]_vars
  PROVE  AnswerInv'
<1>1. /\ stage \in [Calls -> Stages]
      /\ box \in [Calls -> {"none", "live", "freed"}]
      /\ job \in [Calls -> Jobs]
      /\ ports \in [Calls -> [sink : PortStates, stream : PortStates]]
      /\ media \in [Calls -> {"unsent", "sent"} \cup Calls]
      /\ inv \in [Calls -> PjsipInvState]
      /\ queue \in [Accounts -> Seq(Calls)]
      /\ occ \in [Slots -> Calls \cup {None}]
      /\ userData \in [Slots -> Calls \cup {None}]
      /\ {"unsent", "sent"} \cap Calls = {} /\ None \notin Calls
      /\ BegunInv /\ TableInv /\ PointerInv
  BY CallAssumption DEF IInv, TypeOK
<1> DEFINE Others(h) ==
             \A x \in Calls \ {h} : /\ stage'[x] = stage[x] /\ box'[x] = box[x]
                                    /\ job'[x] = job[x] /\ ports'[x] = ports[x]
                                    /\ media'[x] = media[x]
           CallsMove ==
             \A c \in Calls :
                \/ inv'[c] = inv[c] \/ inv'[c] = "Disconnected"
                \/ {inv[c], inv'[c]} \in {{"Null", "Incoming"}, {"Connecting", "Confirmed"}}
<1>2. ASSUME NEW h \in Calls, AnswerOf(h)', UNCHANGED answeredBy, CallsMove, Others(h)
      PROVE  AnswerInv'
  BY <1>2, AnswerFrame
<1>3. ASSUME UNCHANGED <<stage, box, job, ports, media, answeredBy>>, CallsMove
      PROVE  AnswerInv'
  <2>1. ASSUME NEW x \in Calls PROVE AnswerOf(x)'
    BY <1>3, EndedForGood DEF AnswerInv, AnswerOf, HasAnswered
  <2>2. ASSUME NEW x \in Calls PROVE OnRecord(x)'
    BY <1>3 DEF AnswerInv, OnRecord
  <2> QED
    BY <2>1, <2>2 DEF AnswerInv
<1>4. UNCHANGED inv => CallsMove
  OBVIOUS
<1>5. ASSUME NEW h \in Calls, EndCall(h) PROVE CallsMove
  BY <1>1, <1>5 DEF EndCall
<1>6. ASSUME NEW c \in Calls, NEW a \in Accounts, NEW s \in Slots, IncomingCall(c, a, s)
      PROVE  AnswerInv'
  <2>1. CallsMove
    BY <1>1, <1>6 DEF IncomingCall
  <2> HIDE DEF CallsMove, Others
  <2> QED
    BY <1>3, <1>6, <2>1 DEF IncomingCall, handleVars, histVars
<1>7. ASSUME NEW c \in Calls, Confirm(c) \/ RemoteEnd(c) PROVE AnswerInv'
  <2>1. CallsMove
    BY <1>1, <1>7 DEF Confirm, RemoteEnd
  <2> HIDE DEF CallsMove, Others
  <2> QED
    BY <1>3, <1>7, <2>1 DEF Confirm, RemoteEnd, handleVars, histVars
<1> HIDE DEF CallsMove
<1>8. ASSUME NEW s \in Slots, RemoteEndReads(s) \/ RemoteEndReported(s) PROVE AnswerInv'
  BY <1>3, <1>4, <1>8 DEF RemoteEndReads, RemoteEndReported, handleVars, histVars
<1>9. ASSUME NEW s \in Slots, OnCallMediaState(s) PROVE AnswerInv'
  <2>1. UNCHANGED <<stage, box, job, ports, inv, answeredBy>> /\ occ[s] \in Calls
    BY <1>1, <1>9 DEF OnCallMediaState, pjsuaVars, histVars
  <2>2. CASE UNCHANGED media
    BY <1>3, <1>4, <2>1, <2>2
  <2>3. CASE /\ Usable(userData[s]) /\ media[userData[s]] = "sent"
             /\ media' = [media EXCEPT ![userData[s]] = occ[s]]
    <3>1. PICK p \in Calls : p = userData[s]
      BY <1>1, <2>3 DEF Usable
    <3>2. media[p] = "sent" /\ media'[p] \notin {"sent", "unsent"}
      BY <1>1, <2>1, <2>3, <3>1
    <3>3. AnswerOf(p)'
      BY <2>1, <3>2 DEF AnswerInv, AnswerOf, HasAnswered
    <3>4. Others(p)
      BY <1>1, <2>1, <2>3, <3>1
    <3> QED
      BY <1>2, <1>4, <2>1, <3>3, <3>4
  <2> QED
    BY <1>9, <2>2, <2>3 DEF OnCallMediaState
<1>10. ASSUME NEW h \in Calls, AnswerJob(h) PROVE AnswerInv'
  BY <1>10, AnswerJobStep
<1>11. ASSUME NEW h \in Calls, RejectJob(h) PROVE AnswerInv'
  <2>1. /\ UNCHANGED <<stage, box, media, ports, answeredBy>>
        /\ job[h] = "reject"
        /\ \E r \in {"ok", "err"} : job' = [job EXCEPT ![h] = r]
    BY <1>11 DEF RejectJob
  <2>2. CallsMove
    BY <1>4, <1>5, <1>11 DEF RejectJob
  <2>3. /\ stage[h] \in {"rejecting", "done"}
        /\ inv[h] = "Disconnected" => inv'[h] = "Disconnected"
    BY <2>1, EndedForGood DEF LifeInv, LifeOf
  <2>4. AnswerOf(h)'
    BY <1>1, <2>1, <2>3 DEF AnswerInv, AnswerOf, HasAnswered, AfterAnswer
  <2>5. Others(h)
    BY <1>1, <2>1
  <2> QED
    BY <1>2, <2>1, <2>2, <2>4, <2>5
<1>12. ASSUME NEW a \in Accounts, NextCall(a) PROVE AnswerInv'
  <2>1. PICK h \in Calls : h = Head(queue[a]) /\ stage[h] = "none"
    <3>1. queue[a] \in Seq(Calls) /\ queue[a] # <<>>
      BY <1>1, <1>12 DEF NextCall
    <3>2. 1 \in 1..Len(queue[a]) /\ Head(queue[a]) = queue[a][1] /\ queue[a][1] \in Calls
      BY <3>1
    <3> QED
      BY <1>1, <3>2 DEF BegunInv
  <2>2. /\ \/ stage' = [stage EXCEPT ![h] = "incoming"] /\ box' = [box EXCEPT ![h] = "live"]
           \/ stage' = [stage EXCEPT ![h] = "unmade"] /\ box' = [box EXCEPT ![h] = "freed"]
        /\ UNCHANGED <<job, ports, media, inv, answeredBy>>
    BY <1>12, <2>1 DEF NextCall, histVars
  <2>3. media[h] = "unsent" /\ ~HasAnswered(h) /\ job[h] = "none"
    BY <2>1 DEF AnswerInv, AnswerOf, LifeInv, LifeOf, Early
  <2>4. AnswerOf(h)'
    BY <1>1, <2>1, <2>2, <2>3 DEF AnswerOf, HasAnswered, Early, AfterAnswer
  <2>5. Others(h)
    BY <1>1, <2>2
  <2> QED
    BY <1>2, <1>4, <2>2, <2>4, <2>5
<1>13. ASSUME NEW h \in Calls, AnswerSessionProgress(h) \/ Reject(h) PROVE AnswerInv'
  <2>1. /\ UNCHANGED <<box, ports, media, inv, answeredBy>>
        /\ stage[h] = "incoming"
        /\ \E st \in {"setup", "handle"} : stage' = [stage EXCEPT ![h] = st]
        /\ job' = job \/ job' = [job EXCEPT ![h] = "willReject"]
    BY <1>13 DEF AnswerSessionProgress, Reject, Move, pjsuaVars, histVars
  <2>2. media[h] = "unsent" /\ ~HasAnswered(h) /\ job[h] = "none" /\ box[h] = "live"
    BY <1>1, <2>1 DEF AnswerInv, AnswerOf, LifeInv, LifeOf, Early
  <2>3. AnswerOf(h)'
    BY <1>1, <2>1, <2>2 DEF AnswerOf, HasAnswered, Early, AfterAnswer
  <2>4. Others(h)
    BY <1>1, <2>1
  <2> QED
    BY <1>2, <1>4, <2>1, <2>3, <2>4
<1>14. ASSUME NEW h \in Calls, Add(h) PROVE AnswerInv'
  <2>1. UNCHANGED <<box, inv, answeredBy>> /\ stage[h] = "setup"
    BY <1>14 DEF Add, Move, pjsuaVars, histVars
  <2>2. \/ /\ \E st \in {"handle", "ports"} : stage' = [stage EXCEPT ![h] = st]
           /\ UNCHANGED <<job, media>>
        \/ /\ stage' = [stage EXCEPT ![h] = "answering"]
           /\ job' = [job EXCEPT ![h] = "answer"]
           /\ media' = [media EXCEPT ![h] = "sent"]
           /\ ports' = [ports EXCEPT ![h] = [sink |-> "added", stream |-> "added"]]
    BY <1>14 DEF Add, Move
  <2>3. media[h] = "unsent" /\ ~HasAnswered(h) /\ job[h] = "none" /\ box[h] = "live"
    BY <1>1, <2>1 DEF AnswerInv, AnswerOf, LifeInv, LifeOf, Early
  <2>4. AnswerOf(h)'
    BY <1>1, <2>1, <2>2, <2>3 DEF AnswerOf, HasAnswered, Early, AfterAnswer
  <2>5. Others(h)
    BY <1>1, <1>14 DEF Add, Move
  <2> QED
    BY <1>2, <1>4, <2>1, <2>4, <2>5
<1>15. ASSUME NEW h \in Calls,
              \/ Answered(h) \/ AwaitCallState(h) \/ AwaitHangup(h) \/ Hangup(h)
       PROVE  AnswerInv'
  <2>1. UNCHANGED <<box, job, ports, media, inv, answeredBy>>
    BY <1>15 DEF Answered, AwaitCallState, AwaitHangup, Hangup, pjsuaVars, histVars
  <2>2. \/ /\ stage[h] = "answering"
           /\ \/ job[h] = "ok" /\ stage' = [stage EXCEPT ![h] = "connecting"]
              \/ stage' = [stage EXCEPT ![h] = "ports"]
        \/ /\ stage[h] \in AfterAnswer
           /\ \E st \in AfterAnswer \cup {"ports", "handle"} :
                 stage' = [stage EXCEPT ![h] = st]
    BY <1>15 DEF Answered, AwaitCallState, AwaitHangup, Hangup, Move, Awaited, AfterAwait,
       AfterAnswer
  <2>3. AnswerOf(h)'
    BY <1>1, <2>1, <2>2 DEF AnswerInv, AnswerOf, HasAnswered, Early, AfterAnswer
  <2>4. Others(h)
    BY <1>1, <2>1, <2>2
  <2> QED
    BY <1>2, <1>4, <2>1, <2>3, <2>4
<1>16. ASSUME NEW h \in Calls, Drop(h) \/ Rejected(h) PROVE AnswerInv'
  <2>1. UNCHANGED <<box, job, ports, media, inv, answeredBy>>
    BY <1>16 DEF Drop, Rejected, pjsuaVars, histVars
  <2>2. \/ /\ stage[h] \in {"incoming", "setup"}
           /\ stage' = [stage EXCEPT ![h] = "handle"]
        \/ /\ stage[h] \in Adding \cup {"call", "awaiting"}
           /\ stage' = [stage EXCEPT ![h] = "ports"]
        \/ /\ stage[h] = "rejecting"
           /\ stage' = [stage EXCEPT ![h] = "done"]
    BY <1>16 DEF Drop, Rejected, Move, Adding
  <2>3. stage[h] = "rejecting" => box[h] # "live"
    BY DEF LifeInv, LifeOf
  <2>4. AnswerOf(h)'
    BY <1>1, <2>1, <2>2, <2>3
       DEF AnswerInv, AnswerOf, HasAnswered, Early, AfterAnswer, Adding
  <2>5. Others(h)
    BY <1>1, <2>1, <2>2
  <2> QED
    BY <1>2, <1>4, <2>1, <2>4, <2>5
<1>17. ASSUME NEW h \in Calls, stage[h] \in {"handle", "hangup"}, FreeHandle(h), CallsMove,
              inv'[h] = "Disconnected", UNCHANGED <<ports, media, answeredBy>>
       PROVE  AnswerInv'
  <2>1. /\ box' = [box EXCEPT ![h] = "freed"]
        /\ \E st \in {"rejecting", "ports", "done"} : stage' = [stage EXCEPT ![h] = st]
        /\ job' = job \/ job' = [job EXCEPT ![h] = "reject"]
    BY <1>17 DEF FreeHandle
  <2>2. AnswerOf(h)'
    BY <1>1, <1>17, <2>1 DEF AnswerInv, AnswerOf, HasAnswered, Early, AfterAnswer
  <2>3. Others(h)
    BY <1>1, <1>17, <2>1
  <2> QED
    BY <1>2, <1>17, <2>2, <2>3
<1>18. ASSUME NEW h \in Calls, CheckActive(h) PROVE AnswerInv'
  <2>1. stage[h] = "handle" /\ UNCHANGED <<ports, media, inv, answeredBy>>
    BY <1>18 DEF CheckActive, pjsuaVars, histVars
  <2>2. CASE stage' = [stage EXCEPT ![h] = "hangup"] /\ UNCHANGED <<box, job>>
    <3>1. AnswerOf(h)'
      BY <1>1, <2>1, <2>2 DEF AnswerInv, AnswerOf, HasAnswered, Early, AfterAnswer
    <3>2. Others(h)
      BY <1>1, <2>1, <2>2
    <3> QED
      BY <1>2, <1>4, <2>1, <3>1, <3>2
  <2>3. CASE ~SlotActive(slotOf[h]) /\ FreeHandle(h)
    <3>1. inv'[h] = "Disconnected"
      BY <2>1, <2>3, FreedWhenOver
    <3> QED
      BY <1>4, <1>17, <2>1, <2>3, <3>1
  <2> QED
    BY <1>18, <2>2, <2>3 DEF CheckActive
<1>19. ASSUME NEW h \in Calls, HangupCall(h) PROVE AnswerInv'
  <2>1. stage[h] = "hangup" /\ UNCHANGED <<ports, media, answeredBy>>
    BY <1>19 DEF HangupCall
  <2>2. CASE UNCHANGED <<inv, box, job, stage>>
    BY <1>3, <1>4, <2>1, <2>2
  <2>3. CASE SlotActive(slotOf[h]) /\ EndCall(h) /\ FreeHandle(h)
    <3>1. inv'[h] = "Disconnected"
      BY <2>1, <2>3, FreedWhenOver
    <3>2. CallsMove
      BY <1>5, <2>3
    <3> QED
      BY <1>17, <2>1, <2>3, <3>1, <3>2
  <2> QED
    BY <1>19, <2>2, <2>3 DEF HangupCall
<1>20. ASSUME NEW h \in Calls, DropPorts(h) PROVE AnswerInv'
  <2>1. stage[h] = "ports" /\ UNCHANGED <<box, job, media, inv, answeredBy>>
    BY <1>20 DEF DropPorts, pjsuaVars, histVars
  <2>2. CASE UNCHANGED <<ports, stage>>
    BY <1>3, <1>4, <2>1, <2>2
  <2>3. CASE /\ ports' = [ports EXCEPT ![h] =
                    [sink   |-> IF @.sink = "added" THEN "destroyed" ELSE @.sink,
                     stream |-> IF @.stream = "added" THEN "destroyed" ELSE @.stream]]
             /\ stage' = [stage EXCEPT ![h] = IF box[h] = "live" THEN "handle" ELSE "done"]
    <3>1. /\ ports[h].sink = "added" => ports'[h].sink = "destroyed"
          /\ stage'[h] = IF box[h] = "live" THEN "handle" ELSE "done"
      BY <1>1, <2>3
    <3>2. AnswerOf(h)'
      BY <1>1, <2>1, <3>1 DEF AnswerInv, AnswerOf, HasAnswered, Early, AfterAnswer
    <3>3. Others(h)
      BY <1>1, <2>1, <2>3
    <3> QED
      BY <1>2, <1>4, <2>1, <3>2, <3>3
  <2> QED
    BY <1>20, <2>2, <2>3 DEF DropPorts
<1>21. ASSUME NEW a \in Accounts, AddAccount(a) \/ DropAccount(a) PROVE AnswerInv'
  BY <1>3, <1>4, <1>21 DEF AddAccount, DropAccount, pjsuaVars, handleVars, histVars
<1>22. CASE UNCHANGED vars
  BY <1>3, <1>4, <1>22 DEF vars, pjsuaVars, handleVars, histVars
<1> QED
  BY <1>6, <1>7, <1>8, <1>9, <1>10, <1>11, <1>12, <1>13, <1>14, <1>15, <1>16, <1>18,
     <1>19, <1>20, <1>21, <1>22 DEF Next, Worker, Pool, Owner

\* Together with what PjsuaCallProofs shows.
LifeAndAnswers == IInv /\ LifeInv /\ AnswerInv /\ OthersOnlyWhenOver

\* It always holds.
LEMMA LifeAndAnswersInvariant == Spec => []LifeAndAnswers
<1>1. Init => LifeInv /\ AnswerInv
  BY LifeInit, AnswerInit
<1>2. IInv /\ LifeInv /\ AnswerInv /\ [Next]_vars => LifeInv' /\ AnswerInv'
  BY LifeStep, AnswerStep DEF IInv
<1> QED
  BY <1>1, <1>2, Invariant, LiveHandlesKeepToTheirCall, PTL DEF Spec, LifeAndAnswers

\* Before the remote side can acknowledge an answer, the media data that
\* on_call_media_state will ask for is in place.
THEOREM MediaDataComesBeforeTheAnswer == Spec => []MediaReady
<1>1. LifeAndAnswers => MediaReady
  <2> SUFFICES ASSUME LifeAndAnswers, NEW c \in Calls, answeredBy[c] = c,
                      inv[c] \in {"Connecting", "Confirmed"}
               PROVE  media[c] \in {"sent", c}
    BY DEF MediaReady
  <2>1. media[c] \in {"unsent", "sent"} \cup Calls
    BY DEF LifeAndAnswers, IInv, TypeOK
  <2>2. media[c] # "unsent"
    BY DEF LifeAndAnswers, AnswerInv, AnswerOf, HasAnswered
  <2>3. media[c] \in Calls => media[c] = c
    BY DEF LifeAndAnswers, OthersOnlyWhenOver
  <2> QED
    BY <2>1, <2>2, <2>3
<1> QED
  BY <1>1, LifeAndAnswersInvariant, PTL

\* A failure of connect_slots leaves the handle where its ports had just gone.
LEMMA ConnectFailsStep ==
  ASSUME LifeAndAnswers, ConnectFailsInDropOnly, [Next]_vars
  PROVE  ConnectFailsInDropOnly'
<1> SUFFICES ASSUME status' = "connect_failed",
                    {"call_conf_port", "conf_connect"} \cap Faults = {}
             PROVE  \E h \in Calls : stage'[h] \in {"handle", "hangup"} /\
                                     ports'[h].sink = "destroyed"
  BY DEF ConnectFailsInDropOnly
<1>1. CASE UNCHANGED vars
  BY <1>1 DEF vars, handleVars, ConnectFailsInDropOnly
<1>2. ASSUME NEW s \in Slots, OnCallMediaState(s)
      PROVE  \E h \in Calls : stage'[h] \in {"handle", "hangup"} /\
                              ports'[h].sink = "destroyed"
  <2>1. /\ Usable(userData[s]) /\ media[userData[s]] = "sent"
        /\ ports[userData[s]] # [sink |-> "added", stream |-> "added"]
        /\ UNCHANGED <<stage, ports>>
    BY <1>2 DEF OnCallMediaState, Running
  <2>2. userData[s] \in Calls /\ box[userData[s]] = "live"
    BY <2>1 DEF Usable, LifeAndAnswers, IInv, TypeOK
  <2> QED
    BY <2>1, <2>2 DEF LifeAndAnswers, AnswerInv, AnswerOf
<1>3. ASSUME NEW p, NEW st, Running, OnCallState(p, st) PROVE FALSE
  BY <1>3 DEF OnCallState, Running
<1>4. ASSUME Running, UNCHANGED status PROVE FALSE
  BY <1>4 DEF Running
<1>5. ASSUME NEW c \in Calls, NEW a \in Accounts, NEW s \in Slots, IncomingCall(c, a, s)
      PROVE  FALSE
  BY <1>5 DEF IncomingCall, OnIncomingCall, Running
<1>6. ASSUME NEW c \in Calls, Confirm(c) \/ RemoteEnd(c) PROVE FALSE
  BY <1>3, <1>4, <1>6 DEF Confirm, RemoteEnd
<1>7. ASSUME NEW s \in Slots, RemoteEndReads(s) \/ RemoteEndReported(s) PROVE FALSE
  BY <1>3, <1>4, <1>7 DEF RemoteEndReads, RemoteEndReported
<1>8. ASSUME NEW h \in Calls, AnswerJob(h) \/ RejectJob(h) \/ HangupCall(h) PROVE FALSE
  BY <1>3, <1>4, <1>8 DEF AnswerJob, RejectJob, HangupCall, EndCall
<1>9. ASSUME NEW h \in Calls,
             \/ AnswerSessionProgress(h) \/ Reject(h) \/ Add(h) \/ Answered(h)
             \/ AwaitCallState(h) \/ AwaitHangup(h) \/ Drop(h) \/ Hangup(h) \/ Rejected(h)
             \/ CheckActive(h)
      PROVE  FALSE
  BY <1>4, <1>9 DEF AnswerSessionProgress, Reject, Add, Answered, AwaitCallState,
     AwaitHangup, Drop, Hangup, Rejected, CheckActive, Move
<1>10. ASSUME NEW h \in Calls, DropPorts(h) PROVE FALSE
  BY <1>4, <1>10 DEF DropPorts
<1>11. ASSUME NEW a \in Accounts, AddAccount(a) \/ DropAccount(a) \/ NextCall(a)
       PROVE  FALSE
  BY <1>4, <1>11 DEF AddAccount, DropAccount, NextCall
<1> QED
  BY <1>1, <1>2, <1>5, <1>6, <1>7, <1>8, <1>9, <1>10, <1>11 DEF Next, Worker, Pool, Owner

\* connect_slots fails without a fault of pjsua only for a handle inside its drop.
THEOREM ConnectsExceptInADrop == Spec => []ConnectFailsInDropOnly
<1>1. Init => ConnectFailsInDropOnly
  BY DEF Init, ConnectFailsInDropOnly
<1>2. LifeAndAnswers /\ ConnectFailsInDropOnly /\ [Next]_vars => ConnectFailsInDropOnly'
  BY ConnectFailsStep
<1> QED
  BY <1>1, <1>2, LifeAndAnswersInvariant, PTL DEF Spec

-----------------------------------------------------------------------------
(* Queues and the user data of a call                                       *)

\* At first no call is queued.
LEMMA QueueInit == Init => QueueInv
BY DEF Init, QueueInv, OwnEvents

\* A step that queues nothing, gives no handle its box and no entry a call or a
\* handle's user data.
LEMMA QueueFrame ==
  ASSUME IInv, QueueInv, UNCHANGED <<slotOf, accOf>>,
         \A a \in Accounts : queue'[a] \in {queue[a], <<>>},
         \A x \in Calls : box'[x] = box[x] \/ (box[x] = "live" /\ box'[x] = "freed"),
         \A s \in Slots :
            \/ occ'[s] = occ[s] /\ userData'[s] = userData[s]
            \/ occ'[s] = None,
         \A x \in Calls : inv[x] = "Disconnected" => inv'[x] = "Disconnected"
  PROVE  QueueInv'
<1>1. /\ queue \in [Accounts -> Seq(Calls)]
      /\ slotOf \in [Calls -> Slots \cup {None}]
      /\ occ \in [Slots -> Calls \cup {None}]
      /\ None \notin Calls \cup Slots
      /\ TableInv /\ BegunInv
  BY CallAssumption DEF IInv, TypeOK
<1>2. ASSUME NEW a \in Accounts, NEW i \in 1..Len(queue'[a])
      PROVE  /\ queue'[a] = queue[a] /\ i \in 1..Len(queue[a])
             /\ queue[a][i] \in Calls /\ slotOf[queue[a][i]] \in Slots
  <2>1. queue'[a] = queue[a]
    BY <1>2
  <2> QED
    BY <1>1, <1>2, <2>1 DEF BegunInv, TableInv
<1>3. ASSUME NEW a \in Accounts, NEW i \in 1..Len(queue'[a]), NEW j \in 1..Len(queue'[a]),
             i < j, slotOf'[queue'[a][i]] = slotOf'[queue'[a][j]]
      PROVE  occ'[slotOf'[queue'[a][i]]] # queue'[a][i]
  <2>1. /\ queue'[a] = queue[a] /\ i \in 1..Len(queue[a]) /\ j \in 1..Len(queue[a])
        /\ queue[a][i] \in Calls /\ slotOf[queue[a][i]] \in Slots
    BY <1>2, <1>3
  <2>2. occ[slotOf[queue[a][i]]] # queue[a][i]
    BY <1>3, <2>1 DEF QueueInv
  <2> QED
    BY <1>1, <2>1, <2>2
<1>4. ASSUME NEW c \in Calls, box'[c] # "none", occ'[slotOf[c]] = c
      PROVE  /\ box[c] # "none" /\ (box'[c] = "live" => box[c] = "live")
             /\ occ[slotOf[c]] = c /\ userData'[slotOf[c]] = userData[slotOf[c]]
  <2>1. box[c] # "none" /\ (box'[c] = "live" => box[c] = "live")
    BY <1>4
  <2>2. slotOf[c] \in Slots
    BY <1>1, <2>1 DEF BegunInv, TableInv
  <2> QED
    BY <1>1, <1>4, <2>1, <2>2
<1>5. ASSUME NEW a \in Accounts, NEW i \in 1..Len(queue'[a]), NEW c \in Calls,
             box'[c] # "none", occ'[slotOf'[c]] = c, accOf'[c] = a
      PROVE  slotOf'[queue'[a][i]] # slotOf'[c]
  BY <1>2, <1>4, <1>5 DEF QueueInv
<1>6. ASSUME NEW c \in Calls, box'[c] = "live", occ'[slotOf'[c]] = c
      PROVE  LET p == userData'[slotOf'[c]]
             IN  p = c \/ (p # None /\ accOf'[p] # accOf'[c] /\ inv'[p] = "Disconnected")
  <2>1. slotOf[c] \in Slots /\ userData[slotOf[c]] \in Calls \cup {None}
    BY <1>1, <1>4, <1>6 DEF BegunInv, TableInv, IInv, TypeOK
  <2> QED
    BY <1>4, <1>6, <2>1 DEF QueueInv, OwnEvents
<1> QED
  BY <1>3, <1>5, <1>6 DEF QueueInv, OwnEvents

\* An INVITE queues its call last, and finds the entry free.
LEMMA QueueIncoming ==
  ASSUME IInv, QueueInv, NEW c \in Calls, NEW b \in Accounts, NEW s \in Slots,
         IncomingCall(c, b, s)
  PROVE  QueueInv'
<1>1. /\ queue \in [Accounts -> Seq(Calls)]
      /\ slotOf \in [Calls -> Slots \cup {None}]
      /\ accOf \in [Calls -> Accounts \cup {None}]
      /\ occ \in [Slots -> Calls \cup {None}]
      /\ userData \in [Slots -> Calls \cup {None}]
      /\ box \in [Calls -> {"none", "live", "freed"}]
      /\ None \notin Calls \cup Slots
      /\ TableInv /\ BegunInv /\ PointerInv
  BY CallAssumption DEF IInv, TypeOK
<1>2. /\ inv[c] = "Null" /\ occ[s] = None /\ UNCHANGED box
      /\ slotOf' = [slotOf EXCEPT ![c] = s]
      /\ accOf' = [accOf EXCEPT ![c] = b]
      /\ occ' = [occ EXCEPT ![s] = c]
      /\ userData' = [userData EXCEPT ![s] = None]
      /\ inv' = [inv EXCEPT ![c] = "Incoming"]
      /\ queue' = queue \/ queue' = [queue EXCEPT ![b] = Append(@, c)]
  BY DEF IncomingCall, OnIncomingCall, handleVars
<1>3. box[c] = "none"
  BY <1>1, <1>2 DEF BegunInv
<1>4. ASSUME NEW a \in Accounts, NEW i \in 1..Len(queue'[a])
      PROVE  \/ i = Len(queue'[a]) /\ queue'[a][i] = c
             \/ /\ i \in 1..Len(queue[a]) /\ queue'[a][i] = queue[a][i]
                /\ queue[a][i] \in Calls \ {c} /\ slotOf[queue[a][i]] \in Slots
                /\ slotOf'[queue[a][i]] = slotOf[queue[a][i]]
  <2>1. /\ queue[a] \in Seq(Calls) /\ Len(queue[a]) \in Nat
        /\ queue'[a] = queue[a] \/ queue'[a] = Append(queue[a], c)
    BY <1>1, <1>2
  <2>2. \/ i = Len(queue'[a]) /\ queue'[a][i] = c
        \/ /\ i \in 1..Len(queue[a]) /\ queue'[a][i] = queue[a][i]
           /\ queue[a][i] \in Calls
    BY <1>4, <2>1
  <2>3. i \in 1..Len(queue[a]) => inv[queue[a][i]] # "Null"
    BY DEF BegunInv, IInv
  <2> QED
    BY <1>1, <1>2, <2>2, <2>3 DEF TableInv
<1>5. ASSUME NEW a \in Accounts, NEW i \in 1..Len(queue'[a]), NEW j \in 1..Len(queue'[a]),
             i < j, slotOf'[queue'[a][i]] = slotOf'[queue'[a][j]]
      PROVE  occ'[slotOf'[queue'[a][i]]] # queue'[a][i]
  <2>1. Len(queue'[a]) \in Nat
    BY <1>1, <1>2
  <2>2. /\ i \in 1..Len(queue[a]) /\ queue'[a][i] = queue[a][i]
        /\ queue[a][i] \in Calls \ {c} /\ slotOf[queue[a][i]] \in Slots
        /\ slotOf'[queue[a][i]] = slotOf[queue[a][i]]
    BY <1>4, <1>5, <2>1
  <2>3. CASE slotOf[queue[a][i]] = s
    BY <1>1, <1>2, <2>2, <2>3
  <2>4. CASE slotOf[queue[a][i]] # s
    <3>1. queue'[a][j] # c
      BY <1>1, <1>2, <1>5, <2>2, <2>4
    <3>2. /\ j \in 1..Len(queue[a]) /\ queue'[a][j] = queue[a][j]
          /\ slotOf'[queue[a][j]] = slotOf[queue[a][j]]
      BY <1>4, <3>1
    <3>3. occ[slotOf[queue[a][i]]] # queue[a][i]
      BY <1>5, <2>2, <3>2 DEF QueueInv
    <3> QED
      BY <1>1, <1>2, <2>2, <2>4, <3>3
  <2> QED
    BY <2>3, <2>4
<1>6. ASSUME NEW d \in Calls, box'[d] # "none", occ'[slotOf'[d]] = d
      PROVE  /\ d # c /\ slotOf'[d] = slotOf[d] /\ slotOf[d] # s /\ box[d] = box'[d]
             /\ occ[slotOf[d]] = d /\ userData'[slotOf[d]] = userData[slotOf[d]]
             /\ accOf'[d] = accOf[d]
  <2>1. d # c /\ slotOf'[d] = slotOf[d] /\ slotOf[d] \in Slots
    BY <1>1, <1>2, <1>3, <1>6 DEF BegunInv, TableInv
  <2>2. slotOf[d] # s
    BY <1>1, <1>2, <1>6, <2>1
  <2> QED
    BY <1>1, <1>2, <1>6, <2>1, <2>2
<1>7. ASSUME NEW a \in Accounts, NEW i \in 1..Len(queue'[a]), NEW d \in Calls,
             box'[d] # "none", occ'[slotOf'[d]] = d, accOf'[d] = a
      PROVE  slotOf'[queue'[a][i]] # slotOf'[d]
  <2>1. CASE queue'[a][i] = c
    BY <1>1, <1>2, <1>6, <1>7, <2>1
  <2>2. CASE queue'[a][i] # c
    BY <1>4, <1>6, <1>7, <2>2 DEF QueueInv
  <2> QED
    BY <2>1, <2>2
<1>8. ASSUME NEW d \in Calls, box'[d] = "live", occ'[slotOf'[d]] = d
      PROVE  LET p == userData'[slotOf'[d]]
             IN  p = d \/ (p # None /\ accOf'[p] # accOf'[d] /\ inv'[p] = "Disconnected")
  <2>1. /\ slotOf'[d] = slotOf[d] /\ slotOf[d] \in Slots
        /\ box[d] = "live" /\ occ[slotOf[d]] = d
        /\ userData'[slotOf[d]] = userData[slotOf[d]] /\ accOf'[d] = accOf[d]
    BY <1>1, <1>6, <1>8 DEF BegunInv, TableInv
  <2> DEFINE p == userData[slotOf[d]]
  <2>2. p = d \/ (p # None /\ accOf[p] # accOf[d] /\ inv[p] = "Disconnected")
    BY <2>1 DEF QueueInv, OwnEvents
  <2>3. p # None => p \in Calls /\ p # c
    BY <1>1, <1>3, <2>1 DEF PointerInv
  <2>4. p # None => accOf'[p] = accOf[p] /\ inv'[p] = inv[p]
    BY <1>1, <1>2, <2>3 DEF IInv, TypeOK
  <2> QED
    BY <2>1, <2>2, <2>4
<1> QED
  BY <1>5, <1>7, <1>8 DEF QueueInv, OwnEvents

\* next_call takes the first call of a queue, so whoever else of this queue had the
\* same entry has lost it, or is still to come and will find it taken by another.
LEMMA QueueNext ==
  ASSUME IInv, QueueInv, NEW b \in Accounts, NextCall(b)
  PROVE  QueueInv'
<1>1. /\ queue \in [Accounts -> Seq(Calls)]
      /\ slotOf \in [Calls -> Slots \cup {None}]
      /\ accOf \in [Calls -> Accounts \cup {None}]
      /\ occ \in [Slots -> Calls \cup {None}]
      /\ userData \in [Slots -> Calls \cup {None}]
      /\ box \in [Calls -> {"none", "live", "freed"}]
      /\ None \notin Calls \cup Slots
      /\ TableInv /\ BegunInv /\ PointerInv
  BY CallAssumption DEF IInv, TypeOK
<1>2. queue[b] \in Seq(Calls) /\ queue[b] # <<>> /\ Len(queue[b]) \in Nat \ {0}
  BY <1>1 DEF NextCall
<1>3. PICK h \in Calls : /\ h = Head(queue[b]) /\ h = queue[b][1] /\ accOf[h] = b
                         /\ box[h] = "none" /\ inv[h] # "Null" /\ slotOf[h] \in Slots
  <2>1. 1 \in 1..Len(queue[b]) /\ Head(queue[b]) = queue[b][1] /\ queue[b][1] \in Calls
    BY <1>2
  <2> QED
    BY <1>1, <2>1 DEF BegunInv, TableInv
<1>4. /\ queue' = [queue EXCEPT ![b] = Tail(@)]
      /\ UNCHANGED <<slotOf, accOf, occ, inv>>
      /\ \/ /\ box' = [box EXCEPT ![h] = "live"]
            /\ userData' = [userData EXCEPT ![slotOf[h]] = h]
         \/ /\ box' = [box EXCEPT ![h] = "freed"]
            /\ UNCHANGED userData
  BY <1>3 DEF NextCall, idVars
<1>5. ASSUME NEW a \in Accounts, NEW i \in 1..Len(queue'[a])
      PROVE  \E k \in 1..Len(queue[a]) :
                /\ queue'[a][i] = queue[a][k]
                /\ k = IF a = b THEN i + 1 ELSE i
  <2>1. CASE a = b
    <3>1. queue'[b] = Tail(queue[b])
      BY <1>1, <1>4
    <3>2. /\ Len(queue'[b]) = Len(queue[b]) - 1
          /\ \A k \in 1..Len(queue'[b]) : queue'[b][k] = queue[b][k + 1]
      BY <1>2, <3>1
    <3>3. i + 1 \in 1..Len(queue[b])
      BY <1>2, <1>5, <2>1, <3>2
    <3> QED
      BY <1>5, <2>1, <3>2, <3>3
  <2>2. CASE a # b
    BY <1>1, <1>4, <1>5, <2>2
  <2> QED
    BY <2>1, <2>2
<1>6. ASSUME NEW a \in Accounts, NEW i \in 1..Len(queue'[a]), NEW j \in 1..Len(queue'[a]),
             i < j, slotOf'[queue'[a][i]] = slotOf'[queue'[a][j]]
      PROVE  occ'[slotOf'[queue'[a][i]]] # queue'[a][i]
  <2>1. PICK k \in 1..Len(queue[a]) : /\ queue'[a][i] = queue[a][k]
                                      /\ k = IF a = b THEN i + 1 ELSE i
    BY <1>5
  <2>2. PICK m \in 1..Len(queue[a]) : /\ queue'[a][j] = queue[a][m]
                                      /\ m = IF a = b THEN j + 1 ELSE j
    BY <1>5
  <2>3. k < m
    <3>1. i \in Nat /\ j \in Nat
      BY <1>6
    <3> QED
      BY <1>6, <2>1, <2>2, <3>1
  <2>4. slotOf[queue[a][k]] = slotOf[queue[a][m]]
    BY <1>4, <1>6, <2>1, <2>2
  <2>5. occ[slotOf[queue[a][k]]] # queue[a][k]
    BY <2>3, <2>4 DEF QueueInv
  <2> QED
    BY <1>4, <2>1, <2>5
<1>7. ASSUME NEW i \in 1..Len(queue'[b]), occ[slotOf[h]] = h
      PROVE  slotOf[queue'[b][i]] # slotOf[h]
  <2>1. PICK k \in 1..Len(queue[b]) : queue'[b][i] = queue[b][k] /\ k = i + 1
    BY <1>5
  <2>2. 1 \in 1..Len(queue[b]) /\ 1 < k
    BY <1>2, <1>7, <2>1
  <2> QED
    BY <1>3, <1>7, <2>1, <2>2 DEF QueueInv
<1>8. ASSUME NEW a \in Accounts, NEW i \in 1..Len(queue'[a]), NEW d \in Calls,
             box'[d] # "none", occ'[slotOf'[d]] = d, accOf'[d] = a
      PROVE  slotOf'[queue'[a][i]] # slotOf'[d]
  <2>1. CASE d = h
    BY <1>3, <1>4, <1>7, <1>8, <2>1
  <2>2. CASE d # h
    <3>1. box[d] # "none" /\ occ[slotOf[d]] = d /\ accOf[d] = a
      BY <1>1, <1>4, <1>8, <2>2
    <3>2. PICK k \in 1..Len(queue[a]) : queue'[a][i] = queue[a][k]
      BY <1>5
    <3> QED
      BY <1>4, <3>1, <3>2 DEF QueueInv
  <2> QED
    BY <2>1, <2>2
<1>9. ASSUME NEW d \in Calls, box'[d] = "live", occ'[slotOf'[d]] = d
      PROVE  LET p == userData'[slotOf'[d]]
             IN  p = d \/ (p # None /\ accOf'[p] # accOf'[d] /\ inv'[p] = "Disconnected")
  <2>1. CASE d = h
    <3>1. box' = [box EXCEPT ![h] = "live"]
      BY <1>1, <1>3, <1>4, <1>9, <2>1
    <3>2. userData'[slotOf[h]] = h
      BY <1>1, <1>3, <1>4, <3>1
    <3> QED
      BY <1>4, <2>1, <3>2
  <2>2. CASE d # h
    <3>1. /\ box[d] = "live" /\ occ[slotOf[d]] = d /\ slotOf[d] \in Slots
      BY <1>1, <1>4, <1>9, <2>2 DEF BegunInv, TableInv
    <3>2. CASE userData'[slotOf[d]] = userData[slotOf[d]]
      BY <1>4, <3>1, <3>2 DEF QueueInv, OwnEvents
    <3>3. CASE userData'[slotOf[d]] # userData[slotOf[d]]
      <4>1. slotOf[d] = slotOf[h] /\ userData'[slotOf[d]] = h
        BY <1>1, <1>3, <1>4, <3>1, <3>3
      <4>2. accOf[d] # b
        <5>1. 1 \in 1..Len(queue[b])
          BY <1>2
        <5> QED
          BY <1>3, <3>1, <4>1, <5>1 DEF QueueInv
      <4>3. inv[h] = "Disconnected"
        BY <1>1, <1>3, <2>2, <3>1, <4>1, EndedIfAway
      <4> QED
        BY <1>1, <1>3, <1>4, <4>1, <4>2, <4>3
    <3> QED
      BY <3>2, <3>3
  <2> QED
    BY <2>1, <2>2
<1> QED
  BY <1>6, <1>8, <1>9 DEF QueueInv, OwnEvents

\* Every step keeps the queues in the order in which the entries were used.
LEMMA QueueStep ==
  ASSUME IInv, LifeInv, QueueInv, [Next]_vars
  PROVE  QueueInv'
<1>1. /\ queue \in [Accounts -> Seq(Calls)]
      /\ box \in [Calls -> {"none", "live", "freed"}]
      /\ occ \in [Slots -> Calls \cup {None}]
      /\ userData \in [Slots -> Calls \cup {None}]
  BY DEF IInv, TypeOK
<1>over. \A x \in Calls : inv[x] = "Disconnected" => inv'[x] = "Disconnected"
  BY EndedForGood
<1>2. ASSUME UNCHANGED <<queue, slotOf, accOf, box, occ, userData>> PROVE QueueInv'
  BY <1>2, <1>over, QueueFrame
<1>3. ASSUME NEW c \in Calls, NEW a \in Accounts, NEW s \in Slots, IncomingCall(c, a, s)
      PROVE  QueueInv'
  BY <1>3, QueueIncoming
<1>4. ASSUME NEW a \in Accounts, NextCall(a) PROVE QueueInv'
  BY <1>4, QueueNext
<1>5. ASSUME NEW a \in Accounts, DropAccount(a) PROVE QueueInv'
  <2>1. /\ queue' = [queue EXCEPT ![a] = <<>>]
        /\ UNCHANGED <<slotOf, accOf, box, occ, userData>>
    BY <1>5 DEF DropAccount, idVars, pjsuaVars, handleVars
  <2>2. \A b \in Accounts : queue'[b] \in {queue[b], <<>>}
    BY <1>1, <2>1
  <2> QED
    BY <1>over, <2>1, <2>2, QueueFrame
<1>6. ASSUME NEW s \in Slots, RemoteEndReported(s) PROVE QueueInv'
  <2>1. /\ UNCHANGED <<queue, slotOf, accOf, box>>
        /\ occ' = [occ EXCEPT ![s] = None]
        /\ userData' = [userData EXCEPT ![s] = None]
    BY <1>6 DEF RemoteEndReported, accVars, idVars
  <2>2. \A t \in Slots : \/ occ'[t] = occ[t] /\ userData'[t] = userData[t]
                         \/ occ'[t] = None
    BY <1>1, <2>1
  <2> QED
    BY <1>over, <2>1, <2>2, QueueFrame
<1>7. ASSUME NEW h \in Calls, EndCall(h), UNCHANGED <<queue, slotOf, accOf>>,
             \A x \in Calls : box'[x] = box[x] \/ (box[x] = "live" /\ box'[x] = "freed")
      PROVE  QueueInv'
  <2>1. \A t \in Slots : \/ occ'[t] = occ[t] /\ userData'[t] = userData[t]
                         \/ occ'[t] = None
    BY <1>1, <1>7 DEF EndCall
  <2> QED
    BY <1>7, <1>over, <2>1, QueueFrame
<1>8. ASSUME NEW h \in Calls, stage[h] \in {"handle", "hangup"}, FreeHandle(h)
      PROVE  \A x \in Calls : box'[x] = box[x] \/ (box[x] = "live" /\ box'[x] = "freed")
  BY <1>1, <1>8 DEF FreeHandle, LifeInv, LifeOf
<1>9. ASSUME NEW h \in Calls, RejectJob(h) PROVE QueueInv'
  BY <1>2, <1>7, <1>9 DEF RejectJob, accVars, idVars
<1>10. ASSUME NEW h \in Calls, HangupCall(h) PROVE QueueInv'
  <2>1. stage[h] = "hangup" /\ UNCHANGED <<queue, slotOf, accOf>>
    BY <1>10 DEF HangupCall, accVars, idVars
  <2>2. CASE EndCall(h) /\ FreeHandle(h)
    BY <1>7, <1>8, <2>1, <2>2
  <2>3. CASE UNCHANGED <<occ, userData, box>>
    BY <1>2, <2>1, <2>3
  <2> QED
    BY <1>10, <2>2, <2>3 DEF HangupCall
<1>11. ASSUME NEW h \in Calls, CheckActive(h) PROVE QueueInv'
  <2>1. /\ stage[h] = "handle" /\ UNCHANGED <<queue, slotOf, accOf, occ, userData>>
        /\ UNCHANGED box \/ FreeHandle(h)
    BY <1>11 DEF CheckActive, accVars, idVars, pjsuaVars
  <2>2. \A x \in Calls : box'[x] = box[x] \/ (box[x] = "live" /\ box'[x] = "freed")
    BY <1>8, <2>1
  <2> QED
    BY <1>over, <2>1, <2>2, QueueFrame
<1>12. ASSUME NEW h \in Calls, AnswerJob(h) PROVE QueueInv'
  BY <1>2, <1>12 DEF AnswerJob, accVars, idVars
<1>13. ASSUME NEW c \in Calls, Confirm(c) \/ RemoteEnd(c) PROVE QueueInv'
  BY <1>2, <1>13 DEF Confirm, RemoteEnd, accVars, idVars, handleVars
<1>14. ASSUME NEW s \in Slots, RemoteEndReads(s) \/ OnCallMediaState(s) PROVE QueueInv'
  BY <1>2, <1>14 DEF RemoteEndReads, OnCallMediaState, accVars, idVars, pjsuaVars, handleVars
<1>15. ASSUME NEW h \in Calls,
              \/ AnswerSessionProgress(h) \/ Reject(h) \/ Add(h) \/ Answered(h)
              \/ AwaitCallState(h) \/ AwaitHangup(h) \/ Drop(h) \/ Hangup(h) \/ Rejected(h)
              \/ DropPorts(h)
       PROVE  QueueInv'
  BY <1>2, <1>15 DEF AnswerSessionProgress, Reject, Add, Answered, AwaitCallState,
     AwaitHangup, Drop, Hangup, Rejected, DropPorts, accVars, idVars, pjsuaVars
<1>16. ASSUME NEW a \in Accounts, AddAccount(a) PROVE QueueInv'
  BY <1>2, <1>16 DEF AddAccount, idVars, pjsuaVars, handleVars
<1>17. CASE UNCHANGED vars
  BY <1>2, <1>17 DEF vars, accVars, idVars, pjsuaVars, handleVars
<1> QED
  BY <1>3, <1>4, <1>5, <1>6, <1>9, <1>10, <1>11, <1>12, <1>13, <1>14, <1>15, <1>16,
     <1>17 DEF Next, Worker, Pool, Owner

\* It always holds.
LEMMA QueueInvariant == Spec => []QueueInv
<1>1. IInv /\ LifeInv /\ QueueInv /\ [Next]_vars => QueueInv'
  BY QueueStep
<1>2. LifeAndAnswers => LifeInv
  BY DEF LifeAndAnswers
<1> QED
  BY <1>1, <1>2, QueueInit, Invariant, LifeAndAnswersInvariant, PTL DEF Spec

\* A handle is told about its own call and no other while that call lives, unless
\* an outdated handle of another account took the user data over.
THEOREM HandlesHearTheirCall == Spec => []OwnEvents
<1>1. QueueInv => OwnEvents
  BY DEF QueueInv
<1> QED
  BY <1>1, QueueInvariant, PTL

-----------------------------------------------------------------------------
(* The order of the reports                                                 *)

\* At first nothing was reported.
LEMMA ReportInit == Init => ReportInv
BY CallAssumption DEF Init, ReportInv, EventsOrdered, SlotActive

\* One report is one message more in one channel, or none.
LEMMA ReportEffect ==
  ASSUME TypeOK, NEW p \in Calls \cup {None}, NEW st \in PjsipInvState, OnCallState(p, st)
  PROVE  /\ \A x \in Calls : x # p => chan'[x] = chan[x]
         /\ p \in Calls => chan'[p] = chan[p] \/ chan'[p] = Append(chan[p], st)
BY CallAssumption DEF TypeOK, OnCallState

\* A message in front of later ones, after one more was appended.
LEMMA AppendedMessages ==
  ASSUME NEW q \in Seq(PjsipInvState), NEW st \in PjsipInvState,
         \A i \in 1..Len(q) : Order[q[i]] < Order[st],
         \A i, j \in 1..Len(q) : i < j => Order[q[i]] < Order[q[j]],
         NEW r, r = q \/ r = Append(q, st)
  PROVE  /\ \A i \in 1..Len(r) : Order[r[i]] <= Order[st]
         /\ \A i \in 1..Len(r) : (i \in 1..Len(q) /\ r[i] = q[i]) \/ r[i] = st
         /\ \A i, j \in 1..Len(r) : i < j => Order[r[i]] < Order[r[j]]
<1>1. \A x \in PjsipInvState : Order[x] \in Nat
  BY DEF Order, PjsipInvState
<1>2. CASE r = q
  BY <1>1, <1>2
<1>3. CASE r = Append(q, st)
  <2>1. /\ Len(q) \in Nat /\ Len(r) = Len(q) + 1 /\ r[Len(q) + 1] = st
        /\ \A i \in 1..Len(q) : r[i] = q[i] /\ q[i] \in PjsipInvState
    BY <1>3
  <2>2. \A i \in 1..Len(r) : i \in 1..Len(q) \/ i = Len(q) + 1
    BY <2>1
  <2> HIDE <1>3
  <2> QED
    BY SMTT(30), <1>1, <2>1, <2>2
<1> QED
  BY <1>2, <1>3

\* A step that reports the new state of the call of entry s, or its end, to a
\* handle of the entry, and leaves the other entries alone.
LEMMA ReportOne ==
  ASSUME TypeOK, PointerInv, ReportInv,
         NEW s \in Slots, NEW p \in Calls \cup {None}, NEW st \in PjsipInvState,
         OnCallState(p, st),
         p \in Calls => /\ slotOf[p] = s
                        /\ \A i \in 1..Len(chan[p]) : Order[chan[p][i]] < Order[st]
                        /\ st = "Confirmed" => inv'[p] \in {"Confirmed", "Disconnected"},
         \A x \in Calls : inv[x] \in {"Confirmed", "Disconnected"} =>
                             inv'[x] \in {"Confirmed", "Disconnected"},
         \A t \in Slots \ {s} : /\ occ'[t] = occ[t] /\ userData'[t] = userData[t]
                                /\ cbPtr'[t] = cbPtr[t]
                                /\ occ[t] # None => inv'[occ[t]] = inv[occ[t]],
         cbPtr'[s] = Idle,
         ~SlotActive(s)' \/ (userData'[s] = p /\ inv'[occ'[s]] = st)
  PROVE  ReportInv'
<1>1. /\ userData \in [Slots -> Calls \cup {None}]
      /\ chan \in [Calls -> Seq(PjsipInvState)]
      /\ None \notin Calls
  BY CallAssumption DEF TypeOK
<1>2. /\ \A x \in Calls : x # p => chan'[x] = chan[x]
      /\ p \in Calls => chan'[p] = chan[p] \/ chan'[p] = Append(chan[p], st)
  BY ReportEffect
<1>3. ASSUME p \in Calls
      PROVE  /\ \A i \in 1..Len(chan'[p]) : Order[chan'[p][i]] <= Order[st]
             /\ \A i \in 1..Len(chan'[p]) :
                   (i \in 1..Len(chan[p]) /\ chan'[p][i] = chan[p][i]) \/ chan'[p][i] = st
             /\ \A i, j \in 1..Len(chan'[p]) :
                   i < j => Order[chan'[p][i]] < Order[chan'[p][j]]
  <2>1. /\ chan[p] \in Seq(PjsipInvState)
        /\ \A i \in 1..Len(chan[p]) : Order[chan[p][i]] < Order[st]
        /\ \A i, j \in 1..Len(chan[p]) : i < j => Order[chan[p][i]] < Order[chan[p][j]]
        /\ chan'[p] = chan[p] \/ chan'[p] = Append(chan[p], st)
    BY <1>1, <1>2, <1>3 DEF ReportInv, EventsOrdered
  <2> QED
    BY <2>1, AppendedMessages
<1>4. ASSUME NEW h \in Calls, NEW i \in 1..Len(chan'[h]), chan'[h][i] = "Confirmed"
      PROVE  inv'[h] \in {"Confirmed", "Disconnected"}
  <2>1. CASE h # p
    BY <1>2, <1>4, <2>1 DEF ReportInv
  <2>2. CASE h = p
    BY <1>3, <1>4, <2>2 DEF ReportInv
  <2> QED
    BY <2>1, <2>2
<1>5. ASSUME NEW t \in Slots, SlotActive(t)', userData'[t] # None,
             NEW i \in 1..Len(chan'[userData'[t]])
      PROVE  Order[chan'[userData'[t]][i]] <= Order[inv'[occ'[t]]]
  <2>1. CASE t = s
    BY <1>3, <1>5, <2>1
  <2>2. CASE t # s
    <3>1. /\ userData'[t] = userData[t] /\ userData[t] \in Calls /\ userData[t] # p
          /\ occ'[t] = occ[t] /\ inv'[occ[t]] = inv[occ[t]] /\ SlotActive(t)
      BY <1>1, <1>5, <2>2 DEF PointerInv, SlotActive, Active
    <3> QED
      BY <1>2, <1>5, <3>1 DEF ReportInv
  <2> QED
    BY <2>1, <2>2
<1>6. ASSUME NEW t \in Slots, cbPtr'[t] # Idle, NEW q \in Calls,
             q = cbPtr'[t] \/ q = userData'[t], NEW i \in 1..Len(chan'[q])
      PROVE  Order[chan'[q][i]] < Order["Disconnected"]
  <2>1. t # s /\ cbPtr'[t] = cbPtr[t] /\ userData'[t] = userData[t] /\ q # p
    BY <1>1, <1>6 DEF PointerInv
  <2> QED
    BY <1>2, <1>6, <2>1 DEF ReportInv
<1>7. ASSUME NEW h \in Calls, NEW i \in 1..Len(chan'[h]), NEW j \in 1..Len(chan'[h]), i < j
      PROVE  Order[chan'[h][i]] < Order[chan'[h][j]]
  <2>1. CASE h # p
    BY <1>2, <1>7, <2>1 DEF ReportInv, EventsOrdered
  <2>2. CASE h = p
    BY <1>3, <1>7, <2>2
  <2> QED
    BY <2>1, <2>2
<1> QED
  BY <1>4, <1>5, <1>6, <1>7 DEF ReportInv, EventsOrdered

\* A step that reports nothing, and lends to no entry with an active call the
\* channel of a handle, unless that is empty.
LEMMA ReportFrame ==
  ASSUME TypeOK, ReportInv, UNCHANGED chan,
         \A x \in Calls : inv[x] \in {"Confirmed", "Disconnected"} =>
                             inv'[x] \in {"Confirmed", "Disconnected"},
         \A t \in Slots :
            \/ ~SlotActive(t)'
            \/ userData'[t] = None
            \/ userData'[t] \in Calls /\ chan[userData'[t]] = <<>>
            \/ userData'[t] = userData[t] /\ occ'[t] = occ[t] /\ inv'[occ[t]] = inv[occ[t]],
         \A t \in Slots : cbPtr'[t] # Idle =>
            \A p \in Calls : p = cbPtr'[t] \/ p = userData'[t] =>
               \/ chan[p] = <<>>
               \/ cbPtr[t] # Idle /\ (p = cbPtr[t] \/ p = userData[t])
               \/ SlotActive(t) /\ p = userData[t]
  PROVE  ReportInv'
<1>1. /\ userData \in [Slots -> Calls \cup {None}]
      /\ chan \in [Calls -> Seq(PjsipInvState)]
      /\ None \notin Calls
      /\ inv \in [Calls -> PjsipInvState] /\ occ \in [Slots -> Calls \cup {None}]
  BY CallAssumption DEF TypeOK
<1>2. ASSUME NEW t \in Slots, SlotActive(t)', userData'[t] # None,
             NEW i \in 1..Len(chan'[userData'[t]])
      PROVE  Order[chan'[userData'[t]][i]] <= Order[inv'[occ'[t]]]
  <2>1. CASE userData'[t] \in Calls /\ chan[userData'[t]] = <<>>
    BY <1>2, <2>1
  <2>2. CASE userData'[t] = userData[t] /\ occ'[t] = occ[t] /\ inv'[occ[t]] = inv[occ[t]]
    BY <1>2, <2>2 DEF ReportInv, SlotActive, Active
  <2> QED
    BY <1>2, <2>1, <2>2
<1>3. ASSUME NEW t \in Slots, cbPtr'[t] # Idle, NEW p \in Calls,
             p = cbPtr'[t] \/ p = userData'[t], NEW i \in 1..Len(chan'[p])
      PROVE  Order[chan'[p][i]] < Order["Disconnected"]
  <2>1. chan[p] # <<>>
    BY <1>3
  <2>2. CASE cbPtr[t] # Idle /\ (p = cbPtr[t] \/ p = userData[t])
    BY <1>3, <2>2 DEF ReportInv
  <2>3. CASE SlotActive(t) /\ p = userData[t]
    <3>1. Order[chan[p][i]] <= Order[inv[occ[t]]]
      BY <1>1, <1>3, <2>3 DEF ReportInv
    <3>2. inv[occ[t]] \in {"Incoming", "Connecting", "Confirmed"}
      BY <2>3 DEF SlotActive, Active
    <3>3. chan[p][i] \in PjsipInvState
      BY <1>1, <1>3
    <3>4. \A x \in PjsipInvState : Order[x] \in Nat
      BY DEF Order, PjsipInvState
    <3>5. Order[inv[occ[t]]] \in Nat /\ Order[inv[occ[t]]] < Order["Disconnected"] /\
          Order["Disconnected"] \in Nat
      BY <3>2 DEF Order
    <3> QED
      BY <3>1, <3>3, <3>4, <3>5
  <2> QED
    BY <1>3, <2>1, <2>2, <2>3
<1> QED
  BY <1>2, <1>3 DEF ReportInv, EventsOrdered

\* Every step keeps the reports in order.
LEMMA ReportStep ==
  ASSUME IInv, ReportInv, [Next]_vars
  PROVE  ReportInv'
<1>1. /\ userData \in [Slots -> Calls \cup {None}]
      /\ occ \in [Slots -> Calls \cup {None}]
      /\ cbPtr \in [Slots -> Calls \cup {None, Idle}]
      /\ slotOf \in [Calls -> Slots \cup {None}]
      /\ chan \in [Calls -> Seq(PjsipInvState)]
      /\ inv \in [Calls -> PjsipInvState]
      /\ queue \in [Accounts -> Seq(Calls)]
      /\ None \notin Calls \cup Slots /\ Idle \notin Calls \cup {None}
      /\ TypeOK /\ TableInv /\ BegunInv /\ PointerInv /\ ChannelInv
  BY CallAssumption DEF IInv, TypeOK
<1>2. CASE UNCHANGED <<chan, inv, userData, occ, cbPtr>>
  BY <1>1, <1>2, ReportFrame
<1>reads. ASSUME NEW s \in Slots, RemoteEndReads(s) PROVE ReportInv'
  <2>1. /\ UNCHANGED <<chan, inv, userData, occ>> /\ cbPtr[s] # Idle
        /\ cbPtr' = [cbPtr EXCEPT ![s] = userData[s]]
    BY <1>reads DEF RemoteEndReads, handleVars
  <2> QED
    BY <1>1, <2>1, ReportFrame
<1>3. \A x \in PjsipInvState : Order[x] \in Nat
  BY DEF Order, PjsipInvState
<1>4. /\ {"Incoming", "Connecting", "Confirmed", "Disconnected"} \subseteq PjsipInvState
      /\ Order["Incoming"] < Order["Connecting"] /\ Order["Connecting"] < Order["Confirmed"]
      /\ Order["Confirmed"] < Order["Disconnected"]
  BY DEF Order, PjsipInvState
<1>5. ASSUME NEW t \in Slots, SlotActive(t), userData[t] # None, NEW st \in PjsipInvState,
             Order[inv[occ[t]]] < Order[st]
      PROVE  /\ userData[t] \in Calls
             /\ \A i \in 1..Len(chan[userData[t]]) : Order[chan[userData[t]][i]] < Order[st]
  <2>1. userData[t] \in Calls /\ occ[t] \in Calls
    BY <1>1, <1>5 DEF SlotActive
  <2>2. ASSUME NEW i \in 1..Len(chan[userData[t]])
        PROVE  Order[chan[userData[t]][i]] < Order[st]
    <3>1. Order[chan[userData[t]][i]] <= Order[inv[occ[t]]]
      BY <1>5 DEF ReportInv
    <3>2. chan[userData[t]][i] \in PjsipInvState /\ inv[occ[t]] \in PjsipInvState
      BY <1>1, <2>1
    <3> QED
      BY <1>3, <1>5, <3>1, <3>2
  <2> QED
    BY <2>1, <2>2
<1>6. ASSUME NEW c \in Calls, NEW a \in Accounts, NEW s \in Slots, IncomingCall(c, a, s)
      PROVE  ReportInv'
  <2>1. /\ UNCHANGED <<chan, cbPtr>> /\ inv[c] = "Null" /\ occ[s] = None
        /\ inv' = [inv EXCEPT ![c] = "Incoming"]
        /\ occ' = [occ EXCEPT ![s] = c]
        /\ userData' = [userData EXCEPT ![s] = None]
    BY <1>6 DEF IncomingCall, handleVars
  <2>2. \A t \in Slots : occ[t] # c
    BY <1>1, <2>1 DEF TableInv
  <2>3. \A t \in Slots : \/ userData'[t] = None
                         \/ /\ userData'[t] = userData[t] /\ occ'[t] = occ[t]
                            /\ inv'[occ[t]] = inv[occ[t]]
                         \/ ~SlotActive(t)'
    BY <1>1, <2>1, <2>2 DEF SlotActive
  <2>4. \A x \in Calls : inv[x] \in {"Confirmed", "Disconnected"} =>
                             inv'[x] \in {"Confirmed", "Disconnected"}
    BY <1>1, <2>1
  <2>5. ASSUME NEW t \in Slots, cbPtr'[t] # Idle, NEW p \in Calls,
               p = cbPtr'[t] \/ p = userData'[t]
        PROVE  cbPtr[t] # Idle /\ (p = cbPtr[t] \/ p = userData[t])
    BY <1>1, <2>1, <2>5
  <2> QED
    BY <1>1, <2>1, <2>3, <2>4, <2>5, ReportFrame
<1>7. ASSUME NEW c \in Calls, Confirm(c) PROVE ReportInv'
  <2> DEFINE s == slotOf[c]
             p == userData[slotOf[c]]
  <2>1. /\ inv[c] = "Connecting" /\ inv' = [inv EXCEPT ![c] = "Confirmed"]
        /\ OnCallState(p, "Confirmed") /\ UNCHANGED <<occ, userData, cbPtr>>
    BY <1>7 DEF Confirm
  <2>2. s \in Slots /\ occ[s] = c /\ SlotActive(s) /\ cbPtr[s] = Idle
    BY <1>1, <2>1 DEF TableInv, Active, SlotActive
  <2>3. p \in Calls => slotOf[p] = s /\ inv[p] # "Null"
    BY <1>1, <2>2 DEF PointerInv, BegunInv
  <2>4. p \in Calls => inv'[p] \in {"Confirmed", "Disconnected"}
    BY <1>1, <2>1, <2>2, <2>3, EndedIfAway
  <2>5. p \in Calls => \A i \in 1..Len(chan[p]) : Order[chan[p][i]] < Order["Confirmed"]
    BY <1>1, <1>4, <1>5, <2>1, <2>2
  <2>6. \A t \in Slots \ {s} : occ[t] # None => inv'[occ[t]] = inv[occ[t]]
    BY <1>1, <2>1, <2>2 DEF TableInv
  <2>7. \A x \in Calls : inv[x] \in {"Confirmed", "Disconnected"} =>
                             inv'[x] \in {"Confirmed", "Disconnected"}
    BY <1>1, <2>1
  <2>8. userData'[s] = p /\ inv'[occ'[s]] = "Confirmed" /\ cbPtr'[s] = Idle
    BY <1>1, <2>1, <2>2
  <2>9. p \in Calls \cup {None} /\ "Confirmed" \in PjsipInvState
    BY <1>1, <1>4, <2>2
  <2>10. UNCHANGED slotOf
    BY <1>7 DEF Confirm, idVars
  <2>11. PICK t \in Slots, q \in Calls \cup {None} : t = s /\ q = p
    BY <2>2, <2>9
  <2> HIDE DEF s, p
  <2> QED
    BY <1>1, <2>1, <2>3, <2>4, <2>5, <2>6, <2>7, <2>8, <2>9, <2>11, ReportOne
<1>8. ASSUME NEW c \in Calls, RemoteEnd(c) PROVE ReportInv'
  <2>1. /\ Active(c) /\ inv' = [inv EXCEPT ![c] = "Disconnected"]
        /\ cbPtr' = [cbPtr EXCEPT ![slotOf[c]] = userData[slotOf[c]]]
        /\ UNCHANGED <<occ, userData, chan>>
    BY <1>8 DEF RemoteEnd, handleVars
  <2>2. slotOf[c] \in Slots /\ occ[slotOf[c]] = c /\ SlotActive(slotOf[c])
    BY <1>1, <2>1 DEF TableInv, Active, SlotActive
  <2>3. \A t \in Slots : \/ ~SlotActive(t)'
                         \/ /\ userData'[t] = userData[t] /\ occ'[t] = occ[t]
                            /\ inv'[occ[t]] = inv[occ[t]]
    BY <1>1, <2>1 DEF SlotActive, Active
  <2>4. ASSUME NEW t \in Slots, cbPtr'[t] # Idle, NEW p \in Calls,
               p = cbPtr'[t] \/ p = userData'[t]
        PROVE  \/ cbPtr[t] # Idle /\ (p = cbPtr[t] \/ p = userData[t])
               \/ SlotActive(t) /\ p = userData[t]
    <3>1. \A s \in Slots : /\ s = slotOf[c] => cbPtr'[s] = userData[s]
                           /\ s # slotOf[c] => cbPtr'[s] = cbPtr[s]
      BY <1>1, <2>1
    <3>2. \A s \in Slots : s = slotOf[c] => SlotActive(s)
      BY <2>2 DEF SlotActive
    <3> QED
      BY <2>1, <2>4, <3>1, <3>2
  <2>5. \A x \in Calls : inv[x] \in {"Confirmed", "Disconnected"} =>
                             inv'[x] \in {"Confirmed", "Disconnected"}
    BY <1>1, <2>1
  <2> QED
    BY <1>1, <2>1, <2>3, <2>4, <2>5, ReportFrame
<1>9. ASSUME NEW s \in Slots, RemoteEndReported(s) PROVE ReportInv'
  <2>1. /\ cbPtr[s] # Idle /\ OnCallState(cbPtr[s], "Disconnected") /\ UNCHANGED inv
        /\ cbPtr' = [cbPtr EXCEPT ![s] = Idle]
        /\ occ' = [occ EXCEPT ![s] = None]
        /\ userData' = [userData EXCEPT ![s] = None]
    BY <1>9 DEF RemoteEndReported
  <2>2. PICK p \in Calls \cup {None} : p = cbPtr[s]
    BY <1>1, <2>1
  <2>3. p \in Calls => /\ slotOf[p] = s
                       /\ \A i \in 1..Len(chan[p]) : Order[chan[p][i]] < Order["Disconnected"]
    BY <1>1, <2>2 DEF PointerInv, ReportInv
  <2>4. \A t \in Slots \ {s} : /\ occ'[t] = occ[t] /\ userData'[t] = userData[t]
                               /\ cbPtr'[t] = cbPtr[t]
    BY <1>1, <2>1
  <2>5. cbPtr'[s] = Idle /\ ~SlotActive(s)'
    BY <1>1, <2>1 DEF SlotActive
  <2> QED
    BY <1>1, <1>4, <2>1, <2>2, <2>3, <2>4, <2>5, ReportOne
<1>10. ASSUME NEW h \in Calls, AnswerJob(h) PROVE ReportInv'
  <2>1. UNCHANGED <<occ, userData, cbPtr>> /\ inv[h] # "Null"
    BY <1>1, <1>10 DEF AnswerJob, BegunInv
  <2>2. PICK s \in Slots : s = slotOf[h]
    BY <1>1, <2>1 DEF TableInv
  <2>3. CASE UNCHANGED <<inv, chan>>
    BY <1>2, <2>1, <2>3
  <2>4. CASE /\ Ringing(s) /\ inv' = [inv EXCEPT ![occ[s]] = "Connecting"]
             /\ OnCallState(userData[s], "Connecting")
    <3>1. PICK p \in Calls \cup {None} : p = userData[s]
      BY <1>1
    <3>2. occ[s] \in Calls /\ inv[occ[s]] = "Incoming" /\ SlotActive(s) /\ slotOf[occ[s]] = s
      BY <1>1, <2>4 DEF Ringing, SlotActive, Active, TableInv
    <3>3. p \in Calls => /\ slotOf[p] = s
                         /\ \A i \in 1..Len(chan[p]) : Order[chan[p][i]] < Order["Connecting"]
      BY <1>1, <1>4, <1>5, <3>1, <3>2 DEF PointerInv
    <3>4. \A t \in Slots \ {s} : occ[t] # None => inv'[occ[t]] = inv[occ[t]]
      BY <1>1, <2>4, <3>2 DEF TableInv
    <3>5. \A x \in Calls : inv[x] \in {"Confirmed", "Disconnected"} =>
                               inv'[x] \in {"Confirmed", "Disconnected"}
      BY <1>1, <2>4, <3>2
    <3>6. userData'[s] = p /\ inv'[occ'[s]] = "Connecting" /\ cbPtr'[s] = Idle
      BY <1>1, <2>1, <2>4, <3>1, <3>2 DEF TableInv
    <3> QED
      BY ZenonT(40), <1>1, <1>4, <2>1, <2>4, <3>1, <3>3, <3>4, <3>5, <3>6, ReportOne
  <2> QED
    BY <1>10, <2>2, <2>3, <2>4 DEF AnswerJob
<1>11. ASSUME NEW h \in Calls, inv[h] # "Null", SlotActive(slotOf[h]), EndCall(h),
              UNCHANGED cbPtr
       PROVE  ReportInv'
  <2>1. PICK s \in Slots : s = slotOf[h]
    BY <1>1, <1>11 DEF TableInv
  <2>2. PICK p \in Calls \cup {None} : p = userData[s]
    BY <1>1
  <2>3. /\ inv' = [inv EXCEPT ![occ[s]] = "Disconnected"]
        /\ OnCallState(p, "Disconnected")
        /\ occ' = [occ EXCEPT ![s] = None]
        /\ userData' = [userData EXCEPT ![s] = None]
    BY <1>11, <2>1, <2>2 DEF EndCall
  <2>4. /\ occ[s] \in Calls /\ inv[occ[s]] \in {"Incoming", "Connecting", "Confirmed"}
        /\ SlotActive(s) /\ slotOf[occ[s]] = s
    BY <1>1, <1>11, <2>1 DEF SlotActive, Active, TableInv
  <2>5. Order[inv[occ[s]]] < Order["Disconnected"]
    BY <1>3, <1>4, <2>4
  <2>6. p \in Calls => /\ slotOf[p] = s
                       /\ \A i \in 1..Len(chan[p]) : Order[chan[p][i]] < Order["Disconnected"]
    BY <1>1, <1>4, <1>5, <2>2, <2>4, <2>5 DEF PointerInv
  <2>7. \A t \in Slots \ {s} : /\ occ'[t] = occ[t] /\ userData'[t] = userData[t]
                               /\ occ[t] # None => inv'[occ[t]] = inv[occ[t]]
    BY <1>1, <2>3, <2>4 DEF TableInv
  <2>8. \A x \in Calls : inv[x] \in {"Confirmed", "Disconnected"} =>
                             inv'[x] \in {"Confirmed", "Disconnected"}
    BY <1>1, <2>3
  <2>9. ~SlotActive(s)' /\ cbPtr'[s] = Idle
    BY <1>1, <1>11, <2>3, <2>4 DEF SlotActive, TableInv
  <2> QED
    BY <1>1, <1>4, <1>11, <2>3, <2>6, <2>7, <2>8, <2>9, ReportOne
<1>12. ASSUME NEW h \in Calls, RejectJob(h) \/ HangupCall(h) PROVE ReportInv'
  <2>1. inv[h] # "Null" /\ UNCHANGED cbPtr
    BY <1>1, <1>12 DEF RejectJob, HangupCall, BegunInv
  <2>2. CASE SlotActive(slotOf[h]) /\ EndCall(h)
    BY <1>11, <2>1, <2>2
  <2>3. CASE UNCHANGED <<inv, chan, occ, userData>>
    BY <1>2, <2>1, <2>3
  <2> QED
    BY <1>12, <2>2, <2>3 DEF RejectJob, HangupCall
<1>13. ASSUME NEW a \in Accounts, NextCall(a) PROVE ReportInv'
  <2>1. PICK h \in Calls : h = Head(queue[a]) /\ box[h] = "none"
    <3>1. queue[a] \in Seq(Calls) /\ queue[a] # <<>>
      BY <1>1, <1>13 DEF NextCall
    <3>2. 1 \in 1..Len(queue[a]) /\ Head(queue[a]) = queue[a][1] /\ queue[a][1] \in Calls
      BY <3>1
    <3> QED
      BY ZenonT(40), <1>1, <3>2 DEF BegunInv
  <2>2. /\ UNCHANGED <<occ, inv, cbPtr, chan>> /\ chan[h] = <<>>
        /\ userData' = userData \/ userData' = [userData EXCEPT ![slotOf[h]] = h]
    BY <1>1, <1>13, <2>1 DEF NextCall, ChannelInv
  <2>3. \A t \in Slots : userData'[t] = userData[t] \/ userData'[t] = h
    BY <1>1, <2>2
  <2>4. ASSUME NEW t \in Slots, cbPtr'[t] # Idle, NEW p \in Calls,
               p = cbPtr'[t] \/ p = userData'[t]
        PROVE  chan[p] = <<>> \/ (cbPtr[t] # Idle /\ (p = cbPtr[t] \/ p = userData[t]))
    BY <2>2, <2>3, <2>4
  <2> QED
    BY <1>1, <2>2, <2>3, <2>4, ReportFrame
<1>14. ASSUME NEW h \in Calls, AwaitCallState(h) PROVE ReportInv'
  <2>1. /\ UNCHANGED <<occ, inv, userData, cbPtr>>
        /\ chan[h] # <<>> /\ chan' = [chan EXCEPT ![h] = Tail(@)]
    BY <1>14 DEF AwaitCallState, pjsuaVars
  <2>2. /\ chan[h] \in Seq(PjsipInvState) /\ chan'[h] = Tail(chan[h])
        /\ \A x \in Calls \ {h} : chan'[x] = chan[x]
    BY <1>1, <2>1
  <2>3. /\ Len(chan[h]) \in Nat /\ Len(chan'[h]) = Len(chan[h]) - 1
        /\ \A i \in 1..Len(chan'[h]) : chan'[h][i] = chan[h][i + 1]
    <3>1. PICK q \in Seq(PjsipInvState) : q = chan[h] /\ q # <<>> /\ Len(q) \in Nat \ {0}
      BY <2>1, <2>2
    <3>2. /\ Len(Tail(q)) = Len(q) - 1
          /\ \A i \in 1..Len(Tail(q)) : Tail(q)[i] = q[i + 1]
      BY <3>1
    <3> QED
      BY <2>2, <3>1, <3>2
  <2>4. \A i \in 1..Len(chan'[h]) : i + 1 \in 1..Len(chan[h]) /\ i \in Nat
    BY <2>3
  <2>5. ASSUME NEW x \in Calls, NEW i \in 1..Len(chan'[x])
        PROVE  \E k \in 1..Len(chan[x]) : /\ chan'[x][i] = chan[x][k]
                                          /\ k = IF x = h THEN i + 1 ELSE i
    BY <2>2, <2>3, <2>4, <2>5
  <2>6. ASSUME NEW x \in Calls, NEW i \in 1..Len(chan'[x]), NEW j \in 1..Len(chan'[x]), i < j
        PROVE  Order[chan'[x][i]] < Order[chan'[x][j]]
    <3>1. PICK k \in 1..Len(chan[x]) : /\ chan'[x][i] = chan[x][k]
                                       /\ k = IF x = h THEN i + 1 ELSE i
      BY <2>5
    <3>2. PICK m \in 1..Len(chan[x]) : /\ chan'[x][j] = chan[x][m]
                                       /\ m = IF x = h THEN j + 1 ELSE j
      BY <2>5
    <3>3. k < m
      <4>1. i \in Nat /\ j \in Nat
        BY <2>6
      <4> QED
        BY <2>6, <3>1, <3>2, <4>1
    <3>4. Order[chan[x][k]] < Order[chan[x][m]]
      BY <3>3 DEF ReportInv, EventsOrdered
    <3> QED
      BY <3>1, <3>2, <3>4
  <2>7. ASSUME NEW x \in Calls, NEW i \in 1..Len(chan'[x]), chan'[x][i] = "Confirmed"
        PROVE  inv'[x] \in {"Confirmed", "Disconnected"}
    <3>1. PICK k \in 1..Len(chan[x]) : chan'[x][i] = chan[x][k]
      BY <2>5
    <3>2. inv[x] \in {"Confirmed", "Disconnected"}
      BY <2>7, <3>1 DEF ReportInv
    <3> QED
      BY <2>1, <3>2
  <2>8. ASSUME NEW t \in Slots, SlotActive(t)', userData'[t] # None,
               NEW i \in 1..Len(chan'[userData'[t]])
        PROVE  Order[chan'[userData'[t]][i]] <= Order[inv'[occ'[t]]]
    <3>1. SlotActive(t) /\ userData[t] \in Calls /\ i \in 1..Len(chan'[userData[t]])
      BY <1>1, <2>1, <2>8 DEF SlotActive, Active
    <3>2. PICK k \in 1..Len(chan[userData[t]]) : chan'[userData[t]][i] = chan[userData[t]][k]
      BY <2>5, <3>1
    <3>3. Order[chan[userData[t]][k]] <= Order[inv[occ[t]]]
      BY <1>1, <3>1 DEF ReportInv
    <3> QED
      BY <2>1, <3>2, <3>3
  <2>9. ASSUME NEW t \in Slots, cbPtr'[t] # Idle, NEW p \in Calls,
               p = cbPtr'[t] \/ p = userData'[t], NEW i \in 1..Len(chan'[p])
        PROVE  Order[chan'[p][i]] < Order["Disconnected"]
    <3>1. PICK k \in 1..Len(chan[p]) : chan'[p][i] = chan[p][k]
      BY <2>5
    <3>2. Order[chan[p][k]] < Order["Disconnected"]
      BY <2>1, <2>9 DEF ReportInv
    <3> QED
      BY <3>1, <3>2
  <2> QED
    BY <2>6, <2>7, <2>8, <2>9 DEF ReportInv, EventsOrdered
<1>15. ASSUME NEW s \in Slots, OnCallMediaState(s) PROVE ReportInv'
  BY <1>2, <1>15 DEF OnCallMediaState, pjsuaVars
<1>16. ASSUME NEW h \in Calls,
              \/ AnswerSessionProgress(h) \/ Reject(h) \/ Add(h) \/ Answered(h)
              \/ AwaitHangup(h) \/ Drop(h) \/ Hangup(h) \/ Rejected(h)
              \/ CheckActive(h) \/ DropPorts(h)
       PROVE  ReportInv'
  BY <1>2, <1>16 DEF AnswerSessionProgress, Reject, Add, Answered,
     AwaitHangup, Drop, Hangup, Rejected, CheckActive, DropPorts, pjsuaVars
<1>17. ASSUME NEW a \in Accounts, AddAccount(a) \/ DropAccount(a) PROVE ReportInv'
  BY <1>2, <1>17 DEF AddAccount, DropAccount, pjsuaVars, handleVars
<1>18. CASE UNCHANGED vars
  BY <1>2, <1>18 DEF vars, pjsuaVars, handleVars
<1> QED
  BY <1>reads, <1>6, <1>7, <1>8, <1>9, <1>10, <1>12, <1>13, <1>14, <1>15, <1>16, <1>17, <1>18
     DEF Next, Worker, Pool, Owner

\* It always holds.
LEMMA ReportInvariant == Spec => []ReportInv
BY ReportInit, ReportStep, Invariant, PTL DEF Spec

\* What a handle has still to read is in the order of the session's states.
THEOREM ReportsComeInOrder == Spec => []EventsOrdered
<1>1. ReportInv => EventsOrdered
  BY DEF ReportInv
<1> QED
  BY <1>1, ReportInvariant, PTL

-----------------------------------------------------------------------------
(* Where an illegal access can come from                                    *)

\* The three situations of UndefinedHasCause.
AccountDangles == \E a \in Accounts : acc[a] = "dangling"
ReportMeetsDrop == \E s \in Slots : cbPtr[s] \in Calls /\ box[cbPtr[s]] = "freed"
AnsweredByAnother == \E c \in Calls : answeredBy[c] \notin {None, c}

\* A report on a live call's user data finds it allocated.
LEMMA ReportOnLiveCall ==
  ASSUME IInv, Running, NEW s \in Slots, SlotActive(s), NEW st, OnCallState(userData[s], st)
  PROVE  status' # "undefined"
<1>1. userData[s] # None => box[userData[s]] = "live"
  BY DEF IInv, ActiveCallDataLive
<1> QED
  BY <1>1 DEF OnCallState, Usable, Running

\* Media of a confirmed call that its own handle answered finds user data.
LEMMA MediaOnOwnCall ==
  ASSUME LifeAndAnswers, QueueInv, NEW s \in Slots, OnCallMediaState(s),
         status' = "undefined"
  PROVE  AnsweredByAnother
<1>1. /\ ~Usable(userData[s]) /\ occ[s] # None /\ inv[occ[s]] = "Confirmed"
  BY DEF OnCallMediaState, Running
<1>2. PICK c \in Calls : c = occ[s] /\ slotOf[c] = s /\ inv[c] = "Confirmed"
  BY <1>1 DEF LifeAndAnswers, IInv, TypeOK, TableInv
<1>3. userData[s] = None
  <2>1. SlotActive(s)
    BY <1>1 DEF SlotActive, Active
  <2> QED
    BY <1>1, <2>1 DEF LifeAndAnswers, IInv, ActiveCallDataLive, Usable
<1>4. answeredBy[c] # None
  BY <1>2 DEF LifeAndAnswers, AnswerInv, OnRecord
<1>5. ASSUME answeredBy[c] = c PROVE FALSE
  <2>1. media[c] # "unsent"
    BY <1>5 DEF LifeAndAnswers, AnswerInv, AnswerOf, HasAnswered
  <2>2. box[c] # "none"
    BY <2>1 DEF LifeAndAnswers, AnswerInv, AnswerOf, LifeInv, LifeOf, Early
  <2>3. box[c] # "freed"
    BY <1>2, <1>5 DEF LifeAndAnswers, AnswerInv, AnswerOf, HasAnswered
  <2>4. box[c] = "live"
    BY <2>2, <2>3 DEF LifeAndAnswers, IInv, TypeOK
  <2> QED
    BY <1>2, <1>3, <2>4, CallAssumption DEF QueueInv, OwnEvents
<1> QED
  BY <1>4, <1>5 DEF AnsweredByAnother

\* A step that uses a pointer it may not use is one of the three.
LEMMA UndefinedStep ==
  ASSUME LifeAndAnswers, QueueInv, [Next]_vars, status' = "undefined", status # "undefined"
  PROVE  AccountDangles \/ ReportMeetsDrop \/ AnsweredByAnother
<1>1. IInv /\ TableInv /\ BegunInv
  BY DEF LifeAndAnswers, IInv
<1>2. ASSUME UNCHANGED status PROVE FALSE
  BY <1>2
<1>3. ASSUME NEW c \in Calls, NEW a \in Accounts, NEW s \in Slots, IncomingCall(c, a, s)
      PROVE  AccountDangles
  BY <1>3 DEF IncomingCall, OnIncomingCall, AccountDangles
<1>4. ASSUME NEW c \in Calls, Confirm(c) PROVE FALSE
  <2>1. slotOf[c] \in Slots /\ SlotActive(slotOf[c]) /\ Running
    BY <1>1, <1>4, CallAssumption DEF Confirm, TableInv, SlotActive, Active
  <2> QED
    BY <1>1, <1>4, <2>1, ReportOnLiveCall DEF Confirm
<1>5. ASSUME NEW s \in Slots, RemoteEndReported(s) PROVE ReportMeetsDrop
  <2>1. cbPtr[s] # Idle /\ cbPtr[s] # None /\ box[cbPtr[s]] # "live"
    BY <1>5 DEF RemoteEndReported, OnCallState
  <2>2. cbPtr[s] \in Calls /\ box[cbPtr[s]] = "freed"
    BY <1>1, <2>1 DEF IInv, TypeOK, PointerInv
  <2> QED
    BY <2>2 DEF ReportMeetsDrop
<1>6. ASSUME NEW s \in Slots, OnCallMediaState(s) PROVE AnsweredByAnother
  BY <1>6, MediaOnOwnCall
<1>7. ASSUME NEW h \in Calls, AnswerJob(h) PROVE FALSE
  <2>1. slotOf[h] \in Slots /\ Running
    BY <1>1, <1>7 DEF AnswerJob, BegunInv, TableInv
  <2>2. Ringing(slotOf[h]) => SlotActive(slotOf[h])
    BY DEF Ringing, SlotActive, Active
  <2> QED
    BY <1>1, <1>2, <1>7, <2>1, <2>2, ReportOnLiveCall DEF AnswerJob
<1>8. ASSUME NEW h \in Calls, RejectJob(h) \/ HangupCall(h) PROVE FALSE
  <2>1. slotOf[h] \in Slots /\ Running
    BY <1>1, <1>8 DEF RejectJob, HangupCall, BegunInv, TableInv
  <2>2. \/ SlotActive(slotOf[h]) /\ OnCallState(userData[slotOf[h]], "Disconnected")
        \/ status' \in {status, "hangup_failed"}
    BY <1>8 DEF RejectJob, HangupCall, EndCall
  <2> QED
    BY <1>1, <2>1, <2>2, ReportOnLiveCall
<1>9. ASSUME NEW h \in Calls, DropPorts(h) PROVE FALSE
  BY <1>9 DEF DropPorts
<1>10. ASSUME NEW h \in Calls,
              \/ AnswerSessionProgress(h) \/ Reject(h) \/ Add(h) \/ Answered(h)
              \/ AwaitCallState(h) \/ AwaitHangup(h) \/ Drop(h) \/ Hangup(h) \/ Rejected(h)
              \/ CheckActive(h)
       PROVE  FALSE
  BY <1>2, <1>10 DEF AnswerSessionProgress, Reject, Add, Answered, AwaitCallState,
     AwaitHangup, Drop, Hangup, Rejected, CheckActive
<1>11. ASSUME NEW a \in Accounts, AddAccount(a) \/ DropAccount(a) \/ NextCall(a)
       PROVE  FALSE
  BY <1>2, <1>11 DEF AddAccount, DropAccount, NextCall
<1>12. ASSUME \/ \E c \in Calls : RemoteEnd(c)
              \/ \E s \in Slots : RemoteEndReads(s)
       PROVE  FALSE
  BY <1>2, <1>12 DEF RemoteEnd, RemoteEndReads
<1>13. CASE UNCHANGED vars
  BY <1>2, <1>13 DEF vars
<1> QED
  BY <1>3, <1>4, <1>5, <1>6, <1>7, <1>8, <1>9, <1>10, <1>11, <1>12, <1>13
     DEF Next, Worker, Pool, Owner

\* A freed or null pointer is used only after a failed pjsua_acc_del, by a report
\* that met a drop, or on a call that the handle of another call answered.
THEOREM IllegalAccessesHaveACause == Spec => UndefinedHasCause
<1>1. LifeAndAnswers /\ QueueInv /\ [Next]_vars =>
          [status' = "undefined" /\ status # "undefined" =>
             \/ \E a \in Accounts : acc[a] = "dangling"
             \/ \E s \in Slots : cbPtr[s] \in Calls /\ box[cbPtr[s]] = "freed"
             \/ \E c \in Calls : answeredBy[c] \notin {None, c}]_vars
  BY UndefinedStep DEF AccountDangles, ReportMeetsDrop, AnsweredByAnother
<1> QED
  BY <1>1, LifeAndAnswersInvariant, QueueInvariant, PTL DEF Spec, UndefinedHasCause


-----------------------------------------------------------------------------
(* The ports of a call: add and drop do in one step what they come to.      *)

\* A step that does more to a handle's ports than leave them alone adds or drops
\* them; a handle that is done stays so.
LEMMA PortsOfOne ==
  ASSUME TypeOK, BegunInv, [Next]_vars, NEW h \in Calls
  PROVE  /\ Add(h) \/ DropPorts(h) \/ ports'[h] = ports[h]
         /\ stage[h] = "done" => stage'[h] = "done"
<1>1. stage \in [Calls -> Stages] /\ queue \in [Accounts -> Seq(Calls)]
      /\ ports \in [Calls -> [sink : PortStates, stream : PortStates]]
  BY DEF TypeOK
<1>2. CASE UNCHANGED <<stage, ports>>
  BY <1>2
<1>3. ASSUME NEW a \in Accounts, NextCall(a)
      PROVE  UNCHANGED ports /\ (stage[h] = "done" => stage'[h] = "done")
  <2>1. PICK g \in Calls : g = Head(queue[a]) /\ stage[g] = "none"
    <3>1. queue[a] \in Seq(Calls) /\ queue[a] # <<>>
      BY <1>1, <1>3 DEF NextCall
    <3>2. 1 \in 1..Len(queue[a]) /\ Head(queue[a]) = queue[a][1] /\ queue[a][1] \in Calls
      BY <3>1
    <3> QED
      BY <3>2 DEF BegunInv
  <2> QED
    BY <1>1, <1>3, <2>1 DEF NextCall
<1>4. ASSUME NEW g \in Calls, Add(g) \/ DropPorts(g)
      PROVE  /\ g # h => ports'[h] = ports[h] /\ stage'[h] = stage[h]
             /\ stage[g] # "done"
  BY <1>1, <1>4 DEF Add, DropPorts, Move
<1>5. ASSUME NEW g \in Calls,
             \/ AnswerSessionProgress(g) \/ Reject(g) \/ Answered(g) \/ AwaitCallState(g)
             \/ AwaitHangup(g) \/ Drop(g) \/ Hangup(g) \/ Rejected(g)
      PROVE  UNCHANGED ports /\ (stage[h] = "done" => stage'[h] = "done")
  BY <1>1, <1>5 DEF AnswerSessionProgress, Reject, Answered, AwaitCallState, AwaitHangup,
     Drop, Hangup, Rejected, Move, Awaited
<1>6. ASSUME NEW g \in Calls, CheckActive(g) \/ HangupCall(g)
      PROVE  UNCHANGED ports /\ (stage[h] = "done" => stage'[h] = "done")
  BY <1>1, <1>6 DEF CheckActive, HangupCall, FreeHandle
<1>7. ASSUME NEW a \in Accounts, AddAccount(a) \/ DropAccount(a)
      PROVE  UNCHANGED <<stage, ports>>
  BY <1>7 DEF AddAccount, DropAccount, handleVars
<1>8. CASE Worker \/ Pool \/ UNCHANGED vars
  BY <1>2, <1>8 DEF Worker, Pool, IncomingCall, Confirm, RemoteEnd, RemoteEndReads, RemoteEndReported,
     OnCallMediaState, AnswerJob, RejectJob, vars, handleVars
<1> QED
  BY <1>2, <1>3, <1>4, <1>5, <1>6, <1>7, <1>8 DEF Next, Owner

\* Each call's ports go the way that PortsPromise allows.
LEMMA PortsStep ==
  ASSUME TypeOK, BegunInv, LifeInv, LifeInv', [Next]_vars, NEW h \in Calls
  PROVE  Ports(h)!Next
<1>1. /\ stage[h] = "done" => stage'[h] = "done"
      /\ stage'[h] = "done" => ~PortsAdded(h)'
  BY PortsOfOne DEF LifeInv, LifeOf
<1>2. \/ Ports(h)!Add \/ Ports(h)!Leave
      \/ ports'[h].sink = ports[h].sink /\ ports'[h].stream = ports[h].stream
  <2>1. /\ stage \in [Calls -> Stages]
        /\ ports \in [Calls -> [sink : PortStates, stream : PortStates]]
    BY DEF TypeOK
  <2>2. CASE Add(h)
    <3>1. stage[h] = "setup" /\ ports[h].sink = "none" /\ ports[h].stream = "none"
      BY <2>2 DEF Add, Move, LifeInv, LifeOf, Early
    <3>2. \/ ports'[h].sink = "lost" /\ ports'[h].stream = "lost"
          \/ ports'[h].sink = "added" /\ ports'[h].stream = "lost"
          \/ ports'[h].sink = "added" /\ ports'[h].stream = "added"
      BY <2>1, <2>2 DEF Add
    <3> QED BY <3>1, <3>2 DEF Ports!Add
  <2>3. CASE DropPorts(h)
    <3>1. CASE UNCHANGED ports
      BY <3>1
    <3>2. CASE ports' = [ports EXCEPT ![h] =
                    [sink   |-> IF @.sink = "added" THEN "destroyed" ELSE @.sink,
                     stream |-> IF @.stream = "added" THEN "destroyed" ELSE @.stream]]
      <4>1. /\ ports'[h].sink = IF ports[h].sink = "added" THEN "destroyed"
                                ELSE ports[h].sink
            /\ ports'[h].stream = IF ports[h].stream = "added" THEN "destroyed"
                                  ELSE ports[h].stream
        BY <2>1, <3>2
      <4> QED BY <4>1 DEF Ports!Leave, Ports!InBridge
    <3> QED BY <2>3, <3>1, <3>2 DEF DropPorts
  <2> QED BY <2>2, <2>3, PortsOfOne
<1> QED BY <1>1, <1>2 DEF Ports!Next, Ports!InBridge, PortsAdded

\* PjsuaCall does with the ports of each call what MediaPorts does with them: both
\* implement PortsPromise, so the single step of add, and of a drop, stands for
\* the many that the bridge sees (pjsua_call.rs:262, pjmedia_port_audio_sink.rs:192).
THEOREM CallsKeepTheirPorts == Spec => CallsKeepPorts
<1>1. Init => \A h \in Calls : Ports(h)!Init
  BY DEF Init, Ports!Init
<1>2. LifeAndAnswers /\ LifeAndAnswers' /\ [Next]_vars =>
          [\A h \in Calls : [Ports(h)!Next]_(Ports(h)!vars)]_vars
  BY PortsStep DEF LifeAndAnswers, IInv
<1> QED BY <1>1, <1>2, LifeAndAnswersInvariant, PTL DEF Spec, CallsKeepPorts

-----------------------------------------------------------------------------
(* A drop gets done.                                                        *)

\* How many steps of CheckActive, HangupCall and DropPorts are left in a drop.  The
\* ports of a live handle go before it, those of a freed one after it.
StepsLeft(h) ==
    IF box[h] = "live"
    THEN IF stage[h] = "ports" THEN 4
         ELSE IF stage[h] = "handle" THEN 3
         ELSE IF stage[h] = "hangup" THEN 2
         ELSE 0
    ELSE IF stage[h] = "ports" THEN 1 ELSE 0

DropStep(h) == CheckActive(h) \/ HangupCall(h) \/ DropPorts(h)

\* A drop never turns back and never goes on for ever: each of its steps brings it
\* nearer to its end or ends the process, and no step of anyone else takes it back,
\* in either order of ports and handle (pjsua_call.rs:159, :312, :344).
DropsTakeFourSteps ==
    [][\A h \in Calls : stage[h] \in Dropping =>
          /\ StepsLeft(h) \in 1..4
          /\ StepsLeft(h)' <= StepsLeft(h)
          /\ DropStep(h) => StepsLeft(h)' < StepsLeft(h) \/ ~Running']_vars

\* Every drop gets done, for any calls, entries, accounts and faults.
THEOREM DropsGetDone == Spec => DropsTakeFourSteps
<1>1. IInv /\ LifeInv /\ [Next]_vars =>
        [\A h \in Calls : stage[h] \in Dropping =>
            /\ StepsLeft(h) \in 1..4
            /\ StepsLeft(h)' <= StepsLeft(h)
            /\ DropStep(h) => StepsLeft(h)' < StepsLeft(h) \/ ~Running']_vars
  <2> SUFFICES ASSUME IInv, LifeInv, Next, NEW h \in Calls, stage[h] \in Dropping
               PROVE  /\ StepsLeft(h) \in 1..4
                      /\ StepsLeft(h)' <= StepsLeft(h)
                      /\ DropStep(h) => StepsLeft(h)' < StepsLeft(h) \/ ~Running'
    OBVIOUS
  <2>1. /\ stage \in [Calls -> Stages]
        /\ box \in [Calls -> {"none", "live", "freed"}]
        /\ queue \in [Accounts -> Seq(Calls)]
    BY DEF IInv, TypeOK
  <2>2. /\ box[h] \in {"live", "freed"}
        /\ box[h] = "freed" => stage[h] = "ports"
        /\ StepsLeft(h) \in 1..4
    BY <2>1 DEF LifeInv, LifeOf, Dropping, StepsLeft
  <2>3. ASSUME stage'[h] = stage[h], box'[h] = box[h]
        PROVE  StepsLeft(h)' = StepsLeft(h)
    BY <2>3 DEF StepsLeft
  <2>4. CASE DropStep(h)
    <3>1. \/ stage[h] = "handle" /\ stage'[h] = "hangup" /\ box'[h] = box[h]
          \/ stage[h] \in {"handle", "hangup"} /\ box'[h] = "freed"
          \/ stage[h] = "ports" /\ box'[h] = box[h]
             /\ stage'[h] = IF box[h] = "live" THEN "handle" ELSE "done"
          \/ stage'[h] = stage[h] /\ box'[h] = box[h] /\ ~Running'
      BY <2>1, <2>4 DEF DropStep, CheckActive, HangupCall, DropPorts, FreeHandle, Running
    <3> QED BY <2>2, <3>1 DEF StepsLeft
  <2>5. CASE ~DropStep(h)
    <3>1. ASSUME NEW a \in Accounts, NextCall(a)
          PROVE  stage'[h] = stage[h] /\ box'[h] = box[h]
      <4>1. queue[a] \in Seq(Calls) /\ queue[a] # <<>>
        BY <2>1, <3>1 DEF NextCall
      <4>2. 1 \in 1..Len(queue[a]) /\ Head(queue[a]) = queue[a][1] /\ queue[a][1] \in Calls
        BY <4>1
      <4>3. stage[Head(queue[a])] = "none"
        BY <4>2 DEF IInv, BegunInv
      <4> QED BY <2>1, <3>1, <4>3 DEF NextCall, Dropping
    <3>2. ASSUME NEW g \in Calls,
                 \/ AnswerSessionProgress(g) \/ Reject(g) \/ Add(g) \/ Answered(g)
                 \/ AwaitCallState(g) \/ AwaitHangup(g) \/ Drop(g) \/ Hangup(g) \/ Rejected(g)
          PROVE  stage'[h] = stage[h] /\ box'[h] = box[h]
      BY <2>1, <3>2 DEF AnswerSessionProgress, Reject, Add, Answered, AwaitCallState,
         AwaitHangup, Drop, Hangup, Rejected, Move, Awaited, Dropping
    <3>3. ASSUME NEW g \in Calls, DropStep(g)
          PROVE  stage'[h] = stage[h] /\ box'[h] = box[h]
      BY <2>1, <2>5, <3>3 DEF DropStep, CheckActive, HangupCall, DropPorts, FreeHandle
    <3>4. ASSUME NEW a \in Accounts, AddAccount(a) \/ DropAccount(a)
          PROVE  stage'[h] = stage[h] /\ box'[h] = box[h]
      BY <3>4 DEF AddAccount, DropAccount, handleVars
    <3>5. ASSUME Worker \/ Pool
          PROVE  stage'[h] = stage[h] /\ box'[h] = box[h]
      BY <3>5 DEF Worker, Pool, IncomingCall, Confirm, RemoteEnd, RemoteEndReads, RemoteEndReported,
         OnCallMediaState, AnswerJob, RejectJob, handleVars
    <3>6. stage'[h] = stage[h] /\ box'[h] = box[h]
      BY <3>1, <3>2, <3>3, <3>4, <3>5 DEF Next, Owner, DropStep
    <3>7. StepsLeft(h)' = StepsLeft(h) /\ StepsLeft(h) \in Nat
      BY <2>2, <2>3, <3>6
    <3> QED BY <2>2, <2>5, <3>7
  <2> QED BY <2>4, <2>5, <2>2
<1> QED BY <1>1, LifeAndAnswersInvariant, PTL DEF Spec, LifeAndAnswers, DropsTakeFourSteps
=============================================================================
