----------------------- MODULE PjsuaCallPromiseProofs ------------------------
(***************************************************************************)
(* PjsuaCall implements CallPromise, for any calls, entries, accounts,     *)
(* capacities and faults.                                                  *)
(***************************************************************************)
EXTENDS PjsuaCallLifeProofs

-----------------------------------------------------------------------------
(* The abstract state                                                       *)

Phase == [c \in Calls |-> PhaseOf[inv[c]]]
Hold == [h \in Calls |-> HoldOf(h)]

\* HoldOf of a handle with box b at stage st, queued or not, whose call is in i.
HoldAt(b, st, q, i) ==
    CASE b = "freed"                              -> "released"
      [] b = "live" /\ st \in Dropping            -> "closing"
      [] b = "live" /\ st \in {"call", "awaiting"} -> "inCall"
      [] b = "live" /\ st \in Adding              -> "asked"
      [] b = "live" /\ st \in {"incoming", "setup"} -> "held"
      [] b = "none" /\ q                          -> "offered"
      [] b = "none" /\ ~q /\ i # "Null"           -> "withdrawn"
      [] OTHER                                    -> "none"

\* What the application holds tells the box and the stage.
LEMMA HoldAtStage ==
  ASSUME NEW b \in {"none", "live", "freed"}, NEW st \in Stages, NEW q \in BOOLEAN, NEW i,
         st = "none" <=> b = "none",
         b = "live" => st \notin {"rejecting", "done", "unmade"},
         b = "freed" => st \in {"rejecting", "ports", "done", "unmade"}
  PROVE  /\ st \in {"incoming", "setup"} => HoldAt(b, st, q, i) = "held"
         /\ st \in Adding => HoldAt(b, st, q, i) = "asked"
         /\ st \in {"call", "awaiting"} => HoldAt(b, st, q, i) = "inCall"
         /\ st \in {"handle", "hangup"} => HoldAt(b, st, q, i) = "closing"
         /\ st \in {"rejecting", "done", "unmade"} => HoldAt(b, st, q, i) = "released"
         /\ st = "ports" => HoldAt(b, st, q, i) = IF b = "live" THEN "closing" ELSE "released"
         /\ st = "none" /\ q => HoldAt(b, st, q, i) = "offered"
         /\ st = "none" /\ ~q /\ i # "Null" => HoldAt(b, st, q, i) = "withdrawn"
<1>1. CASE b = "freed"
  <2>1. HoldAt(b, st, q, i) = "released"
    BY <1>1 DEF HoldAt
  <2> QED
    BY <1>1, <2>1 DEF Adding
<1>2. CASE b = "none"
  BY <1>2 DEF HoldAt, Adding
<1>3. CASE b = "live"
  BY <1>3 DEF HoldAt, Adding, Dropping
<1> QED
  BY <1>1, <1>2, <1>3

\* A handle with box b at stage st, whose call is queued or not and in state i,
\* counts as v.
Fits(b, st, q, i, v) ==
    /\ st \in {"incoming", "setup"} => v = "held"
    /\ st \in Adding => v = "asked"
    /\ st \in {"call", "awaiting"} => v = "inCall"
    /\ st \in {"handle", "hangup"} => v = "closing"
    /\ st \in {"rejecting", "done", "unmade"} => v = "released"
    /\ st = "ports" => v = IF b = "live" THEN "closing" ELSE "released"
    /\ st = "none" /\ q => v = "offered"
    /\ st = "none" /\ ~q /\ i # "Null" => v = "withdrawn"

\* What a handle counts as before a step ...
LEMMA HoldFits ==
  ASSUME TypeOK, LifeInv, NEW h \in Calls
  PROVE  Fits(box[h], stage[h], Queued(h), inv[h], HoldOf(h))
<1>1. /\ box[h] \in {"none", "live", "freed"} /\ stage[h] \in Stages
      /\ Queued(h) \in BOOLEAN
      /\ LifeOf(h)
  BY DEF TypeOK, Queued, LifeInv
<1>2. HoldOf(h) = HoldAt(box[h], stage[h], Queued(h), inv[h])
  BY DEF HoldOf, HoldAt
<1> QED
  BY <1>1, <1>2, HoldAtStage DEF LifeOf, Fits, Dropping

\* ... and after it.
LEMMA HoldWillFit ==
  ASSUME TypeOK', LifeInv', NEW h \in Calls
  PROVE  Fits(box'[h], stage'[h], Queued(h)', inv'[h], HoldOf(h)')
<1>1. /\ box'[h] \in {"none", "live", "freed"} /\ stage'[h] \in Stages
      /\ Queued(h)' \in BOOLEAN
      /\ LifeOf(h)'
  BY DEF TypeOK, Queued, LifeInv
<1>2. HoldOf(h)' = HoldAt(box'[h], stage'[h], Queued(h)', inv'[h])
  BY DEF HoldOf, HoldAt
<1> QED
  BY <1>1, <1>2, HoldAtStage DEF LifeOf, Fits, Dropping

\* A handle that a step leaves alone counts as before.
LEMMA HoldSame ==
  ASSUME NEW h \in Calls, box'[h] = box[h], stage'[h] = stage[h],
         Queued(h)' <=> Queued(h), inv'[h] = "Null" <=> inv[h] = "Null"
  PROVE  HoldOf(h)' = HoldOf(h)
<1>1. HoldOf(h) = HoldAt(box[h], stage[h], Queued(h), inv[h])
  BY DEF HoldOf, HoldAt
<1>2. HoldOf(h)' = HoldAt(box'[h], stage'[h], Queued(h)', inv'[h])
  BY DEF HoldOf, HoldAt
<1> QED
  BY <1>1, <1>2 DEF HoldAt

\* The handles after a step that changes one of them.
LEMMA HoldOne ==
  ASSUME NEW h \in Calls, \A x \in Calls \ {h} : HoldOf(x)' = HoldOf(x)
  PROVE  Hold' = [Hold EXCEPT ![h] = HoldOf(h)']
BY DEF Hold

\* The calls after a step that changes one of them.
LEMMA PhaseOne ==
  ASSUME inv \in [Calls -> PjsipInvState], NEW c \in Calls, NEW st \in PjsipInvState,
         inv' = [inv EXCEPT ![c] = st]
  PROVE  Phase' = [Phase EXCEPT ![c] = PhaseOf[st]]
BY DEF Phase

-----------------------------------------------------------------------------
(* Steps                                                                    *)

\* A step that the promise allows, or does not see.
Allowed == Promised!Step \/ UNCHANGED <<Phase, Hold, answeredBy>>

\* A step of a handle on its own: nothing of the calls and the queues changes.
LEMMA HandleMoves ==
  ASSUME TypeOK, TypeOK', LifeInv, LifeInv', UNCHANGED <<inv, queue, answeredBy>>,
         NEW h \in Calls,
         \A x \in Calls \ {h} : box'[x] = box[x] /\ stage'[x] = stage[x],
         \/ HoldOf(h)' = HoldOf(h)
         \/ HoldOf(h) = "held" /\ HoldOf(h)' = "asked"
         \/ HoldOf(h) \in {"held", "asked", "inCall"} /\ HoldOf(h)' = "closing"
         \/ /\ HoldOf(h) = "asked" /\ HoldOf(h)' = "inCall" /\ HasAnswered(h)
            /\ inv[h] \in {"Confirmed", "Disconnected"}
         \/ HoldOf(h) = "closing" /\ HoldOf(h)' = "released" /\ inv[h] = "Disconnected"
  PROVE  Allowed
<1>1. Phase' = Phase
  BY DEF Phase
<1>2. \A x \in Calls \ {h} : HoldOf(x)' = HoldOf(x)
  BY HoldSame DEF Queued
<1>3. Hold' = [Hold EXCEPT ![h] = HoldOf(h)']
  BY <1>2, HoldOne
<1>4. /\ Hold[h] = HoldOf(h) /\ Hold \in [Calls -> {Hold[x] : x \in Calls}]
      /\ Phase[h] = PhaseOf[inv[h]]
  BY DEF Hold, Phase
<1>5. CASE HoldOf(h)' = HoldOf(h)
  BY <1>1, <1>3, <1>4, <1>5 DEF Allowed
<1>6. CASE HoldOf(h) = "held" /\ HoldOf(h)' = "asked"
  BY <1>1, <1>3, <1>4, <1>6 DEF Allowed, Promised!Step, Promised!Ask, Hold, Phase
<1>7. CASE HoldOf(h) \in {"held", "asked", "inCall"} /\ HoldOf(h)' = "closing"
  BY <1>1, <1>3, <1>4, <1>7 DEF Allowed, Promised!Step, Promised!Close, Hold, Phase
<1>8. CASE /\ HoldOf(h) = "asked" /\ HoldOf(h)' = "inCall" /\ HasAnswered(h)
           /\ inv[h] \in {"Confirmed", "Disconnected"}
  <2>1. Phase[h] \in {"confirmed", "over"}
    BY <1>4, <1>8 DEF PhaseOf
  <2> QED
    BY <1>1, <1>3, <1>4, <1>8, <2>1
       DEF Allowed, Promised!Step, Promised!Establish, Hold, Phase, HasAnswered
<1>9. CASE HoldOf(h) = "closing" /\ HoldOf(h)' = "released" /\ inv[h] = "Disconnected"
  <2>1. Phase'[h] = "over"
    BY <1>1, <1>4, <1>9 DEF PhaseOf
  <2> QED
    BY <1>1, <1>3, <1>4, <1>9, <2>1
       DEF Allowed, Promised!Step, Promised!Release, Hold, Phase
<1> QED
  BY <1>5, <1>6, <1>7, <1>8, <1>9
\* A step of a call on its own: the handles count as before.
LEMMA HandlesStay ==
  ASSUME UNCHANGED <<box, stage, queue>>,
         \A x \in Calls : inv'[x] = "Null" <=> inv[x] = "Null"
  PROVE  Hold' = Hold
<1>1. \A x \in Calls : HoldOf(x)' = HoldOf(x)
  BY HoldSame DEF Queued
<1> QED
  BY <1>1 DEF Hold

\* A handle speaks for the call in its entry: that is its own, or its own is over.
LEMMA EntryIsSpokenFor ==
  ASSUME IInv, NEW h \in Calls, inv[h] # "Null", NEW c \in Calls, c = occ[slotOf[h]]
  PROVE  Promised!SpeaksFor(h, c)
<1>1. c # h => inv[h] = "Disconnected"
  BY EndedIfAway DEF IInv
<1> QED
  BY <1>1 DEF Promised!SpeaksFor, PhaseOf

\* A call arrives and is offered, or its arrival ends the process.
LEMMA IncomingAllowed ==
  ASSUME IInv, IInv', NEW c \in Calls, NEW a \in Accounts, NEW s \in Slots,
         IncomingCall(c, a, s)
  PROVE  Allowed
<1>1. /\ inv \in [Calls -> PjsipInvState] /\ queue \in [Accounts -> Seq(Calls)]
      /\ BegunInv /\ BegunInv'
  BY DEF IInv, TypeOK
<1>2. /\ inv[c] = "Null" /\ inv' = [inv EXCEPT ![c] = "Incoming"]
      /\ UNCHANGED <<box, stage, answeredBy>>
      /\ \/ ~Running' /\ UNCHANGED queue
         \/ queue' = [queue EXCEPT ![a] = Append(@, c)]
  BY DEF IncomingCall, OnIncomingCall, handleVars, histVars, Running
<1>3. box[c] = "none"
  BY <1>1, <1>2 DEF BegunInv
<1>4. Phase[c] = "none" /\ Phase' = [Phase EXCEPT ![c] = "ringing"]
  <2>1. "Incoming" \in PjsipInvState /\ PhaseOf["Incoming"] = "ringing"
        /\ PhaseOf["Null"] = "none"
    BY DEF PhaseOf, PjsipInvState
  <2> QED
    BY <1>1, <1>2, <2>1, PhaseOne DEF Phase
<1>5. ASSUME NEW x \in Calls, x # c PROVE Queued(x)' <=> Queued(x)
  <2>1. CASE UNCHANGED queue
    BY <2>1 DEF Queued
  <2>2. CASE queue' = [queue EXCEPT ![a] = Append(@, c)]
    <3>1. /\ queue[a] \in Seq(Calls) /\ queue'[a] = Append(queue[a], c)
          /\ \A b \in Accounts \ {a} : queue'[b] = queue[b]
      BY <1>1, <2>2
    <3>2. /\ Len(queue[a]) \in Nat /\ Len(queue'[a]) = Len(queue[a]) + 1
          /\ \A i \in 1..Len(queue[a]) : queue'[a][i] = queue[a][i]
          /\ queue'[a][Len(queue[a]) + 1] = c
      BY <3>1
    <3>3. (\E i \in 1..Len(queue'[a]) : queue'[a][i] = x) <=>
              (\E i \in 1..Len(queue[a]) : queue[a][i] = x)
      <4>1. \A i \in 1..Len(queue'[a]) : i \in 1..Len(queue[a]) \/ i = Len(queue[a]) + 1
        BY <3>2
      <4>2. 1..Len(queue[a]) \subseteq 1..Len(queue'[a])
        BY <3>2
      <4> QED
        BY <1>5, <3>2, <4>1, <4>2
    <3> QED
      BY <3>1, <3>3 DEF Queued
  <2> QED
    BY <1>2, <2>1, <2>2
<1>6. \A x \in Calls \ {c} : HoldOf(x)' = HoldOf(x)
  BY <1>1, <1>2, <1>5, HoldSame
<1>7. Hold' = [Hold EXCEPT ![c] = HoldOf(c)']
  BY <1>6, HoldOne
<1>8. HoldOf(c)' = HoldAt("none", stage'[c], Queued(c)', "Incoming")
  BY <1>1, <1>2, <1>3 DEF HoldOf, HoldAt
<1>9. \/ HoldOf(c)' = "offered"
      \/ ~Running' /\ HoldOf(c)' = "withdrawn"
  <2>1. Queued(c)' \/ (~Running' /\ ~Queued(c)')
    <3>1. CASE ~Running' /\ UNCHANGED queue
      BY <1>1, <1>2, <3>1 DEF Queued, BegunInv
    <3>2. CASE queue' = [queue EXCEPT ![a] = Append(@, c)]
      <4>1. queue[a] \in Seq(Calls) /\ queue'[a] = Append(queue[a], c)
        BY <1>1, <3>2
      <4>2. Len(queue'[a]) \in 1..Len(queue'[a]) /\ queue'[a][Len(queue'[a])] = c
        BY <4>1
      <4> QED
        BY <4>2 DEF Queued
    <3> QED
      BY <1>2, <3>1, <3>2
  <2> QED
    BY <1>8, <2>1 DEF HoldAt
<1> QED
  BY <1>2, <1>4, <1>7, <1>9 DEF Allowed, Promised!Step, Promised!Arrive, Phase, Hold

\* next_call takes a call that was offered.
LEMMA NextAllowed ==
  ASSUME IInv, IInv', LifeInv, LifeInv', NEW a \in Accounts, NextCall(a)
  PROVE  Allowed
<1>1. /\ queue \in [Accounts -> Seq(Calls)] /\ TypeOK /\ TypeOK' /\ BegunInv
      /\ stage \in [Calls -> Stages] /\ box \in [Calls -> {"none", "live", "freed"}]
  BY DEF IInv, TypeOK
<1>2. PICK q \in Seq(Calls) : q = queue[a] /\ q # <<>> /\ Len(q) \in Nat \ {0}
  BY <1>1 DEF NextCall
<1>3. PICK h \in Calls : h = Head(queue[a]) /\ h = q[1] /\ stage[h] = "none"
  <2>1. 1 \in 1..Len(q) /\ Head(q) = q[1] /\ q[1] \in Calls
    BY <1>2
  <2> QED
    BY <1>1, <1>2, <2>1 DEF BegunInv
<1>4. /\ queue' = [queue EXCEPT ![a] = Tail(q)]
      /\ UNCHANGED <<inv, answeredBy>>
      /\ \/ box' = [box EXCEPT ![h] = "live"] /\ stage' = [stage EXCEPT ![h] = "incoming"]
         \/ /\ "set_user_data" \in Faults
            /\ box' = [box EXCEPT ![h] = "freed"] /\ stage' = [stage EXCEPT ![h] = "unmade"]
  BY <1>2, <1>3 DEF NextCall, histVars
<1>5. ASSUME NEW x \in Calls, x # h PROVE Queued(x)' <=> Queued(x)
  <2>1. /\ Len(Tail(q)) = Len(q) - 1
        /\ \A i \in 1..Len(Tail(q)) : Tail(q)[i] = q[i + 1]
    BY <1>2
  <2>2. (\E i \in 1..Len(Tail(q)) : Tail(q)[i] = x) <=> (\E i \in 1..Len(q) : q[i] = x)
    <3>1. ASSUME NEW i \in 1..Len(Tail(q)), Tail(q)[i] = x
          PROVE  \E k \in 1..Len(q) : q[k] = x
      <4>1. i + 1 \in 1..Len(q)
        BY <1>2, <2>1
      <4> QED
        BY <2>1, <3>1, <4>1
    <3>2. ASSUME NEW i \in 1..Len(q), q[i] = x
          PROVE  \E k \in 1..Len(Tail(q)) : Tail(q)[k] = x
      <4>1. i # 1
        BY <1>3, <1>5, <3>2
      <4>2. i - 1 \in 1..Len(Tail(q)) /\ (i - 1) + 1 = i
        BY <1>2, <2>1, <4>1
      <4> QED
        BY <2>1, <3>2, <4>2
    <3> QED
      BY <3>1, <3>2
  <2>3. queue'[a] = Tail(q) /\ \A b \in Accounts \ {a} : queue'[b] = queue[b]
    BY <1>1, <1>4
  <2> QED
    BY ZenonT(40), <1>2, <2>2, <2>3 DEF Queued
<1>6. \A x \in Calls \ {h} : HoldOf(x)' = HoldOf(x)
  BY <1>1, <1>4, <1>5, HoldSame
<1>7. Hold' = [Hold EXCEPT ![h] = HoldOf(h)']
  BY <1>6, HoldOne
<1>8. Hold[h] = "offered"
  <2>1. 1 \in 1..Len(queue[a]) /\ queue[a][1] = h
    BY <1>2, <1>3
  <2>2. Queued(h)
    BY <2>1 DEF Queued
  <2> QED
    BY <1>1, <1>3, <2>2, HoldFits DEF Fits, Hold
<1>9. \/ HoldOf(h)' = "held"
      \/ "set_user_data" \in Faults /\ HoldOf(h)' = "released"
  <2>1. \/ stage'[h] = "incoming"
        \/ "set_user_data" \in Faults /\ stage'[h] = "unmade"
    BY <1>1, <1>4
  <2> QED
    BY <1>1, <2>1, HoldWillFit DEF Fits
<1>10. Phase' = Phase
  BY <1>4 DEF Phase
<1> QED
  BY <1>4, <1>7, <1>8, <1>9, <1>10 DEF Allowed, Promised!Step, Promised!Take, Phase, Hold

\* When an account goes, what it had queued is withdrawn.
LEMMA DropAccountAllowed ==
  ASSUME IInv, LifeInv, NEW a \in Accounts, DropAccount(a)
  PROVE  Allowed
<1>1. queue \in [Accounts -> Seq(Calls)] /\ TypeOK /\ BegunInv
  BY DEF IInv, TypeOK
<1>2. queue' = [queue EXCEPT ![a] = <<>>] /\ UNCHANGED <<inv, box, stage, answeredBy>>
  BY DEF DropAccount, pjsuaVars, handleVars, histVars
<1>3. PICK cs \in SUBSET Calls : cs = {queue[a][i] : i \in 1..Len(queue[a])}
  <2>1. \A i \in 1..Len(queue[a]) : queue[a][i] \in Calls
    BY <1>1
  <2>2. {queue[a][i] : i \in 1..Len(queue[a])} \in SUBSET Calls
    BY <2>1
  <2> QED
    BY <2>2
<1>4. ASSUME NEW x \in cs
      PROVE  x \in Calls /\ HoldOf(x) = "offered" /\ HoldOf(x)' = "withdrawn"
  <2>1. PICK i \in 1..Len(queue[a]) : x = queue[a][i]
    BY <1>3
  <2>2. x \in Calls /\ box[x] = "none" /\ stage[x] = "none" /\ inv[x] # "Null" /\ accOf[x] = a
    BY <1>1, <2>1 DEF BegunInv
  <2>3. Queued(x)
    BY <2>1 DEF Queued
  <2>4. ~Queued(x)'
    <3>1. ASSUME NEW b \in Accounts, NEW j \in 1..Len(queue'[b]), queue'[b][j] = x PROVE FALSE
      <4>1. b # a
        BY <1>1, <1>2, <3>1
      <4>2. queue'[b] = queue[b]
        BY <1>1, <1>2, <4>1
      <4> QED
        BY <1>1, <2>2, <3>1, <4>1, <4>2 DEF BegunInv
    <3> QED
      BY <3>1 DEF Queued
  <2>5. /\ HoldOf(x) = HoldAt("none", stage[x], TRUE, inv[x])
        /\ HoldOf(x)' = HoldAt("none", stage[x], FALSE, inv[x])
    BY <1>2, <2>2, <2>3, <2>4 DEF HoldOf, HoldAt
  <2> QED
    BY <2>2, <2>5 DEF HoldAt
<1>5. ASSUME NEW x \in Calls, x \notin cs PROVE HoldOf(x)' = HoldOf(x)
  <2>1. Queued(x)' <=> Queued(x)
    <3>1. queue'[a] = <<>> /\ \A b \in Accounts \ {a} : queue'[b] = queue[b]
      BY <1>1, <1>2
    <3>2. ~\E i \in 1..Len(queue[a]) : queue[a][i] = x
      BY <1>3, <1>5
    <3> QED
      BY <3>1, <3>2 DEF Queued
  <2> QED
    BY <1>2, <2>1, HoldSame
<1>6. Hold' = [c \in Calls |-> IF c \in cs THEN "withdrawn" ELSE Hold[c]]
  BY <1>4, <1>5 DEF Hold
<1>7. (\A c \in cs : Hold[c] = "offered") /\ Phase' = Phase
  BY <1>2, <1>4 DEF Hold, Phase
<1> QED
  BY <1>2, <1>3, <1>6, <1>7 DEF Allowed, Promised!Step, Promised!Withdraw, Phase, Hold

\* A call that an answer job answers was rung on behalf of a handle that asked.
LEMMA AnswerAllowed ==
  ASSUME IInv, LifeInv, NEW h \in Calls, AnswerJob(h)
  PROVE  Allowed
<1>1. /\ inv \in [Calls -> PjsipInvState] /\ occ \in [Slots -> Calls \cup {None}]
      /\ answeredBy \in [Calls -> Calls \cup {None}] /\ None \notin Calls
      /\ TypeOK /\ TableInv /\ BegunInv
  BY CallAssumption DEF IInv, TypeOK
<1>2. UNCHANGED <<box, stage, queue>> /\ job[h] = "answer"
  BY DEF AnswerJob, accVars
<1>3. CASE UNCHANGED <<inv, answeredBy>>
  <2>1. Hold' = Hold
    BY <1>2, <1>3, HandlesStay
  <2> QED
    BY <1>3, <2>1 DEF Allowed, Phase
<1>4. CASE /\ Ringing(slotOf[h])
           /\ inv' = [inv EXCEPT ![occ[slotOf[h]]] = "Connecting"]
           /\ answeredBy' = [answeredBy EXCEPT ![occ[slotOf[h]]] = h]
  <2>1. inv[h] # "Null" /\ slotOf[h] \in Slots
    BY <1>1, <1>2 DEF BegunInv, TableInv
  <2>2. PICK c \in Calls : c = occ[slotOf[h]] /\ inv[c] = "Incoming"
    BY <1>1, <1>4, <2>1 DEF Ringing
  <2>3. Hold' = Hold
    BY <1>1, <1>2, <1>4, <2>2, HandlesStay
  <2>4. Phase[c] = "ringing" /\ Phase' = [Phase EXCEPT ![c] = "answered"]
    <3>1. "Connecting" \in PjsipInvState /\ PhaseOf["Connecting"] = "answered"
          /\ PhaseOf["Incoming"] = "ringing"
      BY DEF PhaseOf, PjsipInvState
    <3> QED
      BY <1>1, <1>4, <2>2, <3>1, PhaseOne DEF Phase
  <2>5. Hold[h] \in {"asked", "closing", "released"}
    <3>1. stage[h] \in {"answering", "done"} \cup Dropping
      BY <1>2 DEF LifeInv, LifeOf
    <3>2. Fits(box[h], stage[h], Queued(h), inv[h], HoldOf(h))
      BY <1>1, HoldFits
    <3> QED
      BY <3>1, <3>2 DEF Fits, Dropping, Adding, Hold
  <2>6. Promised!SpeaksFor(h, c)
    BY <2>1, <2>2, EntryIsSpokenFor
  <2> QED
    BY <1>4, <2>2, <2>3, <2>4, <2>5, <2>6
       DEF Allowed, Promised!Step, Promised!Answer, Phase, Hold
<1> QED
  BY <1>3, <1>4 DEF AnswerJob

\* A hangup request ends a call that its handle speaks for.
LEMMA EndCallEnds ==
  ASSUME IInv, NEW h \in Calls, inv[h] # "Null", SlotActive(slotOf[h]), EndCall(h)
  PROVE  \E c \in Calls :
            /\ Promised!SpeaksFor(h, c)
            /\ Phase[c] \in {"ringing", "answered", "confirmed"}
            /\ Phase' = [Phase EXCEPT ![c] = "over"]
            /\ \A x \in Calls : inv'[x] = "Null" <=> inv[x] = "Null"
<1>1. /\ inv \in [Calls -> PjsipInvState] /\ occ \in [Slots -> Calls \cup {None}]
      /\ TableInv /\ slotOf[h] \in Slots
  BY DEF IInv, TypeOK, TableInv
<1>2. PICK c \in Calls : /\ c = occ[slotOf[h]]
                       /\ inv[c] \in {"Incoming", "Connecting", "Confirmed"}
  BY <1>1 DEF SlotActive, Active
<1>3. inv' = [inv EXCEPT ![c] = "Disconnected"]
  BY <1>2 DEF EndCall
<1>4. Phase' = [Phase EXCEPT ![c] = "over"]
  <2>1. "Disconnected" \in PjsipInvState /\ PhaseOf["Disconnected"] = "over"
    BY DEF PhaseOf, PjsipInvState
  <2> QED
    BY <1>1, <1>3, <2>1, PhaseOne
<1>5. Phase[c] \in {"ringing", "answered", "confirmed"}
  BY <1>2 DEF Phase, PhaseOf
<1>6. \A x \in Calls : inv'[x] = "Null" <=> inv[x] = "Null"
  BY <1>1, <1>2, <1>3
<1> QED
  BY <1>2, <1>4, <1>5, <1>6, EntryIsSpokenFor

\* A late rejection is one by a handle that is gone.
LEMMA RejectAllowed ==
  ASSUME IInv, LifeInv, NEW h \in Calls, RejectJob(h)
  PROVE  Allowed
<1>1. UNCHANGED <<box, stage, queue, answeredBy>> /\ job[h] = "reject"
  BY DEF RejectJob, accVars
<1>2. inv[h] # "Null" /\ stage[h] \in {"rejecting", "done"}
  BY <1>1 DEF IInv, BegunInv, LifeInv, LifeOf
<1>3. CASE UNCHANGED inv
  <2>1. Hold' = Hold
    BY <1>1, <1>3, HandlesStay
  <2> QED
    BY <1>1, <1>3, <2>1 DEF Allowed, Phase
<1>4. CASE SlotActive(slotOf[h]) /\ EndCall(h)
  <2>1. PICK c \in Calls :
            /\ Promised!SpeaksFor(h, c)
            /\ Phase[c] \in {"ringing", "answered", "confirmed"}
            /\ Phase' = [Phase EXCEPT ![c] = "over"]
            /\ \A x \in Calls : inv'[x] = "Null" <=> inv[x] = "Null"
    BY <1>2, <1>4, EndCallEnds
  <2>2. Hold' = Hold
    BY <1>1, <2>1, HandlesStay
  <2>3. Hold[h] = "released"
    BY <1>2, HoldFits DEF Fits, Hold, IInv
  <2> QED
    BY <1>1, <2>1, <2>2, <2>3
       DEF Allowed, Promised!Step, Promised!Dismiss, Promised!RemoteEnd, Phase, Hold
<1> QED
  BY <1>3, <1>4 DEF RejectJob

\* A drop that hangs up releases its handle and ends a call.
LEMMA HangupAllowed ==
  ASSUME IInv, IInv', LifeInv, LifeInv', NEW h \in Calls, HangupCall(h)
  PROVE  Allowed
<1>1. /\ UNCHANGED <<queue, answeredBy>> /\ stage[h] = "hangup" /\ inv[h] # "Null"
      /\ TypeOK /\ TypeOK'
  BY DEF HangupCall, accVars, IInv, BegunInv
<1>2. CASE UNCHANGED <<inv, box, stage>>
  <2>1. Hold' = Hold
    BY <1>1, <1>2, HandlesStay
  <2> QED
    BY <1>1, <1>2, <2>1 DEF Allowed, Phase
<1>3. CASE SlotActive(slotOf[h]) /\ EndCall(h) /\ FreeHandle(h)
  <2>1. PICK c \in Calls :
            /\ Promised!SpeaksFor(h, c)
            /\ Phase[c] \in {"ringing", "answered", "confirmed"}
            /\ Phase' = [Phase EXCEPT ![c] = "over"]
            /\ \A x \in Calls : inv'[x] = "Null" <=> inv[x] = "Null"
    BY <1>1, <1>3, EndCallEnds
  <2>2. /\ \A x \in Calls \ {h} : box'[x] = box[x] /\ stage'[x] = stage[x]
        /\ box'[h] = "freed"
    BY <1>1, <1>3 DEF FreeHandle, TypeOK
  <2>3. \A x \in Calls \ {h} : HoldOf(x)' = HoldOf(x)
    BY <1>1, <2>1, <2>2, HoldSame DEF Queued
  <2>4. Hold' = [Hold EXCEPT ![h] = HoldOf(h)']
    BY <2>3, HoldOne
  <2>5. HoldOf(h)' = "released"
    BY <2>2 DEF HoldOf
  <2>6. Hold[h] = "closing"
    BY <1>1, HoldFits DEF Fits, Hold
  <2>7. Phase'[h] = "over"
    <3>1. inv'[h] = "Disconnected"
      BY <1>1, <1>3, EndCallEndsOwn
    <3> QED
      BY <3>1 DEF Phase, PhaseOf
  <2> QED
    BY ZenonT(40), <1>1, <2>1, <2>4, <2>5, <2>6, <2>7
       DEF Allowed, Promised!Step, Promised!Release, Phase, Hold
<1> QED
  BY <1>2, <1>3 DEF HangupCall

\* Whoever reads CONFIRMED may go on: the handle answered, its call was confirmed.
LEMMA AwaitAllowed ==
  ASSUME IInv, IInv', LifeInv, LifeInv', AnswerInv, ReportInv,
         NEW h \in Calls, AwaitCallState(h)
  PROVE  Allowed
<1>1. /\ UNCHANGED <<queue, inv, box, answeredBy>>
      /\ stage[h] \in AfterAnswer \ {"call"} /\ chan[h] # <<>>
      /\ \E st \in {"confirming", "call", "ports"} : stage' = [stage EXCEPT ![h] = st]
      /\ TypeOK /\ TypeOK' /\ chan[h] \in Seq(PjsipInvState) /\ stage \in [Calls -> Stages]
  <2>1. /\ UNCHANGED <<queue, inv, box, answeredBy>>
        /\ stage[h] \in AfterAnswer \ {"call"} /\ chan[h] # <<>>
    BY DEF AwaitCallState, Awaited, AfterAnswer, accVars, pjsuaVars, histVars
  <2>2. AfterAwait[stage[h]] \in {"confirming", "call", "ports"}
    BY <2>1 DEF AfterAwait, AfterAnswer
  <2>3. \E st \in {"confirming", "call", "ports"} : stage' = [stage EXCEPT ![h] = st]
    BY <2>2 DEF AwaitCallState, Move
  <2>4. /\ TypeOK /\ TypeOK' /\ chan[h] \in Seq(PjsipInvState)
        /\ stage \in [Calls -> Stages]
    BY DEF IInv, TypeOK
  <2> QED
    BY <2>1, <2>3, <2>4
<1>2. /\ Fits(box[h], stage[h], Queued(h), inv[h], HoldOf(h))
      /\ Fits(box'[h], stage'[h], Queued(h)', inv'[h], HoldOf(h)')
  BY <1>1, HoldFits, HoldWillFit
<1>3. box[h] = "live"
  BY <1>1 DEF LifeInv, LifeOf, AfterAnswer, TypeOK
<1>4. \A x \in Calls \ {h} : box'[x] = box[x] /\ stage'[x] = stage[x]
  BY <1>1
<1>5. CASE stage'[h] = "confirming"
  <2>1. stage[h] = "connecting"
    BY <1>1, <1>5 DEF AwaitCallState, Move, Awaited, AfterAwait, AfterAnswer
  <2>2. HoldOf(h) = "asked" /\ HoldOf(h)' = "asked"
    BY <1>2, <1>5, <2>1 DEF Fits, Adding
  <2> QED
    BY <1>1, <1>4, <2>2, HandleMoves
<1>6. CASE stage'[h] = "call"
  <2>1. stage[h] = "confirming" /\ Head(chan[h]) = "Confirmed"
    BY <1>1, <1>6 DEF AwaitCallState, Move, Awaited, AfterAwait, AfterAnswer
  <2>2. HoldOf(h) = "asked" /\ HoldOf(h)' = "inCall"
    BY <1>2, <1>6, <2>1 DEF Fits, Adding
  <2>3. 1 \in 1..Len(chan[h]) /\ chan[h][1] = "Confirmed"
    BY <1>1, <2>1
  <2>4. inv[h] \in {"Confirmed", "Disconnected"} /\ HasAnswered(h)
    BY <2>1, <2>3 DEF ReportInv, AnswerInv, AnswerOf, AfterAnswer
  <2> QED
    BY <1>1, <1>4, <2>2, <2>4, HandleMoves
<1>7. CASE stage'[h] = "ports"
  <2>1. HoldOf(h) \in {"asked", "inCall"} /\ HoldOf(h)' = "closing"
    BY <1>1, <1>2, <1>3, <1>7 DEF Fits, Adding, AfterAnswer
  <2> QED
    BY <1>1, <1>4, <2>1, HandleMoves
<1> QED
  BY <1>1, <1>5, <1>6, <1>7

\* The other steps of the owning thread open, set up, await and drop one handle.
LEMMA OwnerAllowed ==
  ASSUME IInv, IInv', LifeInv, LifeInv', NEW h \in Calls,
         \/ AnswerSessionProgress(h) \/ Reject(h) \/ Add(h) \/ Answered(h) \/ AwaitHangup(h)
         \/ Drop(h) \/ Hangup(h) \/ Rejected(h) \/ CheckActive(h) \/ DropPorts(h)
  PROVE  Allowed
<1>1. /\ UNCHANGED <<queue, inv, answeredBy>>
      /\ TypeOK /\ TypeOK' /\ stage \in [Calls -> Stages]
      /\ box \in [Calls -> {"none", "live", "freed"}]
  BY DEF AnswerSessionProgress, Reject, Add, Answered, AwaitHangup, Drop, Hangup,
     Rejected, CheckActive, DropPorts, accVars, pjsuaVars, histVars, IInv, TypeOK
<1>2. /\ Fits(box[h], stage[h], Queued(h), inv[h], HoldOf(h))
      /\ Fits(box'[h], stage'[h], Queued(h)', inv'[h], HoldOf(h)')
  BY <1>1, HoldFits, HoldWillFit
<1>3. LifeOf(h) /\ LifeOf(h)'
  BY DEF LifeInv
<1>4. ASSUME NEW st \in Stages, stage' = [stage EXCEPT ![h] = st], UNCHANGED box,
             \/ stage[h] \in {"incoming", "setup"} /\ st \in {"setup", "answering", "handle"}
             \/ stage[h] = "setup" /\ st = "ports"
             \/ stage[h] \in Adding /\ st \in {"connecting", "ports"}
             \/ stage[h] \in {"call", "awaiting"} /\ st \in {"awaiting", "ports", "handle"}
             \/ stage[h] = "rejecting" /\ st = "done"
             \/ stage[h] = "handle" /\ st = "hangup"
             \/ stage[h] = "ports" /\ st = IF box[h] = "live" THEN "handle" ELSE "done"
      PROVE  Allowed
  <2>1. stage'[h] = st /\ \A x \in Calls \ {h} : box'[x] = box[x] /\ stage'[x] = stage[x]
    BY <1>1, <1>4
  <2>2. \/ HoldOf(h)' = HoldOf(h)
        \/ HoldOf(h) = "held" /\ HoldOf(h)' = "asked"
        \/ HoldOf(h) \in {"held", "asked", "inCall"} /\ HoldOf(h)' = "closing"
    <3>1. CASE stage[h] \in {"incoming", "setup", "rejecting", "handle"}
      <4>1. stage[h] = "setup" => box'[h] = "live"
        BY <1>1, <1>3, <1>4 DEF LifeOf
      <4> QED
        BY <1>2, <1>4, <2>1, <3>1, <4>1 DEF Fits, Adding
    <3>2. CASE stage[h] = "ports"
      BY <1>2, <1>4, <2>1, <3>2 DEF Fits
    <3>3. CASE stage[h] \in Adding \cup {"call", "awaiting"}
      <4>1. box'[h] = "live"
        BY <1>1, <1>3, <1>4, <3>3 DEF LifeOf, Adding
      <4> QED
        BY <1>2, <1>4, <2>1, <3>3, <4>1 DEF Fits, Adding
    <3> QED
      BY <1>4, <3>1, <3>2, <3>3
  <2> QED
    BY <1>1, <2>1, <2>2, HandleMoves
<1>5. ASSUME AnswerSessionProgress(h) \/ Reject(h) \/ Add(h) \/ Answered(h) PROVE Allowed
  BY <1>4, <1>5 DEF AnswerSessionProgress, Reject, Add, Answered, Move, Stages, Adding
<1>6. ASSUME AwaitHangup(h) \/ Drop(h) \/ Hangup(h) \/ Rejected(h) PROVE Allowed
  BY <1>4, <1>6 DEF AwaitHangup, Drop, Hangup, Rejected, Move, Stages, Adding
<1>7. CASE DropPorts(h)
  <2>1. CASE UNCHANGED stage
    <3>1. Hold' = Hold
      BY <1>1, <1>7, <2>1, HandlesStay DEF DropPorts
    <3> QED
      BY <1>1, <3>1 DEF Allowed, Phase
  <2>2. CASE stage' = [stage EXCEPT ![h] = IF box[h] = "live" THEN "handle" ELSE "done"]
    BY <1>4, <1>7, <2>2 DEF DropPorts, Stages
  <2> QED
    BY <1>7, <2>1, <2>2 DEF DropPorts
<1>8. CASE CheckActive(h)
  <2>1. stage[h] = "handle"
    BY <1>8 DEF CheckActive
  <2>2. CASE stage' = [stage EXCEPT ![h] = "hangup"] /\ UNCHANGED box
    BY <1>4, <2>1, <2>2 DEF Stages
  <2>3. CASE ~SlotActive(slotOf[h]) /\ FreeHandle(h)
    <3>1. inv[h] = "Disconnected"
      BY <1>1, <2>1, <2>3, FreedWhenOver
    <3>2. /\ \A x \in Calls \ {h} : box'[x] = box[x] /\ stage'[x] = stage[x]
          /\ box'[h] = "freed"
      BY <1>1, <2>3 DEF FreeHandle
    <3>3. HoldOf(h)' = "released" /\ HoldOf(h) = "closing"
      BY <1>2, <2>1, <3>2 DEF HoldOf, Fits
    <3> QED
      BY <1>1, <3>1, <3>2, <3>3, HandleMoves
  <2> QED
    BY <1>8, <2>2, <2>3 DEF CheckActive
<1> QED
  BY <1>5, <1>6, <1>7, <1>8

\* A call is acknowledged, or the remote side ends it.
LEMMA RemoteAllowed ==
  ASSUME IInv, NEW c \in Calls, Confirm(c) \/ RemoteEnd(c)
  PROVE  Allowed
<1>1. /\ inv \in [Calls -> PjsipInvState]
      /\ UNCHANGED <<box, stage, queue, answeredBy>>
  BY DEF IInv, TypeOK, Confirm, RemoteEnd, accVars, handleVars, histVars
<1>2. /\ {"Confirmed", "Disconnected"} \subseteq PjsipInvState
      /\ PhaseOf["Confirmed"] = "confirmed" /\ PhaseOf["Disconnected"] = "over"
      /\ PhaseOf["Connecting"] = "answered" /\ PhaseOf["Incoming"] = "ringing"
  BY DEF PhaseOf, PjsipInvState
<1>3. CASE Confirm(c)
  <2>1. inv[c] = "Connecting" /\ inv' = [inv EXCEPT ![c] = "Confirmed"]
    BY <1>3 DEF Confirm
  <2>2. Phase[c] = "answered" /\ Phase' = [Phase EXCEPT ![c] = "confirmed"]
    BY <1>1, <1>2, <2>1, PhaseOne DEF Phase
  <2>3. Hold' = Hold
    BY <1>1, <2>1, HandlesStay
  <2> QED
    BY <1>1, <2>2, <2>3 DEF Allowed, Promised!Step, Promised!Confirm, Phase, Hold
<1>4. CASE RemoteEnd(c)
  <2>1. /\ inv[c] \in {"Incoming", "Connecting", "Confirmed"}
        /\ inv' = [inv EXCEPT ![c] = "Disconnected"]
    BY <1>4 DEF RemoteEnd, Active
  <2>2. /\ Phase[c] \in {"ringing", "answered", "confirmed"}
        /\ Phase' = [Phase EXCEPT ![c] = "over"]
    BY <1>1, <1>2, <2>1, PhaseOne DEF Phase
  <2>3. Hold' = Hold
    BY <1>1, <2>1, HandlesStay
  <2> QED
    BY <1>1, <2>2, <2>3 DEF Allowed, Promised!Step, Promised!RemoteEnd, Phase, Hold
<1> QED
  BY <1>3, <1>4

-----------------------------------------------------------------------------
(* The implementation                                                       *)

\* Initial states map to initial states.
LEMMA PromiseInit == Init => Promised!Init
<1> SUFFICES ASSUME Init PROVE Promised!Init
  OBVIOUS
<1>1. Running /\ answeredBy = [c \in Calls |-> None]
  BY DEF Init, Running
<1>2. ASSUME NEW c \in Calls PROVE PhaseOf[inv[c]] = "none" /\ HoldOf(c) = "none"
  <2>1. /\ inv[c] = "Null" /\ box[c] = "none"
        /\ \A a \in Accounts : queue[a] = <<>>
    BY DEF Init
  <2>2. ~Queued(c)
    BY <2>1 DEF Queued
  <2>3. HoldOf(c) = HoldAt("none", stage[c], FALSE, "Null")
    BY <2>1, <2>2 DEF HoldOf, HoldAt
  <2> QED
    BY <2>1, <2>3 DEF PhaseOf, HoldAt
<1> QED
  BY <1>1, <1>2 DEF Promised!Init

\* Every step maps to a step or to a stutter.
LEMMA PromiseStep ==
  ASSUME LifeAndAnswers, LifeAndAnswers', ReportInv, [Next]_vars
  PROVE  [Promised!Next]_(Promised!vars)
<1>1. IInv /\ IInv' /\ LifeInv /\ LifeInv' /\ AnswerInv
  BY DEF LifeAndAnswers
<1>2. CASE UNCHANGED vars
  <2>1. UNCHANGED <<Running, Phase, answeredBy>>
    BY <1>2 DEF vars, pjsuaVars, histVars, Running, Phase
  <2>2. Hold' = Hold
    BY <1>2, HandlesStay DEF vars, accVars, pjsuaVars, handleVars
  <2> QED
    BY <2>1, <2>2 DEF Promised!vars, Phase, Hold
<1>3. CASE Next
  <2>1. Running
    BY <1>3 DEF Next, Worker, Pool, Owner, IncomingCall, Confirm, RemoteEnd,
       RemoteEndReads, RemoteEndReported, OnCallMediaState, AnswerJob, RejectJob, AddAccount, DropAccount,
       NextCall, AnswerSessionProgress, Reject, Add, Answered, AwaitCallState, AwaitHangup,
       Drop, Hangup, Rejected, CheckActive, HangupCall, DropPorts, Move
  <2>2. ASSUME NEW s \in Slots,
               RemoteEndReads(s) \/ RemoteEndReported(s) \/ OnCallMediaState(s)
        PROVE  Allowed
    <3>1. UNCHANGED <<box, stage, queue, inv, answeredBy>>
      BY <2>2 DEF RemoteEndReads, RemoteEndReported, OnCallMediaState, accVars, pjsuaVars,
         handleVars, histVars
    <3>2. Hold' = Hold
      BY <3>1, HandlesStay
    <3> QED
      BY <3>1, <3>2 DEF Allowed, Phase
  <2>3. ASSUME NEW a \in Accounts, AddAccount(a) PROVE Allowed
    <3>1. UNCHANGED <<box, stage, queue, inv, answeredBy>>
      BY <2>3 DEF AddAccount, pjsuaVars, handleVars, histVars
    <3>2. Hold' = Hold
      BY <3>1, HandlesStay
    <3> QED
      BY <3>1, <3>2 DEF Allowed, Phase
  <2>4. Allowed
    BY <1>1, <1>3, <2>2, <2>3, IncomingAllowed, NextAllowed, DropAccountAllowed,
       AnswerAllowed, RejectAllowed, HangupAllowed, AwaitAllowed, OwnerAllowed, RemoteAllowed
       DEF Next, Worker, Pool, Owner
  <2>5. Running' \in BOOLEAN
    BY DEF Running
  <2> QED
    BY <2>1, <2>4, <2>5 DEF Allowed, Promised!Next, Phase, Hold
<1> QED
  BY <1>2, <1>3

\* PjsuaCall implements CallPromise: a handle answers and ends only what it speaks
\* for, is released only when its own call is over, and becomes a PjsuaCall only if
\* it answered a call and its own is confirmed or over.
THEOREM CallsKeepThePromise == Spec => KeepsPromise
<1>1. LifeAndAnswers /\ LifeAndAnswers' /\ ReportInv /\ [Next]_vars =>
          [Promised!Next]_(Promised!vars)
  BY PromiseStep
<1> QED
  BY <1>1, PromiseInit, LifeAndAnswersInvariant, ReportInvariant, PTL
     DEF Spec, KeepsPromise, Promised!Spec

=============================================================================
