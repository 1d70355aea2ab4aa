----------------------------- MODULE MCPjsuaCall -----------------------------
(***************************************************************************)
(* PjsuaCall on small instances.                                           *)
(***************************************************************************)
EXTENDS PjsuaCallPromiseProofs, TLC

\* Every fault of pjsua, and none.
AllFaults == FaultNames
NoFaults == {}

\* Calls, entries and accounts are interchangeable in the safety properties.
Symmetry == Permutations(Calls) \cup Permutations(Slots) \cup Permutations(Accounts)

\* The same for liveness, where TLC's symmetry is not sound: calls and accounts are
\* interchangeable, so one call may be the first, and one account the first's.
First == CHOOSE c \in Calls : TRUE
FirstAccount == CHOOSE a \in Accounts : TRUE

FirstGoesFirst ==
    \A c \in Calls : inv[c] = "Null" /\ inv'[c] # "Null" =>
        /\ c = First \/ inv[First] # "Null"
        /\ c = First => accOf'[c] = FirstAccount

LiveSpec == Init /\ [][Next /\ FirstGoesFirst]_vars /\ Fairness
=============================================================================
