----------------------------- MODULE SavedState -----------------------------
(***************************************************************************)
(* What the ALUA metadata under /var/target/alua promises, whatever the    *)
(* tools do step by step: the state saved for a port is written by that    *)
(* port while it exists, survives its removal, and is forgotten only while *)
(* it does not exist.                                                      *)
(***************************************************************************)
CONSTANTS Port, Value, None

VARIABLES
    exists,  \* the ports that exist
    state    \* what is saved for each port

Init == exists = {} /\ state = [p \in Port |-> None]

Reconfigure == exists' \in SUBSET Port /\ UNCHANGED state

Save(p) ==
    /\ p \in exists
    /\ \E v \in Value : state' = [state EXCEPT ![p] = v]
    /\ UNCHANGED exists

Forget(S) ==
    /\ S \cap exists = {}
    /\ state' = [p \in Port |-> IF p \in S THEN None ELSE state[p]]
    /\ UNCHANGED exists

Next ==
    \/ Reconfigure
    \/ \E p \in Port : Save(p)
    \/ \E S \in SUBSET Port : Forget(S)

Spec == Init /\ [][Next]_<<exists, state>>
=============================================================================
