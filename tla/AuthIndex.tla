------------------------------ MODULE AuthIndex ------------------------------
(***************************************************************************)
(* What the authentication MIB promises of the index of an identity,       *)
(* whatever the agent does step by step: an index is given once, to one    *)
(* name, and a name keeps its index for as long as it stays in the list.   *)
(* Only a new start of the agent begins again.                             *)
(***************************************************************************)
EXTENDS Naturals, Sequences

CONSTANT Name

VARIABLES
    owner,  \* the names that were given the indices 1, 2, ...
    index   \* the index of each name in the list

Nothing == [n \in {} |-> 0]

Init == owner = <<>> /\ index = Nothing

Give(n) == owner' = Append(owner, n) /\ UNCHANGED index

\* A new list: every name under an index of its own, and under the one it had.
Replace(names) ==
    /\ DOMAIN index' = names
    /\ \A n \in names :
         /\ index'[n] \in DOMAIN owner
         /\ owner[index'[n]] = n
         /\ n \in DOMAIN index => index'[n] = index[n]
    /\ UNCHANGED owner

Restart == owner' = <<>> /\ index' = Nothing

Next ==
    \/ \E n \in Name : Give(n)
    \/ \E names \in SUBSET Name : Replace(names)
    \/ Restart

Spec == Init /\ [][Next]_<<owner, index>>
=============================================================================
