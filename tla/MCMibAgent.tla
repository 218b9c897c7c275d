---------------------------- MODULE MCMibAgent -----------------------------
(* MibAgent over every table, with at most two records in its file. *)
EXTENDS MibAgent, TLC

CONSTANTS n1, n2

S(last, variant, bad) == [last |-> last, variant |-> variant, bad |-> bad]

\* No record, the first with one or other of its words, both in either order, a first that
\* does not begin well before a second, and one that breaks off before a second.
SmallShapes == {
    <<>>,
    <<S(1, 1, 0)>>,
    <<S(1, 2, 0)>>,
    <<S(1, 1, 0), S(2, 1, 0)>>,
    <<S(2, 1, 0), S(1, 2, 0)>>,
    <<S(1, 1, 1), S(2, 2, 0)>>,
    <<S(1, 1, 2), S(2, 1, 0)>> }

OneAlias == <<"alias">>

\* Only whether names are equal matters.
Names == Permutations(Initiator)
=============================================================================
