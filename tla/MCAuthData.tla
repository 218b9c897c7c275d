----------------------------- MODULE MCAuthData -----------------------------
(* AuthData over two initiators that share a portal group and its users. *)
EXTENDS AuthData, TLC

CONSTANTS i1, i2, u1, u2

L(n, u) == [name |-> n, tpgt |-> 1, user |-> u]

\* No entry, one initiator, both with two users, one with two LUNs before the other.
SmallFiles == {
    <<Skipped>>,
    <<L(i2, u1)>>,
    <<L(i1, u1), L(i1, u2), L(i2, u1)>>,
    <<L(i1, u1), L(i1, u1), L(i2, u1)>> }

Tags == {1}

\* A manager that reads the identities and what is made of them.
TwoTables == {{"ident", "tgtAuth"}, {"idName", "chap"}, {"ident", "cred"}}

\* Only whether addresses are equal matters.
Addresses == Permutations(Addr)
=============================================================================
