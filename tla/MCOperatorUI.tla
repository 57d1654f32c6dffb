----------------------------- MODULE MCOperatorUI -----------------------------
(***************************************************************************)
(* A small instance of OperatorUI: two requests of one user at once, and   *)
(* rows about any set of repositories.                                     *)
(***************************************************************************)
EXTENDS OperatorUI, TLC

CONSTANTS u1, q1, q2, q3, r1

OneUser == [q \in Request |-> u1]
Rows == SUBSET Repo
Symmetric == Permutations(Request)
=============================================================================
