------------------------- MODULE MCPermissionClaims -------------------------
(***************************************************************************)
(* What the callers of answer_permission may answer, and the symmetry of   *)
(* the connections.                                                        *)
(***************************************************************************)
EXTENDS PermissionClaims, TLC

\* Every caller may answer either way.
OpenSays == [p \in Answerers |-> Answers]
\* One caller may answer either way, the other one only reject.
PairSays == [p \in Answerers |-> IF p = "p1" THEN Answers ELSE {"reject"}]

\* The connections are alike.
ClientSymmetry == Permutations(Clients)
=============================================================================
