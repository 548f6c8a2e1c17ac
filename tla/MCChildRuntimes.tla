--------------------------- MODULE MCChildRuntimes ---------------------------
(***************************************************************************)
(* An ordinary child beside a team, and a workflow node beside a decider.  *)
(***************************************************************************)
EXTENDS ChildRuntimes

TeamKinds == {[c \in Children |-> IF c = "d1" THEN "ordinary" ELSE "team"]}
PairKinds ==
  TeamKinds \cup {[c \in Children |-> IF c = "d1" THEN "node" ELSE "decider"]}
=============================================================================
