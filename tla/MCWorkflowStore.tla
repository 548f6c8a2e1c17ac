--------------------------- MODULE MCWorkflowStore ---------------------------
(***************************************************************************)
(* A store with a completion (completed, transition; with evidence), a     *)
(* dispatch (leased, started), and a lease sweep of one event.             *)
(***************************************************************************)
EXTENDS WorkflowStore, TLC

MCSize == [c \in Commands |-> IF c \in Sweeps THEN 1 ELSE 2]
\* The processes run the same code.
ProcSymmetry == Permutations(Procs)
=============================================================================
