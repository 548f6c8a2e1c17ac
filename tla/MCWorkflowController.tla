------------------------ MODULE MCWorkflowController ------------------------
(***************************************************************************)
(* Work items that share one worktree.                                     *)
(***************************************************************************)
EXTENDS WorkflowController, TLC

SharedKey == [i \in Items |-> "tree"]
SupSymmetry == Permutations(Sups)
=============================================================================
