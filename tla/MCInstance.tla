----------------------------- MODULE MCInstance -----------------------------
(***************************************************************************)
(* One instance: its state machine, on the fork template, and the log and  *)
(* the snapshot it is kept in.  The two are modelled apart (what a command *)
(* does, and what becomes of its batch of events), so a behaviour moves    *)
(* one of them, chosen at the start.                                       *)
(***************************************************************************)
EXTENDS MCWorkflowKernel, MCWorkflowStore

VARIABLE focus

instanceVars == <<focus, vars, stVars>>

InstanceInit == focus \in {"kernel", "store"} /\ Init /\ StInit
InstanceNext ==
  /\ UNCHANGED focus
  /\ \/ focus = "kernel" /\ Next /\ UNCHANGED stVars
     \/ focus = "store" /\ StNext /\ UNCHANGED vars

InstanceSpec == InstanceInit /\ [][InstanceNext]_instanceVars
=============================================================================
