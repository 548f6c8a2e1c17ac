-------------------------- MODULE MCWorkflowKernel --------------------------
(***************************************************************************)
(* Small templates for WorkflowKernel.                                     *)
(*                                                                         *)
(* Chain: a provider node "build" behind a human gate, retried once, whose *)
(* outcome "ok" leads to the auto external node "ci"; "ci" parks behind a  *)
(* bound gate, and its failed result leads back to "build".                *)
(*                                                                         *)
(* Fork: two entry nodes that run side by side; "build" fails the instance *)
(* when its single attempt is spent, "review" waits for two gates.         *)
(***************************************************************************)
EXTENDS WorkflowKernel

ChainNodes == {"build", "ci"}
ChainEntry == <<"build">>
ChainTarget ==
  [n \in ChainNodes |->
     IF n = "build"
       THEN [o \in Outcomes |-> IF o = "ok" THEN "ci" ELSE NoNode]
       ELSE [o \in Outcomes |-> IF o = "ok" THEN NoNode ELSE "build"]]
ChainGates == [n \in ChainNodes |-> IF n = "build" THEN {"human"} ELSE {"checks"}]
ChainResults == [g \in {"checks"} |-> [r \in ExternalResults |->
                  IF r = "failed" THEN "redo" ELSE NoOutcome]]
ChainSuccess == [n \in ChainNodes |-> "ok"]
ChainBudget == [n \in ChainNodes |-> 2]
ChainExhaustion == [n \in ChainNodes |-> "block"]
ChainExhaustOutcome == [n \in ChainNodes |-> "redo"]

ForkNodes == {"build", "review", "ship"}
ForkEntry == <<"build", "review">>
ForkTarget == [n \in ForkNodes |->
                 [o \in Outcomes |-> IF n = "ship" THEN NoNode
                                     ELSE IF o = "ok" THEN "ship" ELSE NoNode]]
ForkGates == [n \in ForkNodes |-> IF n = "review" THEN {"human", "lint"}
                                                   ELSE {}]
ForkResults == << >>
ForkSuccess == [n \in ForkNodes |-> "ok"]
ForkBudget == [n \in ForkNodes |-> 1]
ForkExhaustion == [n \in ForkNodes |-> IF n = "build" THEN "fail" ELSE "outcome"]
ForkExhaustOutcome == [n \in ForkNodes |-> "ok"]
=============================================================================
