---------------------------- MODULE MCMessaging ----------------------------
(***************************************************************************)
(* What a broker does for its runs: two runs that ask and tell each other, *)
(* and a branch that registers at its parent broker.  The two share no     *)
(* variable here, so a behaviour moves one of them, chosen at the start.   *)
(***************************************************************************)
EXTENDS AskStore, ParentLink

VARIABLE focus

brokerVars == <<focus, askVars, plVars>>

PairFrom == [i \in Ids |-> IF i = "ask1" THEN "ann" ELSE "bob"]
PairTo == [i \in Ids |-> IF i = "ask1" THEN "bob" ELSE "ann"]

BrokerInit == focus \in {"asks", "branch"} /\ AskInit /\ PlInit

InAsks(A) == focus = "asks" /\ A /\ UNCHANGED <<focus, plVars>>
InBranch(A) == focus = "branch" /\ A /\ UNCHANGED <<focus, askVars>>

BrokerNext == InAsks(AskNext) \/ InBranch(PlNext)

\* Asks need no fairness; for the branch see ParentLink.
BrokerFairness ==
  /\ WF_brokerVars(InBranch(Sync)) /\ WF_brokerVars(InBranch(HandlerStep))
  /\ \A x \in Relayers : WF_brokerVars(InBranch(RelayStep(x)))

BrokerSpec == BrokerInit /\ [][BrokerNext]_brokerVars /\ BrokerFairness
=============================================================================
