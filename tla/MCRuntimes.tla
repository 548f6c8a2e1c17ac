----------------------------- MODULE MCRuntimes -----------------------------
(***************************************************************************)
(* What a supervisor runs: its child runtimes, the tree budget they are    *)
(* admitted by, the deciders of its permission router, and the claims of a *)
(* runtime's permission requests.  The four share no state, so a behaviour *)
(* moves one of them, chosen at the start, and only that one varies in its *)
(* initial states.                                                         *)
(***************************************************************************)
EXTENDS MCChildRuntimes, AdmissionBudget, DeciderRouting, MCPermissionClaims

VARIABLE focus

benchVars == <<focus, rtVars, abVars, drVars, pcVars>>

\* A session that approves automatically still asks the user when it is told
\* to, and a claim timer need not fire: with both on, every behaviour of a
\* session without them is among the behaviours.
BenchInit ==
  /\ focus \in {"children", "budget", "deciders", "claims"}
  /\ RtInit /\ AbInit /\ DrInit /\ PcInit
  /\ focus # "children" => kind \in TeamKinds
  /\ setup.auto /\ setup.timed
  /\ focus # "claims" => conns = {} /\ setup.files

BenchNext ==
  /\ UNCHANGED focus
  /\ \/ focus = "children" /\ RtNext /\ UNCHANGED <<abVars, drVars, pcVars>>
     \/ focus = "budget" /\ AbNext /\ UNCHANGED <<rtVars, drVars, pcVars>>
     \/ focus = "deciders" /\ DrNext /\ UNCHANGED <<rtVars, abVars, pcVars>>
     \/ focus = "claims" /\ PcNext /\ UNCHANGED <<rtVars, abVars, drVars>>

BenchSpec == BenchInit /\ [][BenchNext]_benchVars
=============================================================================
