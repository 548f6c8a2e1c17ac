----------------------------- MODULE MCSessions -----------------------------
(***************************************************************************)
(* What must come to an end in a runtime: its own shutdown, and the claim  *)
(* of a permission request when its clients have left.  The two share no   *)
(* state here, so a behaviour moves one of them, chosen at the start, and  *)
(* only that one varies in its initial states.                             *)
(***************************************************************************)
EXTENDS MCChildRuntimes, MCPermissionClaims

VARIABLE focus

sessionVars == <<focus, rtVars, pcVars>>

SessionInit ==
  /\ focus \in {"children", "claims"} /\ RtInit /\ PcInit
  /\ focus = "children" =>
       conns = {} /\ setup = [auto |-> FALSE, files |-> FALSE, timed |-> FALSE]

InChildren(A) == focus = "children" /\ A /\ UNCHANGED <<focus, pcVars>>
InClaims(A) == focus = "claims" /\ A /\ UNCHANGED <<focus, rtVars>>

SessionNext == InChildren(RtNext) \/ InClaims(PcNext)

\* The fairness of the two: RtFairness and PcFairSpec.
SessionFairness ==
  /\ \A c \in Children :
       /\ WF_sessionVars(InChildren(Goroutine(c)))
       /\ WF_sessionVars(InChildren(c \notin ctx /\ Settle(c)))
       /\ \A p \in Phases :
            /\ WF_sessionVars(InChildren(PreparePhase(c, p)))
            /\ WF_sessionVars(InChildren(StartPhase(c, p)))
            /\ WF_sessionVars(InChildren(c \notin ctx /\ EndPhase(c, p)))
       /\ WF_sessionVars(InChildren(FinishAnswer(c)))
       /\ WF_sessionVars(InChildren(CancelContext(c)))
  /\ WF_sessionVars(InClaims(ResolverStep))
  /\ \A c \in Clients : WF_sessionVars(InClaims(signalClientDisconnect(c)))

SessionSpec == SessionInit /\ [][SessionNext]_sessionVars /\ SessionFairness
=============================================================================
