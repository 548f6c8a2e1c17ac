------------------------ MODULE WorkflowComposition ------------------------
(***************************************************************************)
(* A workflow that composes a child workflow: composition.go.  One node of *)
(* the parent runs the child instance.  A worker claims and starts it; the *)
(* supervisor that serves the start attaches the child, waits until it is  *)
(* terminal, and resolves the parent with the mapped outcome.  A restarted *)
(* supervisor resumes what it finds awaiting_child.  The supervisors share *)
(* the store, where every command commits at the revision it was read at;  *)
(* a commit that loses is tried again, and losing four in a row is left    *)
(* out.                                                                    *)
(*                                                                         *)
(* One activation, whose mapped outcome ends the parent; an attempt has    *)
(* the number of the lease it was started under.                           *)
(***************************************************************************)
EXTENDS Naturals

CONSTANTS
  Servers,      \* supervisors on the workflow root
  MaxTies,      \* bound on the leases granted
  MaxStops,     \* bound on the stops of supervisors
  MaxExpiries   \* bound on the waits that reach their limit

ASSUME CompositionAssumption ==
  MaxTies \in Nat \ {0} /\ MaxStops \in Nat /\ MaxExpiries \in Nat

VARIABLES
  parent,    \* status of the parent's activation
  tie,       \* its ActiveLease, 0 when nil
  ties,      \* leases granted so far
  lapsed,    \* the lease is past its ExpiresAt
  trial,     \* statuses of the attempts
  attached,  \* the manifest's child reference names the activation
  child,     \* the child: absent, active, or ended with a mapped outcome or not
  work,      \* how far a supervisor is with an attempt
  serving,   \* supervisors that run
  stops,     \* supervisors stopped so far
  expiries   \* waits that reached their limit so far

wcVars == <<parent, tie, ties, lapsed, trial, attached, child, work, serving, stops, expiries>>

Attempts == 1..MaxTies
NoWork == [a \in Attempts |-> "none"]

WcInit ==
  /\ parent = "absent" /\ child = "absent" /\ attached = FALSE
  /\ tie = 0 /\ ties = 0 /\ lapsed = FALSE
  /\ trial = NoWork /\ work = [s \in Servers |-> NoWork]
  /\ serving = Servers /\ stops = 0 /\ expiries = 0

-----------------------------------------------------------------------------
\* ensureChildInstance: the child's ID is derived, so a child that an earlier
\* instantiation left behind is used again.
ensureChildInstance ==
  /\ serving # {} /\ parent = "absent" /\ child = "absent"
  /\ child' = "active"
  /\ UNCHANGED <<parent, tie, ties, lapsed, trial, attached, work, serving, stops, expiries>>

\* instantiateTemplate: the parent follows its children.
ChildExists == child # "absent"
instantiateTemplate ==
  /\ serving # {} /\ parent = "absent" /\ ChildExists
  /\ parent' = "pending"
  /\ UNCHANGED <<tie, ties, lapsed, trial, attached, child, work, serving, stops, expiries>>

\* The child runs on its own, and may be over before the parent is ready: it
\* completes with an outcome of the outcome_map, or it completes otherwise, fails
\* or is canceled.
ChildEnds ==
  /\ child = "active"
  /\ child' \in {"mapped", "unmapped"}
  /\ UNCHANGED <<parent, tie, ties, lapsed, trial, attached, work, serving, stops, expiries>>

ChildTerminal == child \in {"mapped", "unmapped"}

-----------------------------------------------------------------------------
ClaimParent ==
  /\ serving # {} /\ parent \in {"pending", "lease_expired"} /\ ties < MaxTies
  /\ parent' = "leased" /\ ties' = ties + 1 /\ tie' = ties + 1 /\ lapsed' = FALSE
  /\ UNCHANGED <<trial, attached, child, work, serving, stops, expiries>>

\* commandStart: the attempt commits, then the executor is dispatched.
StartParent(s) ==
  /\ s \in serving /\ parent = "leased"
  /\ parent' = "running"
  /\ trial' = [trial EXCEPT ![tie] = "starting"]
  /\ work' = [work EXCEPT ![s][tie] = "attaching"]
  /\ UNCHANGED <<tie, ties, lapsed, attached, child, serving, stops, expiries>>

\* Mutant: the status is not looked at, and a lease only when there is one.
MayAttach_Leaseless(a) == tie \in {0, a}

\* applyChildAttached.
MayAttach(a) == parent \in {"leased", "running"} /\ tie = a
attachChild(s, a) ==
  /\ work[s][a] = "attaching"
  /\ \/ /\ MayAttach(a)
        /\ parent' = "awaiting_child" /\ attached' = TRUE
        /\ work' = [work EXCEPT ![s][a] = "waiting"]
     \/ /\ ~MayAttach(a)
        /\ work' = [work EXCEPT ![s][a] = "none"]
        /\ UNCHANGED <<parent, attached>>
  /\ UNCHANGED <<tie, ties, lapsed, trial, child, serving, stops, expiries>>

\* awaitChildTerminal: a terminal child comes first; a parent that has moved on
\* ends the wait.
awaitChildTerminal(s, a) ==
  /\ work[s][a] = "waiting"
  /\ \/ ChildTerminal /\ work' = [work EXCEPT ![s][a] = "resolving"]
     \/ ~ChildTerminal /\ parent # "awaiting_child" /\ work' = [work EXCEPT ![s][a] = "none"]
  /\ UNCHANGED <<parent, tie, ties, lapsed, trial, attached, child, serving, stops, expiries>>

\* The wait is bounded.
WaitExpires(s, a) ==
  /\ work[s][a] = "waiting" /\ ~ChildTerminal /\ expiries < MaxExpiries
  /\ work' = [work EXCEPT ![s][a] = "none"] /\ expiries' = expiries + 1
  /\ UNCHANGED <<parent, tie, ties, lapsed, trial, attached, child, serving, stops>>

\* resolveChildOutcome and applyChildOutcome.
Resolvable(a) == parent = "awaiting_child" /\ tie = a /\ attached
resolveChildOutcome(s, a) ==
  /\ work[s][a] = "resolving"
  /\ \/ /\ child = "mapped" /\ Resolvable(a)
        /\ parent' = "satisfied" /\ tie' = 0
        /\ work' = [work EXCEPT ![s][a] = "recording"]
     \/ /\ child = "mapped" /\ parent = "satisfied"
        /\ work' = [work EXCEPT ![s][a] = "recording"]
        /\ UNCHANGED <<parent, tie>>
     \/ /\ child = "unmapped" \/ (~Resolvable(a) /\ parent # "satisfied")
        /\ work' = [work EXCEPT ![s][a] = "none"]
        /\ UNCHANGED <<parent, tie>>
  /\ UNCHANGED <<ties, lapsed, trial, attached, child, serving, stops, expiries>>

\* RecordAttemptTerminated, once per attempt.
RecordAttemptTerminated(s, a) ==
  /\ work[s][a] = "recording"
  /\ trial' = [trial EXCEPT ![a] = IF @ = "starting" THEN "succeeded" ELSE @]
  /\ work' = [work EXCEPT ![s][a] = "none"]
  /\ UNCHANGED <<parent, tie, ties, lapsed, attached, child, serving, stops, expiries>>

-----------------------------------------------------------------------------
TieLapses ==
  /\ tie # 0 /\ ~lapsed
  /\ lapsed' = TRUE
  /\ UNCHANGED <<parent, tie, ties, trial, attached, child, work, serving, stops, expiries>>

\* A heartbeat of the worker; a lease that has not been swept yet is renewed.
RenewTie ==
  /\ serving # {} /\ tie # 0 /\ lapsed
  /\ lapsed' = FALSE
  /\ UNCHANGED <<parent, tie, ties, trial, attached, child, work, serving, stops, expiries>>

\* Mutant: what awaits its child is swept too.
StaleTie_Awaiting == tie # 0 /\ lapsed

\* collectExpiredLeaseEvents spares what awaits its child; applyLeaseExpired.
StaleTie == tie # 0 /\ lapsed /\ parent # "awaiting_child"
Swept ==
  /\ parent' = IF StaleTie THEN "lease_expired" ELSE parent
  /\ tie' = IF StaleTie THEN 0 ELSE tie
  /\ trial' = [a \in Attempts |-> IF StaleTie /\ trial[a] = "starting" THEN "timed_out" ELSE trial[a]]

SweepTies ==
  /\ serving # {} /\ StaleTie
  /\ Swept
  /\ UNCHANGED <<ties, lapsed, attached, child, work, serving, stops, expiries>>

\* commandComplete by the worker that holds the lease, before the attach.
CompleteParent ==
  /\ serving # {} /\ parent = "running"
  /\ parent' = "satisfied" /\ tie' = 0
  /\ UNCHANGED <<ties, lapsed, trial, attached, child, work, serving, stops, expiries>>

\* WorkflowCancel ends the parent; the child keeps running.
CancelParent ==
  /\ serving # {} /\ parent \notin {"absent", "satisfied", "canceled"}
  /\ parent' = "canceled" /\ tie' = 0
  /\ UNCHANGED <<ties, lapsed, trial, attached, child, work, serving, stops, expiries>>

-----------------------------------------------------------------------------
StopServer(s) ==
  /\ s \in serving /\ stops < MaxStops
  /\ serving' = serving \ {s} /\ work' = [work EXCEPT ![s] = NoWork] /\ stops' = stops + 1
  /\ UNCHANGED <<parent, tie, ties, lapsed, trial, attached, child, expiries>>

\* The startup barrier: Catalog sweeps and reads the parents, then
\* ResumeAwaitingChildren goes through the ones it read awaiting a child, with
\* the last attempt of each.
LastTry == CHOOSE a \in Attempts : trial[a] # "none" /\ \A b \in Attempts : trial[b] # "none" => b <= a
StartServer(s) ==
  /\ s \notin serving
  /\ serving' = serving \cup {s}
  /\ Swept
  /\ work' = IF parent = "awaiting_child" /\ ~StaleTie
               THEN [work EXCEPT ![s][LastTry] = "resuming"] ELSE work
  /\ UNCHANGED <<ties, lapsed, attached, child, stops, expiries>>

\* resumeAwaitingChild: nobody waits for a child that still runs.
resumeAwaitingChild(s, a) ==
  /\ work[s][a] = "resuming"
  /\ work' = [work EXCEPT ![s][a] = IF ChildTerminal THEN "resolving" ELSE "none"]
  /\ UNCHANGED <<parent, tie, ties, lapsed, trial, attached, child, serving, stops, expiries>>

-----------------------------------------------------------------------------
Executes(s, a) ==
  \/ attachChild(s, a) \/ awaitChildTerminal(s, a) \/ resolveChildOutcome(s, a)
  \/ RecordAttemptTerminated(s, a) \/ resumeAwaitingChild(s, a)

WcNext ==
  \/ ensureChildInstance \/ instantiateTemplate \/ ChildEnds
  \/ ClaimParent \/ TieLapses \/ RenewTie \/ SweepTies \/ CompleteParent \/ CancelParent
  \/ \E s \in Servers : StartParent(s) \/ StopServer(s) \/ StartServer(s)
  \/ \E s \in Servers, a \in Attempts : Executes(s, a) \/ WaitExpires(s, a)

\* Executors run, and a supervisor that stopped is started again.
WcFairness ==
  /\ \A s \in Servers : WF_wcVars(StartServer(s))
  /\ \A s \in Servers, a \in Attempts : WF_wcVars(Executes(s, a))

WcFairSpec == WcInit /\ [][WcNext]_wcVars /\ WcFairness

-----------------------------------------------------------------------------
\* A parent that awaits its child can be resolved from what is durable: the
\* child exists, the reference names the activation, and the last attempt is
\* the one the live lease was granted for and is still open.  No late attach of
\* a swept attempt, and no sweep or restart, takes that away.
AwaitingIsResumable ==
  parent = "awaiting_child" =>
    child # "absent" /\ attached /\ tie # 0 /\ tie = LastTry /\ trial[tie] = "starting"

\* A parent left awaiting a child whose mapped outcome is there when every
\* supervisor is down is resolved by the restart, its lease long expired.
RestartResumes ==
  (parent = "awaiting_child" /\ child = "mapped" /\ serving = {})
    ~> parent \in {"satisfied", "canceled"}
=============================================================================
