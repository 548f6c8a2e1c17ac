------------------------ MODULE WorkflowKernelProofs ------------------------
(***************************************************************************)
(* Proofs about WorkflowKernel, for every template and every bound: first  *)
(* the inductive invariant, then the steps.                                *)
(***************************************************************************)
EXTENDS WorkflowKernel, SequenceTheorems, TLAPS

\* The parts need each other.  OneWorker needs the types: a branch creates a
\* pending activation only where none existed.  The types need LeaseIffHeld: a
\* stale lease belongs to a leased or running activation, so a sweep never gives
\* a status to an activation that does not exist.
IInv == TypeOK /\ LeaseIffHeld /\ OneWorker

\* A freshly instantiated workflow (instantiateTemplate) has pending entry
\* activations, no lease and no attempt: the invariant holds.
LEMMA InitIInv == Init => IInv
<1> SUFFICES ASSUME Init PROVE IInv
  OBVIOUS
<1>1. TypeOK
  BY TemplateAssumption, BoundsAssumption DEF Init, TypeOK, Acts, Existing,
     InstanceTypeOK, ActivationTypeOK, LeaseTypeOK, FactTypeOK, FlightTypeOK,
     WorkflowStatuses, ActivationStatuses, Completions, Heartbeats
<1>2. LeaseIffHeld
  BY DEF Init, LeaseIffHeld
<1>3. OneWorker
  BY DEF Init, OneWorker
<1> QED
  BY <1>1, <1>2, <1>3 DEF IInv

\* An activation that was created has a node of the template and a status.
LEMMA ExistingFacts ==
  ASSUME TypeOK, NEW a \in Existing
  PROVE  /\ a \in Acts /\ a <= created
         /\ node[a] \in Nodes
         /\ status[a] # "absent"
BY BoundsAssumption DEF TypeOK, ActivationTypeOK, Existing, Acts

\* Attempts stand, and no activation leaves the statuses that may have a live
\* attempt: OneWorker is kept.
LEMMA StatusStepKeepsOneWorker ==
  ASSUME OneWorker, UNCHANGED attempts,
         \A b \in Acts : \/ status'[b] = status[b]
                         \/ status'[b] \in PastStart
                         \/ status[b] \notin PastStart
  PROVE  OneWorker'
BY DEF OneWorker

\* A status step on one activation and the branch that follows it.
LEMMA BranchStep ==
  ASSUME TypeOK, NEW a \in Existing, NEW target,
         NEW s \in ActivationStatuses \ {"absent"},
         Branch(a, target), status' = StatusAfter(a, s, target),
         selected' \in [Acts -> Outcomes \cup {NoOutcome}]
  PROVE  /\ ActivationTypeOK'
         /\ created' >= created
         /\ \A b \in Acts :
              status'[b] = IF b = a THEN s
                           ELSE IF target \in Nodes /\ b = created + 1
                                  THEN "pending" ELSE status[b]
<1>1. /\ a \in Acts /\ a <= created /\ status[a] # "absent"
      /\ created \in Nat /\ MaxActivations \in Nat
  BY ExistingFacts, BoundsAssumption DEF TypeOK, ActivationTypeOK
<1>2. CASE target \notin Nodes
  <2>1. UNCHANGED <<created, node, cause>> /\ status' = [status EXCEPT ![a] = s]
    BY <1>2 DEF Branch, StatusAfter
  <2>2. /\ status' \in [Acts -> ActivationStatuses]
        /\ \A b \in Acts : status'[b] = IF b = a THEN s ELSE status[b]
    BY <1>1, <2>1 DEF TypeOK, ActivationTypeOK
  <2>3. \A b \in Acts : status'[b] = "absent" <=> b > created'
    BY <1>1, <2>1, <2>2 DEF TypeOK, ActivationTypeOK
  <2>4. ActivationTypeOK'
    BY <2>1, <2>2, <2>3 DEF TypeOK, ActivationTypeOK, Existing
  <2> QED
    BY <1>1, <1>2, <2>1, <2>2, <2>4
<1>3. CASE target \in Nodes
  <2>1. /\ created < MaxActivations /\ created' = created + 1
        /\ node' = [node EXCEPT ![created + 1] = target]
        /\ cause' = [cause EXCEPT ![created + 1] = a]
        /\ status' = [status EXCEPT ![a] = s, ![created + 1] = "pending"]
    BY <1>3 DEF Branch, StatusAfter
  <2>2. created + 1 \in Acts /\ created + 1 # a
    BY <1>1, <2>1 DEF Acts
  <2>3. node' \in [Acts -> Nodes \cup {NoNode}] /\ \A b \in Existing' : node'[b] \in Nodes
    BY <1>1, <1>3, <2>1, <2>2 DEF TypeOK, ActivationTypeOK, Existing, Acts
  <2>4. cause' \in [Acts -> 0..MaxActivations]
    BY <1>1, <2>1, <2>2 DEF TypeOK, ActivationTypeOK, Acts
  <2>5. /\ status' \in [Acts -> ActivationStatuses]
        /\ \A b \in Acts : status'[b] = IF b = a THEN s ELSE
                             IF b = created + 1 THEN "pending" ELSE status[b]
    BY <1>1, <2>1, <2>2 DEF TypeOK, ActivationTypeOK, ActivationStatuses
  <2>6. \A b \in Acts : status'[b] = "absent" <=> b > created'
    BY <1>1, <2>1, <2>2, <2>5 DEF TypeOK, ActivationTypeOK, Acts
  <2> QED
    BY <1>1, <1>3, <2>1, <2>3, <2>4, <2>5, <2>6 DEF ActivationTypeOK
<1> QED
  BY <1>2, <1>3

\* commandClaim: the granted lease and the status leased appear together.
LEMMA ClaimIInv ==
  ASSUME IInv, NEW a \in Existing, Claim(a)
  PROVE  IInv'
<1>1. a \in Acts /\ status[a] # "absent" /\ a <= created
  BY ExistingFacts DEF IInv
<1>2. TypeOK'
  <2>1. InstanceTypeOK' /\ FactTypeOK' /\ FlightTypeOK'
    BY DEF IInv, TypeOK, InstanceTypeOK, FactTypeOK, FlightTypeOK, Claim,
       flightVars, Existing
  <2>2. ActivationTypeOK'
    BY <1>1 DEF IInv, TypeOK, ActivationTypeOK, Claim, Existing, ActivationStatuses
  <2>3. LeaseTypeOK'
    BY <1>1, BoundsAssumption DEF IInv, TypeOK, LeaseTypeOK, Claim, Grant
  <2> QED
    BY <2>1, <2>2, <2>3 DEF TypeOK
<1>3. LeaseIffHeld'
  BY <1>1 DEF IInv, TypeOK, ActivationTypeOK, LeaseTypeOK, LeaseIffHeld, Claim,
     Grant
<1>4. OneWorker'
  BY <1>1, StatusStepKeepsOneWorker
  DEF IInv, TypeOK, ActivationTypeOK, Claim, claimableActivationStatus, PastStart
<1> QED
  BY <1>2, <1>3, <1>4 DEF IInv

\* A live attempt is appended to attempts of which none is live.
LEMMA StartedAttempt ==
  ASSUME IInv, NEW a \in Existing, status[a] \notin PastStart,
         attempts' = [attempts EXCEPT ![a] = Append(attempts[a], "starting")],
         status' = [status EXCEPT ![a] = "running"],
         UNCHANGED passed
  PROVE  FactTypeOK' /\ OneWorker'
<1>1. a \in Acts
  BY ExistingFacts DEF IInv
<1>2. attempts[a] \in Seq(AttemptStatuses) /\ "starting" \in AttemptStatuses
  BY <1>1 DEF IInv, TypeOK, FactTypeOK, AttemptStatuses
<1> DEFINE longer == Append(attempts[a], "starting")
<1>3. /\ longer \in Seq(AttemptStatuses)
      /\ Len(longer) = Len(attempts[a]) + 1
      /\ DOMAIN longer = 1..Len(longer)
      /\ \A k \in 1..Len(attempts[a]) : longer[k] = attempts[a][k]
  BY <1>2, AppendProperties
<1>4. attempts'[a] = longer /\ \A b \in Acts \ {a} : attempts'[b] = attempts[b]
  BY <1>1 DEF IInv, TypeOK, FactTypeOK
<1>5. FactTypeOK'
  <2> HIDE DEF longer
  <2> QED
    BY <1>1, <1>3, <1>4 DEF IInv, TypeOK, FactTypeOK
<1>6. \A k \in 1..Len(attempts[a]) : ~LiveAttempt(attempts[a][k])
  BY <1>1, <1>2 DEF IInv, OneWorker
<1>7. OneWorker'
  <2> SUFFICES ASSUME NEW b \in Acts, NEW k \in DOMAIN attempts'[b],
                      LiveAttempt(attempts'[b][k])
               PROVE  k = Len(attempts'[b]) /\ status'[b] \in PastStart
    BY DEF OneWorker
  <2>1. CASE b = a
    <3>1. k \in 1..(Len(attempts[a]) + 1) /\ ~(k \in 1..Len(attempts[a]))
      <4> HIDE DEF longer
      <4> QED
        BY <1>3, <1>4, <1>6, <2>1
    <3>2. Len(attempts[a]) \in Nat
      BY <1>2, LenProperties
    <3>3. status'[a] = "running"
      BY <1>1 DEF IInv, TypeOK, ActivationTypeOK
    <3> HIDE DEF longer
    <3> QED
      BY <1>3, <1>4, <2>1, <3>1, <3>2, <3>3 DEF PastStart
  <2>2. CASE b # a
    BY <1>1, <1>4, <2>2 DEF IInv, TypeOK, ActivationTypeOK, OneWorker
  <2> QED
    BY <2>1, <2>2
<1> QED
  BY <1>5, <1>7

\* commandStart: a leased activation has no live attempt, so the new one is the
\* only one.
LEMMA StartIInv ==
  ASSUME IInv, NEW a \in Existing, Start(a)
  PROVE  IInv'
<1>1. a \in Acts /\ status[a] # "absent" /\ a <= created
  BY ExistingFacts DEF IInv
<1>2. FactTypeOK' /\ OneWorker'
  BY StartedAttempt DEF Start, PastStart
<1>3. TypeOK'
  <2>1. InstanceTypeOK' /\ LeaseTypeOK' /\ FlightTypeOK'
    BY DEF IInv, TypeOK, InstanceTypeOK, LeaseTypeOK, FlightTypeOK, Start,
       leaseVars, flightVars, Existing
  <2>2. ActivationTypeOK'
    BY <1>1 DEF IInv, TypeOK, ActivationTypeOK, Start, Existing, ActivationStatuses
  <2> QED
    BY <1>2, <2>1, <2>2 DEF TypeOK
<1>4. LeaseIffHeld'
  BY <1>1 DEF IInv, TypeOK, ActivationTypeOK, LeaseIffHeld, Start, leaseVars
<1> QED
  BY <1>2, <1>3, <1>4 DEF IInv

\* BeginDispatch: leased and started in one batch, from a claimable status.
LEMMA BeginDispatchIInv ==
  ASSUME IInv, NEW a \in Existing, BeginDispatch(a)
  PROVE  IInv'
<1>1. a \in Acts /\ status[a] # "absent" /\ a <= created
  BY ExistingFacts DEF IInv
<1>2. FactTypeOK' /\ OneWorker'
  BY StartedAttempt DEF BeginDispatch, claimableActivationStatus, PastStart
<1>3. TypeOK'
  <2>1. InstanceTypeOK' /\ FlightTypeOK'
    BY DEF IInv, TypeOK, InstanceTypeOK, FlightTypeOK, BeginDispatch,
       flightVars, Existing
  <2>2. ActivationTypeOK'
    BY <1>1 DEF IInv, TypeOK, ActivationTypeOK, BeginDispatch, Existing,
       ActivationStatuses
  <2>3. LeaseTypeOK'
    BY <1>1, BoundsAssumption DEF IInv, TypeOK, LeaseTypeOK, BeginDispatch, Grant
  <2> QED
    BY <1>2, <2>1, <2>2, <2>3 DEF TypeOK
<1>4. LeaseIffHeld'
  BY <1>1 DEF IInv, TypeOK, ActivationTypeOK, LeaseTypeOK, LeaseIffHeld,
     BeginDispatch, Grant
<1> QED
  BY <1>2, <1>3, <1>4 DEF IInv

\* ParkExternal: a claimable activation without a lease parks.
LEMMA ParkExternalIInv ==
  ASSUME IInv, NEW a \in Existing, ParkExternal(a)
  PROVE  IInv'
<1>1. a \in Acts /\ status[a] # "absent" /\ a <= created /\ node[a] \in Nodes
  BY ExistingFacts DEF IInv
<1>2. TypeOK'
  <2>1. InstanceTypeOK' /\ LeaseTypeOK' /\ FactTypeOK' /\ FlightTypeOK'
    BY DEF IInv, TypeOK, InstanceTypeOK, LeaseTypeOK, FactTypeOK, FlightTypeOK,
       ParkExternal, leaseVars, flightVars, Existing
  <2>2. ActivationTypeOK'
    BY <1>1, TemplateAssumption DEF IInv, TypeOK, ActivationTypeOK, ParkExternal,
       Existing, ActivationStatuses
  <2> QED
    BY <2>1, <2>2 DEF TypeOK
<1>3. LeaseIffHeld'
  BY <1>1 DEF IInv, TypeOK, ActivationTypeOK, LeaseIffHeld, ParkExternal,
     leaseVars
<1>4. OneWorker'
  BY <1>1, StatusStepKeepsOneWorker
  DEF IInv, TypeOK, ActivationTypeOK, ParkExternal, PastStart
<1> QED
  BY <1>2, <1>3, <1>4 DEF IInv

\* The commands that are only validated or dropped leave the instance alone.
LEMMA InstanceUntouched ==
  ASSUME IInv, FlightTypeOK',
         UNCHANGED <<wfStatus, wfOutcome, actVars, leaseVars, attempts, passed>>
  PROVE  IInv'
<1>1. TypeOK'
  BY DEF IInv, TypeOK, InstanceTypeOK, ActivationTypeOK, LeaseTypeOK,
     FactTypeOK, actVars, leaseVars, Existing
<1>2. LeaseIffHeld' /\ OneWorker'
  BY DEF IInv, LeaseIffHeld, OneWorker, actVars, leaseVars
<1> QED
  BY <1>1, <1>2 DEF IInv

\* commandComplete up to its commit only remembers the lease it saw.
LEMMA BeginCompleteIInv ==
  ASSUME IInv, NEW a \in Existing, NEW k \in DOMAIN attempts[a],
         NEW o \in Outcomes, BeginComplete(a, k, o)
  PROVE  IInv'
<1>1. a \in Acts
  BY ExistingFacts DEF IInv
<1>2. k \in Nat
  BY <1>1, LenProperties DEF IInv, TypeOK, FactTypeOK
<1>3. lease[a] \in 1..MaxClaims
  BY <1>1, BoundsAssumption DEF IInv, TypeOK, LeaseTypeOK, BeginComplete
<1>4. FlightTypeOK'
  BY <1>1, <1>2, <1>3 DEF IInv, TypeOK, FlightTypeOK, BeginComplete, Completions,
     actVars, Existing
<1> QED
  BY <1>4, InstanceUntouched DEF BeginComplete

\* commandHeartbeat up to its commit only remembers the lease and the expiry.
LEMMA BeginHeartbeatIInv ==
  ASSUME IInv, NEW a \in Existing, BeginHeartbeat(a)
  PROVE  IInv'
<1>1. a \in Acts
  BY ExistingFacts DEF IInv
<1>2. lease[a] \in 1..MaxClaims /\ TTL \in -1..TTL
  BY <1>1, BoundsAssumption DEF IInv, TypeOK, LeaseTypeOK, BeginHeartbeat
<1>3. FlightTypeOK'
  BY <1>1, <1>2 DEF IInv, TypeOK, FlightTypeOK, BeginHeartbeat, Heartbeats,
     actVars, Existing
<1> QED
  BY <1>3, InstanceUntouched DEF BeginHeartbeat

\* commandUnblock up to its commit only remembers the episode key.
LEMMA BeginUnblockIInv ==
  ASSUME IInv, NEW a \in Existing, BeginUnblock(a)
  PROVE  IInv'
<1>1. FlightTypeOK'
  BY DEF IInv, TypeOK, FlightTypeOK, BeginUnblock, actVars, Existing
<1> QED
  BY <1>1, InstanceUntouched DEF BeginUnblock

\* A command that never commits is forgotten.
LEMMA AbandonIInv ==
  ASSUME IInv,
         \/ \E c \in completing : AbandonComplete(c)
         \/ \E h \in renewing : AbandonHeartbeat(h)
         \/ \E u \in unblocking : AbandonUnblock(u)
  PROVE  IInv'
<1>1. FlightTypeOK'
  BY DEF IInv, TypeOK, FlightTypeOK, AbandonComplete, AbandonHeartbeat,
     AbandonUnblock, actVars, Existing
<1> QED
  BY <1>1, InstanceUntouched DEF AbandonComplete, AbandonHeartbeat, AbandonUnblock

\* A released lease keeps LeaseIffHeld when the new status is not a held one.
LEMMA ReleaseStep ==
  ASSUME TypeOK, LeaseIffHeld, NEW a \in Acts, Release(a),
         status'[a] \notin {"leased", "running"},
         \A b \in Acts \ {a} :
            \/ status'[b] = status[b]
            \/ {status[b], status'[b]} \cap {"leased", "running"} = {}
  PROVE  LeaseTypeOK' /\ LeaseIffHeld'
<1>1. LeaseTypeOK'
  BY BoundsAssumption DEF TypeOK, LeaseTypeOK, Release
<1>2. LeaseIffHeld'
  BY DEF TypeOK, LeaseTypeOK, Release, LeaseIffHeld
<1> QED
  BY <1>1, <1>2

\* applyCompleted: the activation parks or is satisfied, in either case without
\* a lease, and the pending successor is a fresh activation.
LEMMA CommitCompleteIInv ==
  ASSUME IInv, NEW c \in completing, CommitComplete(c)
  PROVE  IInv'
<1> DEFINE a == c.act
           o == c.outcome
           gated == unsatisfiedRequiredGates(a) # {}
           target == IF gated THEN NoNode ELSE Target[node[a]][o]
           s == IF gated THEN "awaiting_gate" ELSE "satisfied"
<1>1. a \in Acts /\ o \in Outcomes /\ status[a] # "absent"
  BY DEF IInv, TypeOK, FlightTypeOK, Completions, CommitComplete,
     CompletableStatuses
<1>2. a \in Existing
  BY <1>1, BoundsAssumption DEF IInv, TypeOK, ActivationTypeOK, Existing, Acts
<1>3. /\ Branch(a, target) /\ status' = StatusAfter(a, s, target)
      /\ selected' = [selected EXCEPT ![a] = o]
      /\ Release(a)
      /\ wfStatus' = IF gated \/ target \in Nodes THEN wfStatus ELSE "completed"
      /\ wfOutcome' = IF gated \/ target \in Nodes THEN wfOutcome ELSE o
      /\ UNCHANGED <<attempts, passed, renewing, unblocking>>
      /\ completing' = completing \ {c}
  BY DEF CommitComplete, SatisfyActivation
<1>4. s \in ActivationStatuses \ {"absent"} /\ s \in PastStart
      /\ s \notin {"leased", "running"}
  BY DEF ActivationStatuses, PastStart
<1>5. selected' \in [Acts -> Outcomes \cup {NoOutcome}]
  BY <1>1, <1>3 DEF IInv, TypeOK, ActivationTypeOK
<1> HIDE DEF target, s
<1>6. /\ ActivationTypeOK'
      /\ created' >= created
      /\ \A b \in Acts : status'[b] = IF b = a THEN s
                                      ELSE IF target \in Nodes /\ b = created + 1
                                             THEN "pending" ELSE status[b]
  BY <1>2, <1>3, <1>4, <1>5, BranchStep DEF IInv
<1>7. \A b \in Acts : b = created + 1 => status[b] = "absent"
  BY DEF IInv, TypeOK, ActivationTypeOK, Acts
<1>8. LeaseTypeOK' /\ LeaseIffHeld'
  BY <1>1, <1>3, <1>4, <1>6, <1>7, ReleaseStep DEF IInv
<1>9. TypeOK'
  <2>1. InstanceTypeOK'
    BY <1>1, <1>3 DEF IInv, TypeOK, InstanceTypeOK, WorkflowStatuses
  <2>2. FactTypeOK'
    BY <1>3 DEF IInv, TypeOK, FactTypeOK
  <2>3. FlightTypeOK'
    BY <1>3, <1>6 DEF IInv, TypeOK, ActivationTypeOK, FlightTypeOK, Existing
  <2> QED
    BY <1>6, <1>8, <2>1, <2>2, <2>3 DEF TypeOK
<1>10. OneWorker'
  BY <1>3, <1>4, <1>6, <1>7, StatusStepKeepsOneWorker DEF IInv, PastStart
<1> QED
  BY <1>8, <1>9, <1>10 DEF IInv

\* gateTransitionPayload yields an outcome of the template or none.
LEMMA GateRouteType ==
  ASSUME TypeOK, NEW a \in Existing, NEW g \in Gates[node[a]],
         NEW d \in Operations, NEW o \in Outcomes \cup {NoOutcome}
  PROVE  GateRoute(a, g, d, o) \in Outcomes \cup {NoOutcome}
<1>1. /\ node[a] \in Nodes /\ selected[a] \in Outcomes \cup {NoOutcome}
      /\ SuccessOutcome[node[a]] \in Outcomes
  BY ExistingFacts, TemplateAssumption DEF TypeOK, ActivationTypeOK
<1> QED
  BY <1>1 DEF GateRoute

\* commandGate and commandSkip: a parked activation holds no lease, and wherever
\* the decision moves it, it holds none afterwards.
LEMMA GateDecisionIInv ==
  ASSUME IInv, NEW a \in Existing, NEW g \in Gates[node[a]],
         NEW d \in Operations, NEW o \in Outcomes \cup {NoOutcome},
         GateDecision(a, g, d, o)
  PROVE  IInv'
<1> DEFINE target == GateTarget(a, g, d, o)
<1>1. a \in Acts /\ a <= created /\ node[a] \in Nodes /\ status[a] = "awaiting_gate"
  BY ExistingFacts DEF IInv, GateDecision
<1>2. /\ Branch(a, target)
      /\ \/ SettleGate(a, g, d, o, target)
         \/ DropGate(a, target)
      /\ UNCHANGED <<leaseVars, attempts, flightVars>>
  BY DEF GateDecision
<1> HIDE DEF target
<1>3. PICK s \in PastStart \ {"running"} : status' = StatusAfter(a, s, target)
  <2>1. CASE SettleGate(a, g, d, o, target)
    <3>1. GateStatus(a, g, d, target) \in {"satisfied", "awaiting_gate", "rejected"}
      BY DEF GateStatus, Operations, ExternalResults, Passing
    <3> QED
      BY <2>1, <3>1 DEF SettleGate, PastStart
  <2>2. CASE DropGate(a, target)
    BY <1>1, <2>2 DEF DropGate, PastStart
  <2> QED
    BY <1>2, <2>1, <2>2
<1>4. /\ selected' \in [Acts -> Outcomes \cup {NoOutcome}]
      /\ passed' \in [Acts -> SUBSET GateIds]
      /\ InstanceTypeOK'
  <2>1. CASE SettleGate(a, g, d, o, target)
    <3>1. selected' \in [Acts -> Outcomes \cup {NoOutcome}]
      BY <1>1, <2>1, GateRouteType DEF IInv, TypeOK, ActivationTypeOK, SettleGate
    <3>2. g \in GateIds
      BY <1>1 DEF GateIds
    <3>3. passed' \in [Acts -> SUBSET GateIds]
      BY <1>1, <2>1, <3>2 DEF IInv, TypeOK, FactTypeOK, SettleGate
    <3>4. InstanceTypeOK'
      BY <1>1, <2>1, <3>1 DEF IInv, TypeOK, InstanceTypeOK, SettleGate,
         WorkflowStatuses
    <3> QED
      BY <3>1, <3>3, <3>4
  <2>2. CASE DropGate(a, target)
    BY <2>2 DEF IInv, TypeOK, ActivationTypeOK, FactTypeOK, InstanceTypeOK, DropGate
  <2> QED
    BY <1>2, <2>1, <2>2
<1>5. s \in ActivationStatuses \ {"absent"}
  BY DEF ActivationStatuses, PastStart
<1>6. /\ ActivationTypeOK'
      /\ created' >= created
      /\ \A b \in Acts : status'[b] = IF b = a THEN s
                                      ELSE IF target \in Nodes /\ b = created + 1
                                             THEN "pending" ELSE status[b]
  BY <1>2, <1>3, <1>4, <1>5, BranchStep DEF IInv
<1>7. \A b \in Acts : b = created + 1 => status[b] = "absent"
  BY DEF IInv, TypeOK, ActivationTypeOK, Acts
<1>8. TypeOK'
  <2>1. LeaseTypeOK' /\ FactTypeOK'
    BY <1>2, <1>4 DEF IInv, TypeOK, LeaseTypeOK, FactTypeOK, leaseVars
  <2>2. FlightTypeOK'
    BY <1>2, <1>6 DEF IInv, TypeOK, ActivationTypeOK, FlightTypeOK, Existing,
       flightVars
  <2> QED
    BY <1>4, <1>6, <2>1, <2>2 DEF TypeOK
<1>9. LeaseIffHeld'
  BY <1>1, <1>2, <1>6, <1>7 DEF IInv, LeaseIffHeld, leaseVars, PastStart
<1>10. OneWorker'
  BY <1>2, <1>6, <1>7, StatusStepKeepsOneWorker DEF IInv, PastStart
<1> QED
  BY <1>8, <1>9, <1>10 DEF IInv

\* applyAttemptTerminated: a failure ends the only live attempt before it re-arms
\* or blocks the activation and releases the lease; a late report of an attempt
\* that already ended changes nothing.
LEMMA TerminationIInv ==
  ASSUME IInv, NEW a \in Existing, NEW k \in DOMAIN attempts[a],
         NEW r \in RunResults, RecordAttemptTermination(a, k, r)
  PROVE  IInv'
<1>1. /\ a \in Acts /\ a <= created /\ node[a] \in Nodes
      /\ status[a] # "absent"
  BY ExistingFacts DEF IInv
<1>2. UNCHANGED <<wfOutcome, created, node, cause, passed, flightVars>>
  BY DEF RecordAttemptTermination
<1>3. FlightTypeOK'
  BY <1>2 DEF IInv, TypeOK, FlightTypeOK, flightVars, Existing
<1>4. CASE UNCHANGED <<wfStatus, status, selected, leaseVars, attempts>>
  BY <1>2, <1>3, <1>4, InstanceUntouched DEF actVars
<1>5. CASE LiveAttempt(attempts[a][k]) /\ RecordTermination(a, k, r)
  <2>1. /\ attempts[a] \in Seq(AttemptStatuses) /\ k \in 1..Len(attempts[a])
        /\ r \in AttemptStatuses /\ ~LiveAttempt(r)
    BY <1>1, LenProperties
    DEF IInv, TypeOK, FactTypeOK, RunResults, AttemptStatuses, LiveAttempt
  <2> DEFINE t == [attempts[a] EXCEPT ![k] = r]
  <2>2. /\ t \in Seq(AttemptStatuses) /\ Len(t) = Len(attempts[a])
        /\ \A j \in 1..Len(t) : t[j] = IF j = k THEN r ELSE attempts[a][j]
    BY <2>1, ExceptSeq
  <2>3. attempts'[a] = t /\ \A b \in Acts \ {a} : attempts'[b] = attempts[b]
    BY <1>1, <1>5 DEF IInv, TypeOK, FactTypeOK, RecordTermination
  <2>4. attempts' \in [Acts -> Seq(AttemptStatuses)]
    <3>1. attempts' = [attempts EXCEPT ![a] = t]
      BY <1>5 DEF RecordTermination
    <3> HIDE DEF t
    <3> QED
      BY <1>1, <2>2, <3>1 DEF IInv, TypeOK, FactTypeOK
  <2>5. k = Len(attempts[a]) /\ status[a] \in PastStart
    BY <1>1, <1>5 DEF IInv, OneWorker
  <2>6. DOMAIN t = 1..Len(t) /\ \A j \in DOMAIN t : ~LiveAttempt(t[j])
    <3>1. \A j \in 1..Len(attempts[a]) : j # k => ~LiveAttempt(attempts[a][j])
      BY <1>1, <2>1, <2>5, LenProperties DEF IInv, OneWorker
    <3>2. DOMAIN t = 1..Len(t)
      BY <2>2, LenProperties
    <3> HIDE DEF t
    <3> QED
      BY <2>1, <2>2, <3>1, <3>2
  <2> HIDE DEF t
  <2>7. FactTypeOK'
    BY <1>2, <2>4 DEF IInv, TypeOK, FactTypeOK
  <2>8. ASSUME \A b \in Acts \ {a} : status'[b] = status[b]
        PROVE  OneWorker'
    BY <2>3, <2>6, <2>8 DEF IInv, OneWorker
  <2>9. CASE UNCHANGED <<wfStatus, status, selected, leaseVars>>
    <3>1. TypeOK'
      BY <1>2, <1>3, <2>7, <2>9 DEF IInv, TypeOK, InstanceTypeOK,
         ActivationTypeOK, LeaseTypeOK, leaseVars, Existing
    <3>2. LeaseIffHeld' /\ OneWorker'
      BY <2>8, <2>9 DEF IInv, LeaseIffHeld, leaseVars
    <3> QED
      BY <3>1, <3>2 DEF IInv
  <2>10. CASE /\ status' = [status EXCEPT ![a] = StatusAfterFailure(a, r)]
              /\ wfStatus' = WfStatusAfterFailure(a, StatusAfterFailure(a, r))
              /\ selected' \in {selected,
                   [selected EXCEPT ![a] = ExhaustOutcome[node[a]]]}
              /\ Release(a)
    <3>1. StatusAfterFailure(a, r) \in {"blocked", "ready", "attempt_failed"}
      BY <1>1, TemplateAssumption DEF StatusAfterFailure
    <3>2. InstanceTypeOK'
      BY <1>2, <2>10 DEF IInv, TypeOK, InstanceTypeOK, WfStatusAfterFailure,
         WorkflowStatuses
    <3>3. /\ \A b \in Acts \ {a} : status'[b] = status[b]
          /\ status'[a] = StatusAfterFailure(a, r)
          /\ status' \in [Acts -> ActivationStatuses]
      BY <1>1, <2>10, <3>1 DEF IInv, TypeOK, ActivationTypeOK, ActivationStatuses
    <3>4. selected' \in [Acts -> Outcomes \cup {NoOutcome}]
      BY <1>1, <2>10, TemplateAssumption DEF IInv, TypeOK, ActivationTypeOK
    <3>5. ActivationTypeOK'
      BY <1>1, <1>2, <3>1, <3>3, <3>4
      DEF IInv, TypeOK, ActivationTypeOK, Existing
    <3>6. LeaseTypeOK' /\ LeaseIffHeld'
      BY <1>1, <2>10, <3>1, <3>3, ReleaseStep DEF IInv
    <3> QED
      BY <1>3, <2>7, <2>8, <3>2, <3>3, <3>5, <3>6 DEF IInv, TypeOK
  <2> QED
    BY <1>5, <2>9, <2>10 DEF RecordTermination
<1> QED
  BY <1>4, <1>5 DEF RecordAttemptTermination

\* applyHeartbeat: only the expiry of the lease moves.
LEMMA CommitHeartbeatIInv ==
  ASSUME IInv, NEW h \in renewing, CommitHeartbeat(h)
  PROVE  IInv'
<1>1. h.act \in Acts /\ h.ttl \in -1..TTL
  BY DEF IInv, TypeOK, FlightTypeOK, Heartbeats
<1>2. TypeOK'
  <2>1. InstanceTypeOK' /\ ActivationTypeOK' /\ FactTypeOK'
    BY DEF IInv, TypeOK, InstanceTypeOK, ActivationTypeOK, FactTypeOK,
       CommitHeartbeat, actVars, Existing
  <2>2. LeaseTypeOK'
    BY <1>1 DEF IInv, TypeOK, LeaseTypeOK, CommitHeartbeat
  <2>3. FlightTypeOK'
    BY DEF IInv, TypeOK, FlightTypeOK, CommitHeartbeat, actVars, Existing
  <2> QED
    BY <2>1, <2>2, <2>3 DEF TypeOK
<1>3. LeaseIffHeld' /\ OneWorker'
  BY DEF IInv, LeaseIffHeld, OneWorker, CommitHeartbeat, actVars
<1> QED
  BY <1>2, <1>3 DEF IInv

\* The passage of time moves expiries only.
LEMMA TickIInv ==
  ASSUME IInv, Tick
  PROVE  IInv'
<1>1. \A t \in -1..TTL : Down(t) \in -1..TTL
  BY BoundsAssumption DEF Down
<1>2. TypeOK'
  <2>1. InstanceTypeOK' /\ ActivationTypeOK' /\ FactTypeOK'
    BY DEF IInv, TypeOK, InstanceTypeOK, ActivationTypeOK, FactTypeOK,
       Tick, actVars, Existing
  <2>2. LeaseTypeOK'
    BY <1>1 DEF IInv, TypeOK, LeaseTypeOK, Tick
  <2>3. FlightTypeOK'
    <3>1. \A h \in Heartbeats : [h EXCEPT !.ttl = Down(h.ttl)] \in Heartbeats
      BY <1>1 DEF Heartbeats
    <3>2. renewing' \subseteq Heartbeats
      BY <3>1 DEF IInv, TypeOK, FlightTypeOK, Tick
    <3> QED
      BY <3>2 DEF IInv, TypeOK, FlightTypeOK, Tick, actVars, Existing
  <2> QED
    BY <2>1, <2>2, <2>3 DEF TypeOK
<1>3. LeaseIffHeld' /\ OneWorker'
  BY DEF IInv, LeaseIffHeld, OneWorker, Tick, actVars
<1> QED
  BY <1>2, <1>3 DEF IInv

\* applyLeaseExpired: every stale lease is dropped together with the live attempt
\* of its holder, so a reclaimed activation has no live attempt.
LEMMA SweepIInv ==
  ASSUME IInv, SweepStaleLeases
  PROVE  IInv'
<1>1. \A a \in StaleLeases : a \in Acts /\ status[a] \in {"leased", "running"}
  BY DEF StaleLeases, IInv, LeaseIffHeld
<1>2. \A a \in Acts :
        /\ status'[a] = IF a \in StaleLeases THEN "lease_expired" ELSE status[a]
        /\ lease'[a] = IF a \in StaleLeases THEN 0 ELSE lease[a]
        /\ expiry'[a] = IF a \in StaleLeases THEN 0 ELSE expiry[a]
        /\ attempts'[a] =
             IF a \in StaleLeases
               THEN [k \in DOMAIN attempts[a] |-> ExpiredAttempt(attempts[a][k])]
               ELSE attempts[a]
  BY DEF SweepStaleLeases
<1>3. ASSUME NEW a \in Acts
      PROVE  /\ attempts'[a] \in Seq(AttemptStatuses)
             /\ a \in StaleLeases =>
                  \A k \in DOMAIN attempts'[a] : ~LiveAttempt(attempts'[a][k])
  <2>1. attempts[a] \in Seq(AttemptStatuses)
    BY DEF IInv, TypeOK, FactTypeOK
  <2>2. DOMAIN attempts[a] = 1..Len(attempts[a]) /\ Len(attempts[a]) \in Nat
    BY <2>1, LenProperties
  <2>3. \A k \in DOMAIN attempts[a] :
          /\ ExpiredAttempt(attempts[a][k]) \in AttemptStatuses
          /\ ~LiveAttempt(ExpiredAttempt(attempts[a][k]))
    BY <2>1, <2>2, ElementOfSeq DEF ExpiredAttempt, LiveAttempt, AttemptStatuses
  <2>4. [k \in 1..Len(attempts[a]) |-> ExpiredAttempt(attempts[a][k])]
           \in Seq(AttemptStatuses)
    BY <2>2, <2>3, IsASeq
  <2> QED
    BY <1>2, <2>1, <2>2, <2>3, <2>4
<1>4. TypeOK'
  <2>1. InstanceTypeOK'
    BY DEF IInv, TypeOK, InstanceTypeOK, SweepStaleLeases
  <2>2. ActivationTypeOK'
    <3>1. status' \in [Acts -> ActivationStatuses]
      BY DEF IInv, TypeOK, ActivationTypeOK, SweepStaleLeases, ActivationStatuses
    <3> QED
      BY <1>1, <1>2, <3>1 DEF IInv, TypeOK, ActivationTypeOK, SweepStaleLeases,
         Existing
  <2>3. LeaseTypeOK'
    BY BoundsAssumption DEF IInv, TypeOK, LeaseTypeOK, SweepStaleLeases
  <2>4. FactTypeOK'
    <3>1. DOMAIN attempts' = Acts
          /\ attempts' = [b \in Acts |-> attempts'[b]]
      BY DEF SweepStaleLeases
    <3>2. attempts' \in [Acts -> Seq(AttemptStatuses)]
      BY <1>3, <3>1
    <3> QED
      BY <3>2 DEF IInv, TypeOK, FactTypeOK, SweepStaleLeases
  <2>5. FlightTypeOK'
    BY DEF IInv, TypeOK, FlightTypeOK, SweepStaleLeases, flightVars, Existing
  <2> QED
    BY <2>1, <2>2, <2>3, <2>4, <2>5 DEF TypeOK
<1>5. LeaseIffHeld'
  BY <1>2 DEF IInv, LeaseIffHeld
<1>6. OneWorker'
  BY <1>2, <1>3 DEF IInv, OneWorker
<1> QED
  BY <1>4, <1>5, <1>6 DEF IInv

\* applyUnblocked: a blocked activation has no live attempt and no lease, and is
\* ready without them.
LEMMA CommitUnblockIInv ==
  ASSUME IInv, NEW u \in unblocking, CommitUnblock(u)
  PROVE  IInv'
<1>1. u.act \in Existing
  BY DEF IInv, TypeOK, FlightTypeOK
<1>2. u.act \in Acts /\ u.act <= created /\ status[u.act] = "blocked"
  BY <1>1, ExistingFacts DEF IInv, CommitUnblock
<1>3. TypeOK'
  <2>1. InstanceTypeOK' /\ LeaseTypeOK' /\ FactTypeOK'
    BY DEF IInv, TypeOK, InstanceTypeOK, LeaseTypeOK, FactTypeOK, CommitUnblock,
       leaseVars, WorkflowStatuses
  <2>2. ActivationTypeOK'
    BY <1>2 DEF IInv, TypeOK, ActivationTypeOK, CommitUnblock, Existing,
       ActivationStatuses
  <2>3. FlightTypeOK'
    BY DEF IInv, TypeOK, FlightTypeOK, CommitUnblock, Existing
  <2> QED
    BY <2>1, <2>2, <2>3 DEF TypeOK
<1>4. LeaseIffHeld'
  BY <1>2 DEF IInv, TypeOK, ActivationTypeOK, LeaseIffHeld, CommitUnblock,
     leaseVars
<1>5. OneWorker'
  BY <1>2, StatusStepKeepsOneWorker
  DEF IInv, TypeOK, ActivationTypeOK, CommitUnblock, PastStart
<1> QED
  BY <1>3, <1>4, <1>5 DEF IInv

\* applyCanceled: every lease is released; what stays live is an attempt of a
\* canceled activation, which nothing claims again.
LEMMA WorkflowCancelIInv ==
  ASSUME IInv, WorkflowCancel
  PROVE  IInv'
<1>1. \A a \in Acts :
        /\ status'[a] = IF a <= created /\ status[a] \notin CancelKeeps
                          THEN "canceled" ELSE status[a]
        /\ lease'[a] = 0
  BY DEF WorkflowCancel
<1>2. \A a \in Acts : status'[a] \in {"absent"} \cup CancelKeeps
  BY <1>1 DEF IInv, TypeOK, ActivationTypeOK, CancelKeeps, Acts
<1>3. TypeOK'
  <2>1. InstanceTypeOK' /\ FactTypeOK' /\ FlightTypeOK'
    BY DEF IInv, TypeOK, InstanceTypeOK, FactTypeOK, FlightTypeOK,
       WorkflowCancel, WorkflowStatuses, flightVars, Existing
  <2>2. LeaseTypeOK'
    BY BoundsAssumption DEF IInv, TypeOK, LeaseTypeOK, WorkflowCancel
  <2>3. status' \in [Acts -> ActivationStatuses]
    BY DEF IInv, TypeOK, ActivationTypeOK, WorkflowCancel, ActivationStatuses
  <2>4. ActivationTypeOK'
    BY <1>1, <2>3 DEF IInv, TypeOK, ActivationTypeOK, WorkflowCancel, Existing,
       Acts
  <2> QED
    BY <2>1, <2>2, <2>4 DEF TypeOK
<1>4. LeaseIffHeld'
  BY <1>1, <1>2 DEF LeaseIffHeld, CancelKeeps
<1>5. OneWorker'
  BY <1>1, StatusStepKeepsOneWorker DEF IInv, WorkflowCancel, PastStart
<1> QED
  BY <1>3, <1>4, <1>5 DEF IInv

\* Every step keeps the inductive invariant.
LEMMA NextIInv == IInv /\ [Next]_vars => IInv'
<1> SUFFICES ASSUME IInv, [Next]_vars PROVE IInv'
  OBVIOUS
<1>1. CASE UNCHANGED vars
  <2>1. FlightTypeOK'
    BY <1>1 DEF IInv, TypeOK, FlightTypeOK, vars, actVars, flightVars, Existing
  <2> QED
    BY <1>1, <2>1, InstanceUntouched DEF vars, actVars, leaseVars
<1>2. ASSUME NEW a \in Existing, CommandOn(a) PROVE IInv'
  BY <1>2, ClaimIInv, StartIInv, BeginDispatchIInv, ParkExternalIInv,
     BeginCompleteIInv, TerminationIInv, BeginHeartbeatIInv, BeginUnblockIInv,
     GateDecisionIInv DEF CommandOn
<1>3. ASSUME NEW c \in completing, CommitComplete(c) \/ AbandonComplete(c)
      PROVE IInv'
  BY <1>3, CommitCompleteIInv, AbandonIInv
<1>4. ASSUME NEW h \in renewing, CommitHeartbeat(h) \/ AbandonHeartbeat(h)
      PROVE IInv'
  BY <1>4, CommitHeartbeatIInv, AbandonIInv
<1>5. ASSUME NEW u \in unblocking, CommitUnblock(u) \/ AbandonUnblock(u)
      PROVE IInv'
  BY <1>5, CommitUnblockIInv, AbandonIInv
<1> QED
  BY <1>1, <1>2, <1>3, <1>4, <1>5, WorkflowCancelIInv, SweepIInv, TickIInv
  DEF Next

\* The inductive invariant holds in every reachable state, for every template,
\* retry budget, time to live and bound.
THEOREM InductiveInvariant == Spec => []IInv
<1>1. Init => IInv
  BY InitIInv
<1>2. IInv /\ [Next]_vars => IInv'
  BY NextIInv
<1> QED
  BY <1>1, <1>2, PTL DEF Spec

\* Every behaviour of the kernel is type correct: the commands keep the
\* instance within the statuses of status.go and the activations within those
\* that were created.
THEOREM TypeCorrect == Spec => []TypeOK
<1>1. IInv => TypeOK
  BY DEF IInv
<1> QED
  BY <1>1, InductiveInvariant, PTL

\* No node is ever run by two workers: however claims, dispatches, late
\* terminations, sweeps and late completions interleave, at most the newest attempt
\* is live, and none is while the activation can be claimed again.
THEOREM AtMostOneWorker == Spec => []OneWorker
<1>1. IInv => OneWorker
  BY DEF IInv
<1> QED
  BY <1>1, InductiveInvariant, PTL

\* No command leaks a lease or loses one: an activation has an active lease
\* exactly while it is leased or running, whatever path it left those statuses by
\* (completion, termination, expiry, cancel).
THEOREM LeaseMatchesStatus == Spec => []LeaseIffHeld
<1>1. IInv => LeaseIffHeld
  BY DEF IInv
<1> QED
  BY <1>1, InductiveInvariant, PTL

-----------------------------------------------------------------------------
(***************************************************************************)
(* What no step of the kernel may do, and the invariants that follow, for  *)
(* every template and every bound.                                         *)
(*                                                                         *)
(* Each action is described once (StepFacts): what it keeps of the history *)
(* (idempotency keys, attempts, passed gates, satisfied activations), how  *)
(* an activation gets blocked or earns its outcome, and what it does to a  *)
(* canceled instance.  The action properties are parts of that description *)
(* and the invariants follow from it by induction.                         *)
(***************************************************************************)

\* History is only added to, and an activation that exists keeps its node.
HistoryKept ==
  /\ keys \subseteq keys'
  /\ \A a \in Acts : /\ passed[a] \subseteq passed'[a]
                     /\ status[a] # "absent" => node'[a] = node[a]

\* Attempts are appended, and only a live one changes: it ends.
AttemptsKept ==
  \A a \in Acts :
    /\ Len(attempts'[a]) >= Len(attempts[a])
    /\ \A k \in 1..Len(attempts[a]) :
         \/ attempts'[a][k] = attempts[a][k]
         \/ LiveAttempt(attempts[a][k]) /\ ~LiveAttempt(attempts'[a][k])

SatisfiedKept ==
  \A a \in Acts : status[a] = "satisfied" =>
    status'[a] = "satisfied" /\ selected'[a] = selected[a]

\* An activation gets blocked by the end of a live attempt, and the instance
\* shows it; an instance turns active only when nothing is blocked.
BlockedByAttempt ==
  \A a \in Acts : status'[a] = "blocked" =>
    \/ status[a] = "blocked" /\ (wfStatus' = wfStatus \/ wfStatus' # "active")
    \/ /\ wfStatus' # "active"
       /\ \E k \in 1..Len(attempts[a]) : LiveAttempt(attempts[a][k])

\* An episode's key is used by the commit of an unblock, which re-arms.
EpisodeKeyUse ==
  \A a \in Acts : \A n \in Nat : <<"unblock", a, n>> \in keys' =>
    \/ <<"unblock", a, n>> \in keys
    \/ /\ \E u \in unblocking : u.act = a /\ u.key = <<"unblock", a, n>>
       /\ status[a] = "blocked" /\ status'[a] = "ready" /\ UNCHANGED attempts

\* An activation comes to its gates, or past them, by a completion or by being
\* parked, and past them only with every required gate passed.
EarnedStep ==
  \A a \in Acts :
    /\ status'[a] \in {"awaiting_gate", "satisfied"} =>
         \/ status[a] \in {"awaiting_gate", "satisfied"}
         \/ <<"park-external", a>> \in keys'
         \/ \E c \in completing : c.act = a /\ <<"complete", a, c.att>> \in keys'
    /\ status'[a] = "satisfied" /\ status[a] # "satisfied" =>
         status[a] # "absent" /\ Required[node[a]] \subseteq passed'[a]

\* What a validated command remembers.
FlightStep ==
  /\ \A c \in completing' : c \in completing \/ c.att \in 1..Len(attempts[c.act])
  /\ \A u \in unblocking' : u \in unblocking \/ u.key = EpisodeKey(u.act)

\* A canceled instance without leases is left alone; a cancel leaves none.
CancelStep ==
  /\ wfStatus = "canceled" /\ (\A a \in Acts : lease[a] = 0) =>
       UNCHANGED <<wfStatus, wfOutcome, created, status, selected, lease>>
  /\ wfStatus' = "canceled" => wfStatus = "canceled" \/ \A a \in Acts : lease'[a] = 0

StepFacts ==
  /\ HistoryKept /\ AttemptsKept /\ SatisfiedKept /\ BlockedByAttempt
  /\ EpisodeKeyUse /\ EarnedStep /\ FlightStep /\ CancelStep

\* The strengthening: what is used up by an episode's key, what is earned at the
\* gates, what a validated completion names, and that a canceled instance has
\* no lease a sweep could act on.
EpisodeOver ==
  \A a \in Acts : \A n \in Nat : <<"unblock", a, n>> \in keys =>
    /\ n <= Len(attempts[a])
    /\ n = Len(attempts[a]) =>
         /\ status[a] # "blocked"
         /\ \A k \in 1..Len(attempts[a]) : ~LiveAttempt(attempts[a][k])
UnblockOfEpisode ==
  \A u \in unblocking : \E n \in 0..Len(attempts[u.act]) : u.key = <<"unblock", u.act, n>>
CompletionOfAttempt == \A c \in completing : c.att \in 1..Len(attempts[c.act])
Earned(a) ==
  \/ \E k \in 1..Len(attempts[a]) : <<"complete", a, k>> \in keys
  \/ <<"park-external", a>> \in keys
GatedIsEarned ==
  \A a \in Acts :
    /\ status[a] \in {"awaiting_gate", "satisfied"} => Earned(a)
    /\ status[a] = "satisfied" => Required[node[a]] \subseteq passed[a]
CanceledHoldsNoLease == wfStatus = "canceled" => \A a \in Acts : lease[a] = 0

KInv ==
  /\ IInv /\ BlockSurfaces /\ EpisodeOver /\ UnblockOfEpisode
  /\ CompletionOfAttempt /\ GatedIsEarned /\ CanceledHoldsNoLease

-----------------------------------------------------------------------------
(* Facts that several actions need. *)

\* The attempts of an activation are a sequence.
LEMMA AttemptsSeq ==
  ASSUME IInv, NEW a \in Acts
  PROVE  /\ attempts[a] \in Seq(AttemptStatuses) /\ Len(attempts[a]) \in Nat
         /\ DOMAIN attempts[a] = 1..Len(attempts[a])
BY LenProperties DEF IInv, TypeOK, FactTypeOK

\* Steps that leave the attempts alone.
LEMMA SameAttempts == ASSUME IInv, UNCHANGED attempts PROVE AttemptsKept
BY AttemptsSeq DEF AttemptsKept

\* Commands do not reuse each other's idempotency keys.
LEMMA KeysApart ==
  ASSUME NEW a, NEW n
  PROVE  /\ \A b : <<"unblock", a, n>> # <<"park-external", b>>
         /\ \A b, k : <<"unblock", a, n>> # <<"complete", b, k>>
         /\ \A b, k : <<"unblock", a, n>> # <<"terminate", b, k>>
         /\ \A o, r, g, b : <<"unblock", a, n>> # <<"gate", o, r, g, b>>
         /\ <<"unblock", a, n>> # <<"cancel">>
OBVIOUS

\* A step that leaves the instance, its activations and its history alone.
LEMMA QuietStep ==
  ASSUME IInv, FlightStep,
         UNCHANGED <<wfStatus, wfOutcome, actVars, lease, attempts, passed, keys>>
  PROVE  StepFacts
<1>1. AttemptsKept
  BY SameAttempts
<1>2. HistoryKept /\ SatisfiedKept /\ BlockedByAttempt /\ EpisodeKeyUse /\ EarnedStep /\ CancelStep
  BY DEF actVars, HistoryKept, SatisfiedKept, BlockedByAttempt, EpisodeKeyUse, EarnedStep,
     CancelStep
<1> QED
  BY <1>1, <1>2 DEF StepFacts

\* Validating, abandoning, renewing a lease and the clock are quiet.
LEMMA QuietActions ==
  ASSUME IInv,
         \/ \E a \in Existing : BeginHeartbeat(a) \/ BeginUnblock(a)
         \/ \E a \in Existing : \E k \in DOMAIN attempts[a], o \in Outcomes : BeginComplete(a, k, o)
         \/ \E c \in completing : AbandonComplete(c)
         \/ \E h \in renewing : CommitHeartbeat(h) \/ AbandonHeartbeat(h)
         \/ \E u \in unblocking : AbandonUnblock(u)
         \/ Tick
         \/ UNCHANGED vars
  PROVE  StepFacts
<1>1. UNCHANGED <<wfStatus, wfOutcome, actVars, lease, attempts, passed, keys>>
  BY DEF BeginHeartbeat, BeginUnblock, BeginComplete, AbandonComplete, CommitHeartbeat,
     AbandonHeartbeat, AbandonUnblock, Tick, vars, leaseVars
<1>2. FlightStep
  <2>1. ASSUME NEW a \in Existing, NEW k \in DOMAIN attempts[a], NEW o \in Outcomes,
               BeginComplete(a, k, o)
        PROVE  FlightStep
    <3>1. k \in 1..Len(attempts[a])
      BY AttemptsSeq, ExistingFacts DEF IInv
    <3> QED
      BY <2>1, <3>1 DEF BeginComplete, FlightStep
  <2>2. CASE UNCHANGED vars
    BY <2>2 DEF vars, flightVars, FlightStep
  <2> QED
    BY <2>1, <2>2 DEF BeginHeartbeat, BeginUnblock, AbandonComplete, CommitHeartbeat,
       AbandonHeartbeat, AbandonUnblock, Tick, FlightStep
<1> QED
  BY <1>1, <1>2, QuietStep

-----------------------------------------------------------------------------
(* One description per action. *)

\* commandClaim.
LEMMA ClaimStep == ASSUME IInv, NEW a \in Existing, Claim(a) PROVE StepFacts
<1>1. a \in Acts
  BY ExistingFacts DEF IInv
<1>2. \A b \in Acts : status'[b] = IF b = a THEN "leased" ELSE status[b]
  BY <1>1 DEF Claim, IInv, TypeOK, ActivationTypeOK
<1>3. AttemptsKept
  BY SameAttempts DEF Claim
<1>4. HistoryKept /\ SatisfiedKept /\ BlockedByAttempt /\ EpisodeKeyUse /\ EarnedStep
  BY <1>1, <1>2 DEF Claim, claimableActivationStatus, HistoryKept, SatisfiedKept,
     BlockedByAttempt, EpisodeKeyUse, EarnedStep
<1>5. FlightStep /\ CancelStep
  BY DEF Claim, isTerminalStatus, flightVars, FlightStep, CancelStep
<1> QED
  BY <1>3, <1>4, <1>5 DEF StepFacts

\* An attempt is appended.
LEMMA AppendedAttempt ==
  ASSUME IInv, NEW a \in Acts,
         attempts' = [attempts EXCEPT ![a] = Append(attempts[a], "starting")]
  PROVE  AttemptsKept
<1>1. /\ Len(Append(attempts[a], "starting")) = Len(attempts[a]) + 1
      /\ \A k \in 1..Len(attempts[a]) : Append(attempts[a], "starting")[k] = attempts[a][k]
  BY AttemptsSeq, AppendProperties DEF AttemptStatuses
<1>2. /\ attempts'[a] = Append(attempts[a], "starting")
      /\ \A b \in Acts \ {a} : attempts'[b] = attempts[b]
  BY DEF IInv, TypeOK, FactTypeOK
<1> QED
  BY <1>1, <1>2, AttemptsSeq DEF AttemptsKept

\* commandStart.
LEMMA StartStep == ASSUME IInv, NEW a \in Existing, Start(a) PROVE StepFacts
<1>1. a \in Acts
  BY ExistingFacts DEF IInv
<1>2. \A b \in Acts : status'[b] = IF b = a THEN "running" ELSE status[b]
  BY <1>1 DEF Start, IInv, TypeOK, ActivationTypeOK
<1>3. AttemptsKept
  BY <1>1, AppendedAttempt DEF Start
<1>4. HistoryKept /\ SatisfiedKept /\ BlockedByAttempt /\ EpisodeKeyUse /\ EarnedStep
  BY <1>1, <1>2 DEF Start, HistoryKept, SatisfiedKept, BlockedByAttempt, EpisodeKeyUse, EarnedStep
<1>5. FlightStep /\ CancelStep
  BY DEF Start, isTerminalStatus, flightVars, FlightStep, CancelStep
<1> QED
  BY <1>3, <1>4, <1>5 DEF StepFacts

\* BeginDispatch.
LEMMA DispatchStep == ASSUME IInv, NEW a \in Existing, BeginDispatch(a) PROVE StepFacts
<1>1. a \in Acts
  BY ExistingFacts DEF IInv
<1>2. \A b \in Acts : status'[b] = IF b = a THEN "running" ELSE status[b]
  BY <1>1 DEF BeginDispatch, IInv, TypeOK, ActivationTypeOK
<1>3. AttemptsKept
  BY <1>1, AppendedAttempt DEF BeginDispatch
<1>4. HistoryKept /\ SatisfiedKept /\ BlockedByAttempt /\ EpisodeKeyUse /\ EarnedStep
  BY <1>1, <1>2 DEF BeginDispatch, claimableActivationStatus, HistoryKept, SatisfiedKept,
     BlockedByAttempt, EpisodeKeyUse, EarnedStep
<1>5. FlightStep /\ CancelStep
  BY DEF BeginDispatch, isTerminalStatus, flightVars, FlightStep, CancelStep
<1> QED
  BY <1>3, <1>4, <1>5 DEF StepFacts

\* ParkExternal.
LEMMA ParkStep == ASSUME IInv, NEW a \in Existing, ParkExternal(a) PROVE StepFacts
<1>1. a \in Acts
  BY ExistingFacts DEF IInv
<1>2. /\ \A b \in Acts : status'[b] = IF b = a THEN "awaiting_gate" ELSE status[b]
      /\ \A b \in Acts \ {a} : selected'[b] = selected[b]
  BY <1>1 DEF ParkExternal, IInv, TypeOK, ActivationTypeOK
<1>3. AttemptsKept
  BY SameAttempts DEF ParkExternal
<1>4. HistoryKept /\ SatisfiedKept /\ BlockedByAttempt /\ EarnedStep
  BY <1>1, <1>2 DEF ParkExternal, claimableActivationStatus, HistoryKept, SatisfiedKept,
     BlockedByAttempt, EarnedStep
<1>5. EpisodeKeyUse
  BY KeysApart DEF ParkExternal, EpisodeKeyUse
<1>6. FlightStep /\ CancelStep
  BY DEF ParkExternal, leaseVars, flightVars, FlightStep, CancelStep
<1> QED
  BY <1>3, <1>4, <1>5, <1>6 DEF StepFacts

\* The branch that follows a resolving event changes no activation that exists.
LEMMA BranchKeeps ==
  ASSUME IInv, NEW a \in Existing, NEW target, Branch(a, target)
  PROVE  \A b \in Acts : status[b] # "absent" => node'[b] = node[b]
<1>1. created \in Nat /\ \A b \in Acts : status[b] # "absent" => b # created + 1
  BY BoundsAssumption DEF IInv, TypeOK, ActivationTypeOK, Acts
<1> QED
  BY <1>1 DEF Branch, IInv, TypeOK, ActivationTypeOK

\* applyCompleted and its transition.
LEMMA CompleteStep == ASSUME IInv, NEW c \in completing, CommitComplete(c) PROVE StepFacts
<1> DEFINE a == c.act
           o == c.outcome
           gated == unsatisfiedRequiredGates(a) # {}
           target == IF gated THEN NoNode ELSE Target[node[a]][o]
           s == IF gated THEN "awaiting_gate" ELSE "satisfied"
<1>1. a \in Acts /\ o \in Outcomes /\ status[a] \in CompletableStatuses
  BY DEF IInv, TypeOK, FlightTypeOK, Completions, CommitComplete
<1>2. a \in Existing
  BY <1>1, BoundsAssumption DEF IInv, TypeOK, ActivationTypeOK, Existing, Acts,
     CompletableStatuses
<1>3. /\ Branch(a, target) /\ status' = StatusAfter(a, s, target)
      /\ selected' = [selected EXCEPT ![a] = o]
      /\ wfStatus' = IF gated \/ target \in Nodes THEN wfStatus ELSE "completed"
      /\ wfStatus # "canceled"
      /\ keys' = keys \cup {<<"complete", a, c.att>>}
      /\ UNCHANGED <<attempts, passed, renewing, unblocking>>
      /\ completing' = completing \ {c}
  BY DEF CommitComplete, SatisfyActivation
<1>4. s \in ActivationStatuses \ {"absent"} /\ s \in {"awaiting_gate", "satisfied"}
  BY DEF ActivationStatuses
<1>5. /\ selected' \in [Acts -> Outcomes \cup {NoOutcome}]
      /\ \A b \in Acts \ {a} : selected'[b] = selected[b]
  BY <1>1, <1>3 DEF IInv, TypeOK, ActivationTypeOK
<1>6. s = "satisfied" => Required[node[a]] \subseteq passed[a]
  BY DEF unsatisfiedRequiredGates
<1> HIDE DEF target, s
<1>7. \A b \in Acts : status'[b] = IF b = a THEN s
                                   ELSE IF target \in Nodes /\ b = created + 1
                                          THEN "pending" ELSE status[b]
  BY <1>2, <1>3, <1>4, <1>5, BranchStep DEF IInv
<1>8. \A b \in Acts : b = created + 1 => status[b] = "absent"
  BY DEF IInv, TypeOK, ActivationTypeOK, Acts
<1>9. AttemptsKept
  BY <1>3, SameAttempts
<1>10. HistoryKept
  BY <1>2, <1>3, BranchKeeps DEF HistoryKept
<1>11. SatisfiedKept
  BY <1>1, <1>5, <1>7, <1>8 DEF SatisfiedKept, CompletableStatuses
<1>12. BlockedByAttempt
  BY <1>3, <1>4, <1>7 DEF BlockedByAttempt
<1>13. EpisodeKeyUse
  BY <1>3, KeysApart DEF EpisodeKeyUse
<1>14. EarnedStep
  BY <1>1, <1>3, <1>6, <1>7 DEF EarnedStep, CompletableStatuses
<1>15. FlightStep /\ CancelStep
  BY <1>3 DEF FlightStep, CancelStep
<1> QED
  BY <1>9, <1>10, <1>11, <1>12, <1>13, <1>14, <1>15 DEF StepFacts

\* applyGate and its transition: of an awaiting activation only.
LEMMA GateStep ==
  ASSUME IInv, NEW a \in Existing, NEW g \in Gates[node[a]], NEW d \in Operations,
         NEW o \in Outcomes \cup {NoOutcome}, GateDecision(a, g, d, o)
  PROVE  StepFacts
<1> DEFINE target == GateTarget(a, g, d, o)
           s == status'[a]
<1>1. /\ a \in Acts /\ node[a] \in Nodes /\ status[a] = "awaiting_gate"
  BY ExistingFacts DEF IInv, GateDecision
<1>2. /\ Branch(a, target)
      /\ \/ SettleGate(a, g, d, o, target)
         \/ DropGate(a, target)
      /\ wfStatus # "canceled"
      /\ keys' = keys \cup GateKeys(a, g, d)
      /\ UNCHANGED <<leaseVars, attempts, flightVars>>
  BY DEF GateDecision
<1>3. IInv'
  BY GateDecisionIInv
<1>4. PICK x \in {"awaiting_gate", "satisfied", "rejected"} : status' = StatusAfter(a, x, target)
  <2>1. GateStatus(a, g, d, target) \in {"awaiting_gate", "satisfied", "rejected"}
    BY DEF GateStatus, Passing, Operations, ExternalResults
  <2> QED
    BY <1>1, <1>2, <2>1 DEF SettleGate, DropGate
<1>5. \A b \in Acts : b # a => status'[b] = status[b] \/ (status'[b] = "pending" /\ status[b] = "absent")
  <2>1. \A b \in Acts : b = created + 1 => status[b] = "absent"
    BY DEF IInv, TypeOK, ActivationTypeOK, Acts
  <2>2. selected' \in [Acts -> Outcomes \cup {NoOutcome}] /\ x \in ActivationStatuses \ {"absent"}
    BY <1>3 DEF IInv, TypeOK, ActivationTypeOK, ActivationStatuses
  <2> HIDE DEF target
  <2>3. \A b \in Acts : status'[b] = IF b = a THEN x
                                     ELSE IF target \in Nodes /\ b = created + 1
                                            THEN "pending" ELSE status[b]
    BY <1>2, <1>4, <2>2, BranchStep DEF IInv
  <2>4. ASSUME NEW b \in Acts, b # a
        PROVE  status'[b] = status[b] \/ (status'[b] = "pending" /\ status[b] = "absent")
    <3>1. CASE target \in Nodes /\ b = created + 1
      BY <2>1, <2>3, <2>4, <3>1
    <3>2. CASE ~(target \in Nodes /\ b = created + 1)
      BY <2>3, <2>4, <3>2
    <3> QED
      BY <3>1, <3>2
  <2> QED
    BY <2>4
<1>6. /\ s \in {"awaiting_gate", "satisfied", "rejected"}
      /\ s = "satisfied" => Required[node[a]] \subseteq passed'[a]
  <2>1. a # created + 1 /\ created \in Nat
    BY <1>1 DEF IInv, TypeOK, ActivationTypeOK, Acts
  <2>2. CASE SettleGate(a, g, d, o, target)
    <3>1. s = GateStatus(a, g, d, target)
      BY <1>1, <1>2, <2>1, <2>2 DEF SettleGate, StatusAfter, IInv, TypeOK, ActivationTypeOK
    <3>2. GateStatus(a, g, d, target) \in {"awaiting_gate", "satisfied", "rejected"}
      BY DEF GateStatus, Passing, Operations, ExternalResults
    <3>3. GateStatus(a, g, d, target) = "satisfied" => Passing(d) /\ ResolvesGates(a, g, d)
      BY DEF GateStatus, Passing, Operations, ExternalResults
    <3>4. Passing(d) => passed'[a] = passed[a] \cup {g}
      BY <1>1, <2>2 DEF SettleGate, IInv, TypeOK, FactTypeOK
    <3> QED
      BY <3>1, <3>2, <3>3, <3>4 DEF ResolvesGates
  <2>3. CASE DropGate(a, target)
    BY <1>1, <1>2, <2>1, <2>3 DEF DropGate, StatusAfter, IInv, TypeOK, ActivationTypeOK
  <2> QED
    BY <1>2, <2>2, <2>3
<1>7. /\ \A b \in Acts : passed[b] \subseteq passed'[b]
      /\ \A b \in Acts : b # a => selected'[b] = selected[b]
      /\ wfStatus' = wfStatus \/ wfStatus' = "completed"
  <2>1. CASE SettleGate(a, g, d, o, target)
    BY <1>1, <2>1 DEF SettleGate, IInv, TypeOK, FactTypeOK, ActivationTypeOK
  <2>2. CASE DropGate(a, target)
    BY <2>2 DEF DropGate
  <2> QED
    BY <1>2, <2>1, <2>2
<1> HIDE DEF target
<1>8. AttemptsKept
  BY <1>2, SameAttempts
<1>9. HistoryKept
  BY <1>2, <1>7, BranchKeeps DEF HistoryKept
<1>10. SatisfiedKept
  BY <1>1, <1>5, <1>7 DEF SatisfiedKept
<1>11. BlockedByAttempt
  BY <1>5, <1>6, <1>7 DEF BlockedByAttempt
<1>12. EpisodeKeyUse
  BY <1>2, KeysApart DEF EpisodeKeyUse, GateKeys
<1>13. EarnedStep
  BY <1>1, <1>5, <1>6 DEF EarnedStep
<1>14. FlightStep /\ CancelStep
  BY <1>2, <1>7 DEF FlightStep, CancelStep, flightVars
<1> QED
  BY <1>8, <1>9, <1>10, <1>11, <1>12, <1>13, <1>14 DEF StepFacts

\* applyAttemptTerminated: only a live attempt ends, and only an activation that
\* is not past it moves.
LEMMA TerminationStep ==
  ASSUME IInv, NEW a \in Existing, NEW k \in DOMAIN attempts[a],
         NEW r \in RunResults, RecordAttemptTermination(a, k, r)
  PROVE  StepFacts
<1>1. a \in Acts /\ node[a] \in Nodes /\ k \in 1..Len(attempts[a])
  BY ExistingFacts, AttemptsSeq DEF IInv
<1>2. /\ UNCHANGED <<wfOutcome, created, node, cause, passed, flightVars>>
      /\ keys' = keys \cup {<<"terminate", a, k>>}
  BY DEF RecordAttemptTermination
<1>3. FlightStep
  BY <1>2 DEF FlightStep, flightVars
<1>4. EpisodeKeyUse /\ HistoryKept
  BY <1>2, KeysApart DEF EpisodeKeyUse, HistoryKept
<1>5. CASE UNCHANGED <<wfStatus, status, selected, leaseVars, attempts>>
  <2>1. AttemptsKept
    BY <1>5, SameAttempts
  <2>2. SatisfiedKept /\ BlockedByAttempt /\ EarnedStep /\ CancelStep
    BY <1>2, <1>5 DEF SatisfiedKept, BlockedByAttempt, EarnedStep, CancelStep, leaseVars
  <2> QED
    BY <1>3, <1>4, <2>1, <2>2 DEF StepFacts
<1>6. CASE LiveAttempt(attempts[a][k]) /\ RecordTermination(a, k, r)
  <2>1. AttemptsKept
    <3> DEFINE t == [attempts[a] EXCEPT ![k] = r]
    <3>1. r \in AttemptStatuses /\ ~LiveAttempt(r)
      BY DEF RunResults, AttemptStatuses, LiveAttempt
    <3>2. /\ Len(t) = Len(attempts[a])
          /\ \A j \in 1..Len(t) : t[j] = IF j = k THEN r ELSE attempts[a][j]
      BY <1>1, <3>1, AttemptsSeq, ExceptSeq
    <3>3. attempts'[a] = t /\ \A b \in Acts \ {a} : attempts'[b] = attempts[b]
      BY <1>1, <1>6 DEF IInv, TypeOK, FactTypeOK, RecordTermination
    <3> HIDE DEF t
    <3> QED
      BY <1>1, <1>6, <3>1, <3>2, <3>3, AttemptsSeq DEF AttemptsKept
  <2>2. CASE UNCHANGED <<wfStatus, status, selected, leaseVars>>
    BY <1>2, <1>3, <1>4, <2>1, <2>2 DEF SatisfiedKept, BlockedByAttempt, EarnedStep,
       CancelStep, leaseVars, StepFacts
  <2>3. CASE /\ ~PastTermination(a)
             /\ status' = [status EXCEPT ![a] = StatusAfterFailure(a, r)]
             /\ wfStatus' = WfStatusAfterFailure(a, StatusAfterFailure(a, r))
             /\ selected' \in {selected,
                  [selected EXCEPT ![a] = ExhaustOutcome[node[a]]]}
    <3>1. StatusAfterFailure(a, r) \in {"blocked", "ready", "attempt_failed"}
      BY <1>1, TemplateAssumption DEF StatusAfterFailure
    <3>2. \A b \in Acts : status'[b] = IF b = a THEN StatusAfterFailure(a, r) ELSE status[b]
      BY <1>1, <2>3 DEF IInv, TypeOK, ActivationTypeOK
    <3>3. \A b \in Acts \ {a} : selected'[b] = selected[b]
      BY <1>1, <2>3 DEF IInv, TypeOK, ActivationTypeOK
    <3>4. SatisfiedKept
      BY <2>3, <3>2, <3>3 DEF SatisfiedKept, PastTermination
    <3>5. /\ StatusAfterFailure(a, r) = "blocked" => wfStatus' # "active"
          /\ wfStatus' = wfStatus \/ wfStatus' # "active"
      BY <2>3 DEF WfStatusAfterFailure
    <3>6. BlockedByAttempt
      BY <1>1, <1>6, <3>2, <3>5 DEF BlockedByAttempt
    <3>7. EarnedStep
      BY <3>1, <3>2 DEF EarnedStep
    <3>8. CancelStep
      BY <2>3 DEF CancelStep, PastTermination, WfStatusAfterFailure
    <3> QED
      BY <1>3, <1>4, <2>1, <3>4, <3>6, <3>7, <3>8 DEF StepFacts
  <2> QED
    BY <1>6, <2>2, <2>3 DEF RecordTermination
<1> QED
  BY <1>5, <1>6 DEF RecordAttemptTermination

\* applyUnblocked.
LEMMA UnblockStep ==
  ASSUME IInv, UnblockOfEpisode, NEW u \in unblocking, CommitUnblock(u)
  PROVE  StepFacts
<1>1. u.act \in Acts
  BY ExistingFacts DEF IInv, TypeOK, FlightTypeOK
<1>2. \A b \in Acts : status'[b] = IF b = u.act THEN "ready" ELSE status[b]
  BY <1>1 DEF CommitUnblock, IInv, TypeOK, ActivationTypeOK
<1>3. AttemptsKept
  BY SameAttempts DEF CommitUnblock
<1>4. HistoryKept /\ SatisfiedKept /\ EarnedStep
  BY <1>1, <1>2 DEF CommitUnblock, HistoryKept, SatisfiedKept, EarnedStep
<1>5. BlockedByAttempt
  BY <1>1, <1>2 DEF CommitUnblock, BlockedByAttempt, instanceHasBlockedActivation
<1>6. FlightStep /\ CancelStep
  BY DEF CommitUnblock, FlightStep, CancelStep
<1>7. EpisodeKeyUse
  <2> SUFFICES ASSUME NEW a \in Acts, NEW n \in Nat, <<"unblock", a, n>> = u.key
               PROVE  /\ u.act = a /\ status[a] = "blocked" /\ status'[a] = "ready"
                      /\ UNCHANGED attempts
    BY DEF EpisodeKeyUse, CommitUnblock
  <2>1. u.act = a
    BY DEF UnblockOfEpisode
  <2> QED
    BY <1>2, <2>1 DEF CommitUnblock
<1> QED
  BY <1>3, <1>4, <1>5, <1>6, <1>7 DEF StepFacts

\* applyCanceled.
LEMMA CanceledStep == ASSUME IInv, WorkflowCancel PROVE StepFacts
<1>1. \A a \in Acts :
        /\ status'[a] = IF a <= created /\ status[a] \notin CancelKeeps
                          THEN "canceled" ELSE status[a]
        /\ lease'[a] = 0
  BY DEF WorkflowCancel
<1>2. AttemptsKept
  BY SameAttempts DEF WorkflowCancel
<1>3. HistoryKept /\ SatisfiedKept /\ BlockedByAttempt /\ EarnedStep
  BY <1>1 DEF WorkflowCancel, CancelKeeps, HistoryKept, SatisfiedKept, BlockedByAttempt,
     EarnedStep
<1>4. EpisodeKeyUse
  BY KeysApart DEF WorkflowCancel, EpisodeKeyUse
<1>5. FlightStep /\ CancelStep
  BY <1>1 DEF WorkflowCancel, isTerminalStatus, flightVars, FlightStep, CancelStep
<1> QED
  BY <1>2, <1>3, <1>4, <1>5 DEF StepFacts

\* applyLeaseExpired on every stale lease.
LEMMA SweepStep == ASSUME IInv, SweepStaleLeases PROVE StepFacts
<1>1. \A a \in StaleLeases : a \in Acts /\ status[a] \in {"leased", "running"} /\ lease[a] # 0
  BY DEF StaleLeases, IInv, LeaseIffHeld
<1>2. \A a \in Acts :
        /\ status'[a] = IF a \in StaleLeases THEN "lease_expired" ELSE status[a]
        /\ attempts'[a] =
             IF a \in StaleLeases
               THEN [k \in DOMAIN attempts[a] |-> ExpiredAttempt(attempts[a][k])]
               ELSE attempts[a]
  BY DEF SweepStaleLeases
<1>3. AttemptsKept
  <2> SUFFICES ASSUME NEW a \in Acts
               PROVE  /\ Len(attempts'[a]) >= Len(attempts[a])
                      /\ \A k \in 1..Len(attempts[a]) :
                           \/ attempts'[a][k] = attempts[a][k]
                           \/ LiveAttempt(attempts[a][k]) /\ ~LiveAttempt(attempts'[a][k])
    BY DEF AttemptsKept
  <2>1. CASE a \notin StaleLeases
    <3>1. attempts'[a] = attempts[a] /\ Len(attempts[a]) \in Nat
      BY <1>2, <2>1, AttemptsSeq
    <3> QED
      BY <3>1
  <2>2. CASE a \in StaleLeases
    <3>1. attempts'[a] = [k \in 1..Len(attempts[a]) |-> ExpiredAttempt(attempts[a][k])]
      BY <1>2, <2>2, AttemptsSeq
    <3>2. \A k \in 1..Len(attempts[a]) : ExpiredAttempt(attempts[a][k]) \in AttemptStatuses
      BY AttemptsSeq, ElementOfSeq DEF ExpiredAttempt, AttemptStatuses
    <3>3. attempts'[a] \in Seq(AttemptStatuses) /\ Len(attempts'[a]) = Len(attempts[a])
      BY <3>1, <3>2, AttemptsSeq, IsASeq, LenProperties
    <3> QED
      BY <3>1, <3>3, AttemptsSeq DEF ExpiredAttempt, LiveAttempt
  <2> QED
    BY <2>1, <2>2
<1>4. HistoryKept /\ SatisfiedKept /\ BlockedByAttempt /\ EpisodeKeyUse /\ EarnedStep
  BY <1>1, <1>2 DEF SweepStaleLeases, HistoryKept, SatisfiedKept, BlockedByAttempt,
     EpisodeKeyUse, EarnedStep
<1>5. FlightStep /\ CancelStep
  BY <1>1 DEF SweepStaleLeases, flightVars, FlightStep, CancelStep
<1> QED
  BY <1>3, <1>4, <1>5 DEF StepFacts

\* Every step of the kernel is as described.
LEMMA EveryStep == ASSUME IInv, UnblockOfEpisode, [Next]_vars PROVE StepFacts
<1>1. ASSUME NEW a \in Existing, CommandOn(a) PROVE StepFacts
  BY <1>1, ClaimStep, StartStep, DispatchStep, ParkStep, TerminationStep, GateStep,
     QuietActions DEF CommandOn
<1>2. ASSUME NEW c \in completing, CommitComplete(c) \/ AbandonComplete(c) PROVE StepFacts
  BY <1>2, CompleteStep, QuietActions
<1>3. ASSUME NEW h \in renewing, CommitHeartbeat(h) \/ AbandonHeartbeat(h) PROVE StepFacts
  BY <1>3, QuietActions
<1>4. ASSUME NEW u \in unblocking, CommitUnblock(u) \/ AbandonUnblock(u) PROVE StepFacts
  BY <1>4, UnblockStep, QuietActions
<1>5. CASE UNCHANGED vars
  BY <1>5, QuietActions
<1> QED
  BY <1>1, <1>2, <1>3, <1>4, <1>5, CanceledStep, SweepStep, QuietActions DEF Next

-----------------------------------------------------------------------------
(* The induction. *)

\* A fresh instance has used no key.
LEMMA InitKInv == Init => KInv
BY InitIInv DEF Init, KInv, BlockSurfaces, EpisodeOver, UnblockOfEpisode,
   CompletionOfAttempt, GatedIsEarned, CanceledHoldsNoLease

\* A described step keeps the strengthened invariant.
LEMMA NextKInv == KInv /\ [Next]_vars => KInv'
<1> SUFFICES ASSUME KInv, [Next]_vars PROVE KInv'
  OBVIOUS
<1>1. IInv /\ IInv' /\ StepFacts
  BY NextIInv, EveryStep DEF KInv
<1>2. \A a \in Acts : Len(attempts[a]) \in Nat /\ Len(attempts'[a]) \in Nat
                      /\ Len(attempts'[a]) >= Len(attempts[a])
  BY <1>1, AttemptsSeq, LenProperties DEF StepFacts, AttemptsKept, IInv, TypeOK, FactTypeOK
<1>3. BlockSurfaces'
  BY <1>1 DEF KInv, StepFacts, BlockedByAttempt, BlockSurfaces
<1>4. EpisodeOver'
  <2> SUFFICES ASSUME NEW a \in Acts, NEW n \in Nat, <<"unblock", a, n>> \in keys'
               PROVE  /\ n <= Len(attempts'[a])
                      /\ n = Len(attempts'[a]) =>
                           /\ status'[a] # "blocked"
                           /\ \A k \in 1..Len(attempts'[a]) : ~LiveAttempt(attempts'[a][k])
    BY DEF EpisodeOver
  <2>1. CASE <<"unblock", a, n>> \in keys
    <3>1. n <= Len(attempts'[a])
      BY <1>2, <2>1 DEF KInv, EpisodeOver
    <3>2. ASSUME n = Len(attempts'[a])
          PROVE  /\ status'[a] # "blocked"
                 /\ \A k \in 1..Len(attempts'[a]) : ~LiveAttempt(attempts'[a][k])
      <4>1. n = Len(attempts[a]) /\ Len(attempts'[a]) = Len(attempts[a])
        BY <1>2, <2>1, <3>2 DEF KInv, EpisodeOver
      <4>2. /\ status[a] # "blocked"
            /\ \A k \in 1..Len(attempts[a]) : ~LiveAttempt(attempts[a][k])
        BY <2>1, <4>1 DEF KInv, EpisodeOver
      <4>3. status'[a] # "blocked"
        BY <1>1, <4>2 DEF StepFacts, BlockedByAttempt
      <4>4. \A k \in 1..Len(attempts[a]) : attempts'[a][k] = attempts[a][k]
        BY <1>1, <4>2 DEF StepFacts, AttemptsKept
      <4> QED
        BY <4>1, <4>2, <4>3, <4>4
    <3> QED
      BY <3>1, <3>2
  <2>2. CASE <<"unblock", a, n>> \notin keys
    <3>1. PICK u \in unblocking : u.act = a /\ u.key = <<"unblock", a, n>>
      BY <1>1, <2>2 DEF StepFacts, EpisodeKeyUse
    <3>2. status[a] = "blocked" /\ status'[a] = "ready" /\ UNCHANGED attempts
      BY <1>1, <2>2 DEF StepFacts, EpisodeKeyUse
    <3>3. n <= Len(attempts[a])
      BY <1>2, <3>1 DEF KInv, UnblockOfEpisode
    <3>4. \A k \in 1..Len(attempts[a]) : ~LiveAttempt(attempts[a][k])
      BY <1>1, <3>2, AttemptsSeq DEF IInv, OneWorker, PastStart
    <3> QED
      BY <3>2, <3>3, <3>4
  <2> QED
    BY <2>1, <2>2
<1>5. UnblockOfEpisode'
  <2> SUFFICES ASSUME NEW u \in unblocking'
               PROVE  \E n \in 0..Len(attempts'[u.act]) : u.key = <<"unblock", u.act, n>>
    BY DEF UnblockOfEpisode
  <2>1. u.act \in Acts
    BY <1>1, BoundsAssumption DEF IInv, TypeOK, FlightTypeOK, ActivationTypeOK, Existing, Acts
  <2>2. \E n \in 0..Len(attempts[u.act]) : u.key = <<"unblock", u.act, n>>
    BY <1>1, <1>2, <2>1 DEF KInv, UnblockOfEpisode, StepFacts, FlightStep, EpisodeKey
  <2> QED
    BY <1>2, <2>1, <2>2
<1>6. CompletionOfAttempt'
  <2> SUFFICES ASSUME NEW c \in completing' PROVE c.att \in 1..Len(attempts'[c.act])
    BY DEF CompletionOfAttempt
  <2>1. c.act \in Acts
    BY <1>1 DEF IInv, TypeOK, FlightTypeOK, Completions
  <2>2. c.att \in 1..Len(attempts[c.act])
    BY <1>1 DEF KInv, CompletionOfAttempt, StepFacts, FlightStep
  <2> QED
    BY <1>2, <2>1, <2>2
<1>7. GatedIsEarned'
  <2> SUFFICES ASSUME NEW a \in Acts
               PROVE  /\ status'[a] \in {"awaiting_gate", "satisfied"} => Earned(a)'
                      /\ status'[a] = "satisfied" => Required[node'[a]] \subseteq passed'[a]
    BY DEF GatedIsEarned
  <2>1. Earned(a) => Earned(a)'
    <3>1. keys \subseteq keys' /\ 1..Len(attempts[a]) \subseteq 1..Len(attempts'[a])
      BY <1>1, <1>2 DEF StepFacts, HistoryKept
    <3> QED
      BY <3>1 DEF Earned
  <2>2. ASSUME NEW c \in completing, c.act = a, <<"complete", a, c.att>> \in keys'
        PROVE  Earned(a)'
    <3>1. c.att \in 1..Len(attempts[a])
      BY <2>2 DEF KInv, CompletionOfAttempt
    <3>2. c.att \in 1..Len(attempts'[a])
      BY <1>2, <3>1
    <3> QED
      BY <2>2, <3>2 DEF Earned
  <2>3. status'[a] \in {"awaiting_gate", "satisfied"} => Earned(a)'
    BY <1>1, <2>1, <2>2 DEF KInv, GatedIsEarned, StepFacts, EarnedStep, Earned
  <2>4. status'[a] = "satisfied" => Required[node'[a]] \subseteq passed'[a]
    BY <1>1 DEF KInv, GatedIsEarned, StepFacts, EarnedStep, HistoryKept
  <2> QED
    BY <2>3, <2>4
<1>8. CanceledHoldsNoLease'
  BY <1>1 DEF KInv, CanceledHoldsNoLease, StepFacts, CancelStep
<1> QED
  BY <1>1, <1>3, <1>4, <1>5, <1>6, <1>7, <1>8 DEF KInv

\* The strengthened invariant holds in every reachable state.
THEOREM KernelInductive == Spec => []KInv
<1> QED
  BY InitKInv, NextKInv, PTL DEF Spec

\* An instance with a blocked activation never reports active, whatever else its
\* branches do (markInstanceBlocked, applyUnblocked).
THEOREM BlockAlwaysSurfaces == Spec => []BlockSurfaces
<1>1. KInv => BlockSurfaces
  BY DEF KInv
<1> QED
  BY <1>1, KernelInductive, PTL

\* No unblock is taken for a duplicate of an earlier episode's: the number of
\* attempts in the key grows between two episodes, because only the end of a new
\* attempt blocks an activation again.
THEOREM UnblockNeverSwallowed == Spec => []UnblockNotSwallowed
<1>1. KInv => UnblockNotSwallowed
  BY AttemptsSeq DEF KInv, EpisodeOver, UnblockNotSwallowed, EpisodeKey
<1> QED
  BY <1>1, KernelInductive, PTL

\* Whatever satisfies an activation, it was completed by one of its attempts or
\* parked as an auto external node, and its required gates are passed.
THEOREM SatisfactionEarned == Spec => []SatisfiedIsEarned
<1>1. KInv => SatisfiedIsEarned
  BY AttemptsSeq DEF KInv, GatedIsEarned, Earned, SatisfiedIsEarned
<1> QED
  BY <1>1, KernelInductive, PTL

\* A canceled instance is final: its cancel released every lease, so no sweep has
\* anything to expire, and every command refuses or only records a fact.
THEOREM CancelFinal == Spec => CanceledIsFinal
<1>1. KInv /\ [Next]_vars =>
        [wfStatus = "canceled" =>
           UNCHANGED <<wfStatus, wfOutcome, created, status, selected, lease>>]_vars
  BY EveryStep DEF KInv, CanceledHoldsNoLease, StepFacts, CancelStep
<1> QED
  BY <1>1, KernelInductive, PTL DEF Spec, CanceledIsFinal

\* A satisfied activation keeps its status and its outcome for good.
THEOREM SatisfactionFinal == Spec => SatisfiedIsFinal
<1>1. KInv /\ [Next]_vars =>
        [\A a \in Acts : status[a] = "satisfied" =>
           status'[a] = "satisfied" /\ selected'[a] = selected[a]]_vars
  BY EveryStep DEF KInv, StepFacts, SatisfiedKept
<1> QED
  BY <1>1, KernelInductive, PTL DEF Spec, SatisfiedIsFinal

\* No sweep, restart or second report rewrites how an attempt ended, and no
\* attempt is dropped.
THEOREM FactsStand == Spec => AttemptFactsStand
<1>1. KInv /\ [Next]_vars =>
        [\A a \in Acts : \A k \in DOMAIN attempts[a] :
           /\ k \in DOMAIN attempts'[a]
           /\ ~LiveAttempt(attempts[a][k]) => attempts'[a][k] = attempts[a][k]]_vars
  <2> SUFFICES ASSUME KInv, [Next]_vars, NEW a \in Acts, NEW k \in DOMAIN attempts[a]
               PROVE  /\ k \in DOMAIN attempts'[a]
                      /\ ~LiveAttempt(attempts[a][k]) => attempts'[a][k] = attempts[a][k]
    OBVIOUS
  <2>1. IInv /\ IInv' /\ AttemptsKept
    BY NextIInv, EveryStep DEF KInv, StepFacts
  <2>2. /\ attempts'[a] \in Seq(AttemptStatuses) /\ Len(attempts'[a]) \in Nat
        /\ DOMAIN attempts'[a] = 1..Len(attempts'[a])
    BY <2>1, LenProperties DEF IInv, TypeOK, FactTypeOK
  <2>3. k \in 1..Len(attempts[a]) /\ Len(attempts[a]) \in Nat
    BY <2>1, AttemptsSeq
  <2> QED
    BY <2>1, <2>2, <2>3 DEF AttemptsKept
<1> QED
  BY <1>1, KernelInductive, PTL DEF Spec, AttemptFactsStand
=============================================================================
