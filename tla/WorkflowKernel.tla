--------------------------- MODULE WorkflowKernel ---------------------------
(***************************************************************************)
(* One durable workflow instance of internal/workflow: the reducer of      *)
(* transitions.go driven by the commands of the manager (manager.go,       *)
(* dispatch.go, completion.go, gate_handlers.go, heartbeat.go, cancel.go,  *)
(* park_external.go) and by the lease sweep (recovery.go).                 *)
(*                                                                         *)
(* The store applies a command under the instance's flock and only at the  *)
(* revision the caller read, so a command that reads and commits at one    *)
(* revision is one action.  A command that validates on a first snapshot   *)
(* and then commits on a fresh one (complete, heartbeat, unblock) is two   *)
(* actions with a request in flight between them.                          *)
(*                                                                         *)
(* Time is relative: expiry[a] is ExpiresAt minus the current time, counted*)
(* down by Tick to -1, which stands for "now is after ExpiresAt".          *)
(***************************************************************************)
EXTENDS Integers, Sequences, FiniteSets

CONSTANTS
  Nodes,           \* nodes of the template
  Entry,           \* EntryNodes, a sequence of nodes
  Outcomes,        \* outcome names
  NoOutcome,       \* the empty outcome name
  NoNode,          \* resolveOutcome found the outcome, with no target node
  Undeclared,      \* resolveOutcome did not find the outcome
  Target,          \* node -> outcome -> target node, NoNode or Undeclared
  Gates,           \* node -> gates declared on it
  Required,        \* node -> those of them that are required
  Bound,           \* gates with a subject binding
  ResultOutcome,   \* bound gate -> external result -> mapped outcome
  AutoExternal,    \* auto-dispatched external nodes
  SuccessOutcome,  \* node -> dispatch.success_outcome
  Runtimeless,     \* manual and external nodes: an attempt has no runtime
  NeedsTerminal,   \* nodes whose completion contract observes a terminal fact
  MaximumAttempts, \* node -> retry budget
  Exhaustion,      \* node -> "block", "fail" or "outcome"
  ExhaustOutcome,  \* node -> outcome of exhaustion "outcome"
  TTL,             \* lease time to live, in ticks
  MaxActivations,  \* bound: activations of the instance
  MaxClaims,       \* bound: leases ever granted on one activation
  MaxInFlight      \* bound: commands between validation and commit

Acts == 1..MaxActivations
GateIds == UNION {Gates[n] : n \in Nodes}

ASSUME TemplateAssumption ==
  /\ Entry \in Seq(Nodes)
  /\ NoNode \notin Nodes /\ Undeclared \notin Nodes /\ NoNode # Undeclared
  /\ NoOutcome \notin Outcomes
  /\ Target \in [Nodes -> [Outcomes -> Nodes \cup {NoNode, Undeclared}]]
  /\ \A n \in Nodes : Required[n] \subseteq Gates[n]
  /\ SuccessOutcome \in [Nodes -> Outcomes]
  /\ MaximumAttempts \in [Nodes -> Nat]
  /\ Exhaustion \in [Nodes -> {"block", "fail", "outcome"}]
  /\ ExhaustOutcome \in [Nodes -> Outcomes]

ASSUME BoundsAssumption ==
  /\ TTL \in Nat
  /\ MaxActivations \in Nat
  /\ Len(Entry) <= MaxActivations
  /\ MaxClaims \in Nat
  /\ MaxInFlight \in Nat

VARIABLES
  wfStatus,    \* Instance.Status
  wfOutcome,   \* Instance.TerminalOutcome
  created,     \* len(Instance.Activations): activations 1..created exist
  node,        \* Activation.NodeID
  status,      \* Activation.Status
  selected,    \* Activation.SelectedOutcome
  cause,       \* Activation.CausedBy, 0 for an entry activation
  lease,       \* Activation.ActiveLease.ID, 0 when nil
  expiry,      \* Activation.ActiveLease.ExpiresAt, relative to now
  claims,      \* leases granted so far: the source of fresh lease IDs
  attempts,    \* statuses of the activation's attempts, in AttemptIDs order
  passed,      \* gates with a passed or waived instance for the activation
  keys,        \* Snapshot.Idempotency
  completing,  \* completions validated and not yet committed
  renewing,    \* heartbeats validated and not yet committed
  unblocking   \* unblocks validated and not yet committed

actVars == <<created, node, status, selected, cause>>
leaseVars == <<lease, expiry, claims>>
flightVars == <<completing, renewing, unblocking>>
vars == <<wfStatus, wfOutcome, actVars, leaseVars, attempts, passed, keys,
          flightVars>>

-----------------------------------------------------------------------------
(***************************************************************************)
(* The statuses that some command can reach.  awaiting_completion, skipped *)
(* and the instance status awaiting_gate are declared in status.go and set *)
(* by no command; panicked and timed_out reports are treated like failed.  *)
(***************************************************************************)
WorkflowStatuses == {"active", "blocked", "completed", "failed", "canceled"}
ActivationStatuses ==
  {"absent", "pending", "ready", "leased", "running", "attempt_failed",
   "awaiting_gate", "blocked", "lease_expired", "satisfied", "rejected",
   "canceled"}
AttemptStatuses == {"starting", "succeeded", "failed", "canceled", "timed_out"}
RunResults == {"succeeded", "failed", "canceled"}
ExternalResults == {"pending", "passed", "failed", "advisory"}

isTerminalStatus(s) == s \in {"completed", "failed", "canceled"}
claimableActivationStatus(s) == s \in {"pending", "ready", "lease_expired"}
LiveAttempt(s) == s = "starting"
Existing == 1..created

\* The status sets each reducer transition accepts or protects.
CompletableStatuses ==
  {"running", "ready", "attempt_failed", "blocked", "lease_expired"}
CancelKeeps == {"satisfied", "rejected", "canceled"}

unsatisfiedRequiredGates(a) == Required[node[a]] \ passed[a]

-----------------------------------------------------------------------------
(***************************************************************************)
(* Instantiation: one pending activation per entry node.                   *)
(***************************************************************************)
Init ==
  /\ wfStatus = "active" /\ wfOutcome = NoOutcome
  /\ created = Len(Entry)
  /\ node = [a \in Acts |-> IF a <= Len(Entry) THEN Entry[a] ELSE NoNode]
  /\ status = [a \in Acts |-> IF a <= Len(Entry) THEN "pending" ELSE "absent"]
  /\ selected = [a \in Acts |-> NoOutcome]
  /\ cause = [a \in Acts |-> 0]
  /\ lease = [a \in Acts |-> 0]
  /\ expiry = [a \in Acts |-> 0]
  /\ claims = [a \in Acts |-> 0]
  /\ attempts = [a \in Acts |-> << >>]
  /\ passed = [a \in Acts |-> {}]
  /\ keys = {}
  /\ completing = {} /\ renewing = {} /\ unblocking = {}

\* Mutant: the new activation is not appended to the instance's list.
Branch_NotAppended(a, target) == UNCHANGED <<created, node, cause>>

\* The transition event that follows a resolving event in its batch.  It
\* creates a pending activation of the target node; without a target it is
\* not emitted.
Branch(a, target) ==
  \/ /\ target \notin Nodes
     /\ UNCHANGED <<created, node, cause>>
  \/ /\ target \in Nodes
     /\ created < MaxActivations
     /\ created' = created + 1
     /\ node' = [node EXCEPT ![created + 1] = target]
     /\ cause' = [cause EXCEPT ![created + 1] = a]

\* The statuses after activation a is set to s and its branch is followed.
StatusAfter(a, s, target) ==
  IF target \in Nodes
    THEN [status EXCEPT ![a] = s, ![created + 1] = "pending"]
    ELSE [status EXCEPT ![a] = s]

\* A live lease can only be used by the command that names it.
LeaseAllows(a, l) == lease[a] # 0 => l = lease[a]

Grant(a) ==
  /\ lease' = [lease EXCEPT ![a] = claims[a] + 1]
  /\ claims' = [claims EXCEPT ![a] = claims[a] + 1]
  /\ expiry' = [expiry EXCEPT ![a] = TTL]

\* Mutant: the lease outlives the work it covered.
Release_Kept(a) == UNCHANGED <<lease, expiry, claims>>

Release(a) ==
  /\ lease' = [lease EXCEPT ![a] = 0]
  /\ expiry' = [expiry EXCEPT ![a] = 0]
  /\ UNCHANGED claims

-----------------------------------------------------------------------------
(***************************************************************************)
(* Claim, start and dispatch: read and commit at one revision.             *)
(***************************************************************************)
Claim(a) ==
  /\ ~isTerminalStatus(wfStatus)
  /\ claimableActivationStatus(status[a])
  /\ claims[a] < MaxClaims
  /\ Grant(a)
  /\ status' = [status EXCEPT ![a] = "leased"]
  /\ UNCHANGED <<wfStatus, wfOutcome, created, node, selected, cause,
                 attempts, passed, keys, flightVars>>

\* The holder of the active lease starts an attempt.
Start(a) ==
  /\ ~isTerminalStatus(wfStatus)
  /\ status[a] = "leased"
  /\ lease[a] # 0
  /\ status' = [status EXCEPT ![a] = "running"]
  /\ attempts' = [attempts EXCEPT ![a] = Append(@, "starting")]
  /\ UNCHANGED <<wfStatus, wfOutcome, created, node, selected, cause,
                 leaseVars, passed, keys, flightVars>>

\* The controller's dispatch: leased and started in one batch.
BeginDispatch(a) ==
  /\ ~isTerminalStatus(wfStatus)
  /\ claimableActivationStatus(status[a])
  /\ lease[a] = 0
  /\ node[a] \notin Runtimeless
  /\ claims[a] < MaxClaims
  /\ Grant(a)
  /\ status' = [status EXCEPT ![a] = "running"]
  /\ attempts' = [attempts EXCEPT ![a] = Append(@, "starting")]
  /\ UNCHANGED <<wfStatus, wfOutcome, created, node, selected, cause,
                 passed, keys, flightVars>>

\* The controller parks an auto external activation behind its bound gates.
ParkExternal(a) ==
  /\ node[a] \in AutoExternal
  /\ wfStatus # "canceled"
  /\ <<"park-external", a>> \notin keys
  /\ claimableActivationStatus(status[a])
  /\ lease[a] = 0
  /\ status' = [status EXCEPT ![a] = "awaiting_gate"]
  /\ selected' = [selected EXCEPT ![a] = SuccessOutcome[node[a]]]
  /\ keys' = keys \cup {<<"park-external", a>>}
  /\ UNCHANGED <<wfStatus, wfOutcome, created, node, cause, leaseVars,
                 attempts, passed, flightVars>>

-----------------------------------------------------------------------------
(***************************************************************************)
(* Completion: validated against one snapshot, committed against a later   *)
(* one.  Only the reducer's own checks are repeated at the commit.         *)
(***************************************************************************)
InFlight ==
  Cardinality(completing) + Cardinality(renewing) + Cardinality(unblocking)

\* commandComplete up to the staging of the evidence.
BeginComplete(a, k, o) ==
  /\ InFlight < MaxInFlight
  /\ k \in DOMAIN attempts[a]
  /\ <<"complete", a, k>> \notin keys
  /\ status[a] = "running"
  /\ lease[a] # 0
  /\ Target[node[a]][o] # Undeclared
  /\ node[a] \in NeedsTerminal => ~LiveAttempt(attempts[a][k])
  /\ completing' = completing \cup
       {[act |-> a, att |-> k, lease |-> lease[a], outcome |-> o]}
  /\ UNCHANGED <<wfStatus, wfOutcome, actVars, leaseVars, attempts, passed,
                 keys, renewing, unblocking>>

\* satisfyActivation: park behind missing gates, or satisfy and follow the
\* branch; an outcome without a target completes the workflow.
SatisfyActivation(a, o) ==
  LET gated  == unsatisfiedRequiredGates(a) # {}
      target == IF gated THEN NoNode ELSE Target[node[a]][o]
  IN /\ Branch(a, target)
     /\ status' = StatusAfter(a, IF gated THEN "awaiting_gate" ELSE "satisfied",
                              target)
     /\ selected' = [selected EXCEPT ![a] = o]
     /\ Release(a)
     /\ wfStatus' = IF gated \/ target \in Nodes THEN wfStatus ELSE "completed"
     /\ wfOutcome' = IF gated \/ target \in Nodes THEN wfOutcome ELSE o

\* The commit of a completion: applyCompleted and its transition.
CommitComplete(c) ==
  /\ <<"complete", c.act, c.att>> \notin keys
  /\ wfStatus # "canceled"
  /\ status[c.act] \in CompletableStatuses
  /\ LeaseAllows(c.act, c.lease)
  /\ SatisfyActivation(c.act, c.outcome)
  /\ keys' = keys \cup {<<"complete", c.act, c.att>>}
  /\ completing' = completing \ {c}
  /\ UNCHANGED <<attempts, passed, renewing, unblocking>>

\* A completion that is refused, loses every retry or dies with its process.
AbandonComplete(c) ==
  /\ completing' = completing \ {c}
  /\ UNCHANGED <<wfStatus, wfOutcome, actVars, leaseVars, attempts, passed,
                 keys, renewing, unblocking>>

-----------------------------------------------------------------------------
(***************************************************************************)
(* Attempt termination: the runtime reports the end of attempt k.          *)
(***************************************************************************)
RetryLeft(a) == Len(attempts[a]) < MaximumAttempts[node[a]]

\* Where a failed or canceled attempt leaves its activation.
StatusAfterFailure(a, result) ==
  CASE result = "canceled" -> "blocked"
    [] result # "canceled" /\ RetryLeft(a) -> "ready"
    [] result # "canceled" /\ ~RetryLeft(a) ->
         IF Exhaustion[node[a]] = "block" THEN "blocked" ELSE "attempt_failed"

\* markInstanceBlocked, and the instance failure of exhaustion "fail".
WfStatusAfterFailure(a, s) ==
  IF s = "blocked"
    THEN IF wfStatus \in {"active", "blocked"} THEN "blocked" ELSE wfStatus
    ELSE IF /\ s = "attempt_failed"
            /\ Exhaustion[node[a]] = "fail"
            /\ wfStatus = "active"
           THEN "failed" ELSE wfStatus

\* Mutant: a late failure regresses a satisfied activation.
PastTermination_NotSatisfied(a) == wfStatus \in {"completed", "canceled"}
\* Mutant: a late failure re-arms an activation of a canceled instance.
PastTermination_NotCanceled(a) ==
  status[a] = "satisfied" \/ wfStatus = "completed"

\* The activation is already past the attempt: only the fact is recorded.
PastTermination(a) ==
  status[a] = "satisfied" \/ wfStatus \in {"completed", "canceled"}

RecordTermination(a, k, result) ==
  /\ attempts' = [attempts EXCEPT ![a] = [@ EXCEPT ![k] = result]]
  /\ \/ /\ result = "succeeded" \/ PastTermination(a)
        /\ UNCHANGED <<wfStatus, status, selected, leaseVars>>
     \/ /\ result # "succeeded" /\ ~PastTermination(a)
        /\ LET s == StatusAfterFailure(a, result)
           IN /\ status' = [status EXCEPT ![a] = s]
              /\ wfStatus' = WfStatusAfterFailure(a, s)
              /\ selected' =
                   IF s = "attempt_failed" /\ Exhaustion[node[a]] = "outcome"
                     THEN [selected EXCEPT ![a] = ExhaustOutcome[node[a]]]
                     ELSE selected
        /\ Release(a)

RecordAttemptTermination(a, k, result) ==
  /\ node[a] \notin Runtimeless
  /\ k \in DOMAIN attempts[a]
  /\ <<"terminate", a, k>> \notin keys
  /\ keys' = keys \cup {<<"terminate", a, k>>}
  /\ \/ /\ ~LiveAttempt(attempts[a][k])
        /\ UNCHANGED <<wfStatus, status, selected, leaseVars, attempts>>
     \/ /\ LiveAttempt(attempts[a][k])
        /\ RecordTermination(a, k, result)
  /\ UNCHANGED <<wfOutcome, created, node, cause, passed, flightVars>>

-----------------------------------------------------------------------------
(***************************************************************************)
(* Heartbeats and the expiry of stale leases.                              *)
(***************************************************************************)
\* The renewed expiry is computed here, before the commit.
BeginHeartbeat(a) ==
  /\ InFlight < MaxInFlight
  /\ lease[a] # 0
  /\ renewing' = renewing \cup {[act |-> a, lease |-> lease[a], ttl |-> TTL]}
  /\ UNCHANGED <<wfStatus, wfOutcome, actVars, leaseVars, attempts, passed,
                 keys, completing, unblocking>>

CommitHeartbeat(h) ==
  /\ lease[h.act] = h.lease
  /\ expiry' = [expiry EXCEPT ![h.act] = h.ttl]
  /\ renewing' = renewing \ {h}
  /\ UNCHANGED <<wfStatus, wfOutcome, actVars, lease, claims, attempts,
                 passed, keys, completing, unblocking>>

AbandonHeartbeat(h) ==
  /\ renewing' = renewing \ {h}
  /\ UNCHANGED <<wfStatus, wfOutcome, actVars, leaseVars, attempts, passed,
                 keys, completing, unblocking>>

Down(t) == IF t >= 0 THEN t - 1 ELSE t

\* One tick of the clock.
Tick ==
  /\ \/ \E a \in Acts : lease[a] # 0 /\ expiry[a] >= 0
     \/ \E h \in renewing : h.ttl >= 0
  /\ expiry' = [a \in Acts |-> IF lease[a] # 0 THEN Down(expiry[a])
                                               ELSE expiry[a]]
  /\ renewing' = {[h EXCEPT !.ttl = Down(@)] : h \in renewing}
  /\ UNCHANGED <<wfStatus, wfOutcome, actVars, lease, claims, attempts,
                 passed, keys, completing, unblocking>>

\* Mutant: the sweep reclaims only activations that were never started.
StaleLeases_LeasedOnly ==
  {a \in Acts : lease[a] # 0 /\ expiry[a] < 0 /\ status[a] = "leased"}

StaleLeases == {a \in Acts : lease[a] # 0 /\ expiry[a] < 0}

\* Mutant: the sweep leaves the crashed holder's attempt live.
ExpiredAttempt_Left(s) == s
\* Mutant: the sweep rewrites attempts that already ended.
ExpiredAttempt_All(s) == "timed_out"

ExpiredAttempt(s) == IF LiveAttempt(s) THEN "timed_out" ELSE s

\* One sweep, live or at recovery, expires every stale lease of the instance.
SweepStaleLeases ==
  /\ StaleLeases # {}
  /\ status' = [a \in Acts |-> IF a \in StaleLeases THEN "lease_expired"
                                                    ELSE status[a]]
  /\ attempts' =
       [a \in Acts |->
          IF a \in StaleLeases
            THEN [k \in DOMAIN attempts[a] |-> ExpiredAttempt(attempts[a][k])]
            ELSE attempts[a]]
  /\ lease' = [a \in Acts |-> IF a \in StaleLeases THEN 0 ELSE lease[a]]
  /\ expiry' = [a \in Acts |-> IF a \in StaleLeases THEN 0 ELSE expiry[a]]
  /\ UNCHANGED <<wfStatus, wfOutcome, created, node, selected, cause, claims,
                 passed, keys, flightVars>>

-----------------------------------------------------------------------------
(***************************************************************************)
(* Unblock.  The idempotency key names the block episode by the number of  *)
(* attempts seen at validation.                                            *)
(***************************************************************************)
\* Mutant: one permanent key per activation.
EpisodeKey_Permanent(a) == <<"unblock", a, 0>>

EpisodeKey(a) == <<"unblock", a, Len(attempts[a])>>

\* Mutant: the other branches are not looked at.
instanceHasBlockedActivation_None(a) == FALSE

\* Whether an activation stays blocked when a is re-armed.
instanceHasBlockedActivation(a) ==
  \E b \in Acts \ {a} : status[b] = "blocked"

BeginUnblock(a) ==
  /\ InFlight < MaxInFlight
  /\ EpisodeKey(a) \notin keys
  /\ status[a] = "blocked"
  /\ unblocking' = unblocking \cup {[act |-> a, key |-> EpisodeKey(a)]}
  /\ UNCHANGED <<wfStatus, wfOutcome, actVars, leaseVars, attempts, passed,
                 keys, completing, renewing>>

CommitUnblock(u) ==
  /\ u.key \notin keys
  /\ wfStatus # "canceled"
  /\ status[u.act] = "blocked"
  /\ status' = [status EXCEPT ![u.act] = "ready"]
  /\ wfStatus' = IF /\ wfStatus = "blocked"
                    /\ ~instanceHasBlockedActivation(u.act)
                   THEN "active" ELSE wfStatus
  /\ keys' = keys \cup {u.key}
  /\ unblocking' = unblocking \ {u}
  /\ UNCHANGED <<wfOutcome, created, node, selected, cause, leaseVars,
                 attempts, passed, completing, renewing>>

AbandonUnblock(u) ==
  /\ unblocking' = unblocking \ {u}
  /\ UNCHANGED <<wfStatus, wfOutcome, actVars, leaseVars, attempts, passed,
                 keys, completing, renewing>>

-----------------------------------------------------------------------------
(***************************************************************************)
(* Gate decisions.  A decision is [gate, op, result, outcome]: result is   *)
(* the durable gate status, outcome the one the request names or NoOutcome.*)
(* "advisory" stands for action_required and changes_requested.  A skip is *)
(* a loop of waive decisions.                                              *)
(***************************************************************************)
Operations ==
  [op : {"satisfy"}, result : {"passed"}] \cup
  [op : {"waive"}, result : {"waived"}] \cup
  [op : {"reject"}, result : {"rejected"}] \cup
  [op : {"external_result"}, result : ExternalResults]

\* Bound external results are keyed by a poll ID that every poll has anew, and
\* a result that keeps an unbound gate parked changes nothing that a second
\* one could repeat: neither key is kept.
GateKeys(a, g, d) ==
  IF d.op = "external_result" /\ (g \in Bound \/ d.result \in {"pending", "advisory"})
    THEN {} ELSE {<<"gate", d.op, d.result, g, a>>}

Passing(d) == d.result \in {"passed", "waived"}

\* Mutant: the first gate that passes resolves the activation.
ResolvesGates_First(a, g, d) == Passing(d)

\* Every required gate is passed or waived once this decision counts.
ResolvesGates(a, g, d) ==
  Passing(d) /\ Required[node[a]] \subseteq passed[a] \cup {g}

\* gateTransitionPayload: the outcome whose branch the decision follows,
\* NoOutcome when it carries no transition.
GateRoute(a, g, d, o) ==
  LET targeted(x) == x \in Outcomes /\ Target[node[a]][x] \in Nodes
      mapped == ResultOutcome[g][d.result]
  IN CASE ResolvesGates(a, g, d) ->
            IF d.result = "passed" /\ node[a] \in AutoExternal
              THEN SuccessOutcome[node[a]]
              ELSE IF o # NoOutcome THEN o ELSE selected[a]
       [] ~Passing(d) /\ d.op = "external_result" /\ g \in Bound ->
            IF d.result # "pending" /\ targeted(mapped) THEN mapped ELSE NoOutcome
       [] ~Passing(d) /\ d.result \in {"rejected", "failed"}
            /\ ~(d.op = "external_result" /\ g \in Bound) ->
            IF targeted(o) THEN o ELSE NoOutcome
       [] OTHER -> NoOutcome

\* The branch target of the decision, NoNode without a transition.
GateTarget(a, g, d, o) ==
  LET x == GateRoute(a, g, d, o)
  IN IF x = NoOutcome THEN NoNode ELSE Target[node[a]][x]

\* applyGate: the activation's status after the decision.
GateStatus(a, g, d, target) ==
  CASE Passing(d) ->
         IF ResolvesGates(a, g, d) THEN "satisfied" ELSE "awaiting_gate"
    [] d.result = "rejected" -> "rejected"
    [] d.result = "failed" ->
         IF target \in Nodes \/ g \notin Bound THEN "rejected" ELSE "awaiting_gate"
    [] d.result \in {"pending", "advisory"} ->
         IF target \in Nodes /\ d.result # "pending" THEN "rejected"
                                                     ELSE "awaiting_gate"

\* The effect on an instance that is not completed or failed.
SettleGate(a, g, d, o, target) ==
  LET picked == IF ResolvesGates(a, g, d) THEN GateRoute(a, g, d, o) ELSE o
      done   == ResolvesGates(a, g, d) /\ target \notin Nodes
  IN /\ passed' = IF Passing(d) THEN [passed EXCEPT ![a] = @ \cup {g}] ELSE passed
     /\ selected' = IF Passing(d) /\ picked # NoOutcome
                      THEN [selected EXCEPT ![a] = picked] ELSE selected
     /\ status' = StatusAfter(a, GateStatus(a, g, d, target), target)
     /\ wfStatus' = IF done THEN "completed" ELSE wfStatus
     /\ wfOutcome' = IF done THEN selected'[a] ELSE wfOutcome

\* A completed or failed instance drops the decision; the transition event of
\* the same batch is applied all the same.
DropGate(a, target) ==
  /\ status' = StatusAfter(a, status[a], target)
  /\ UNCHANGED <<wfStatus, wfOutcome, selected, passed>>

GateDecision(a, g, d, o) ==
  LET target == GateTarget(a, g, d, o)
  IN /\ status[a] = "awaiting_gate"
     /\ GateKeys(a, g, d) \cap keys = {}
     /\ wfStatus # "canceled"
     /\ ResolvesGates(a, g, d) => GateRoute(a, g, d, o) # NoOutcome
     /\ target # Undeclared
     /\ Branch(a, target)
     /\ \/ /\ wfStatus \notin {"completed", "failed"}
           /\ SettleGate(a, g, d, o, target)
        \/ /\ wfStatus \in {"completed", "failed"}
           /\ DropGate(a, target)
     /\ keys' = keys \cup GateKeys(a, g, d)
     /\ UNCHANGED <<leaseVars, attempts, flightVars>>

-----------------------------------------------------------------------------
(***************************************************************************)
(* Cancel: every lease is released and every open activation parks.        *)
(***************************************************************************)
WorkflowCancel ==
  /\ <<"cancel">> \notin keys
  /\ ~isTerminalStatus(wfStatus)
  /\ wfStatus' = "canceled"
  /\ status' = [a \in Acts |-> IF a <= created /\ status[a] \notin CancelKeeps
                                 THEN "canceled" ELSE status[a]]
  /\ lease' = [a \in Acts |-> 0]
  /\ expiry' = [a \in Acts |-> 0]
  /\ keys' = keys \cup {<<"cancel">>}
  /\ UNCHANGED <<wfOutcome, created, node, selected, cause, claims, attempts,
                 passed, flightVars>>

-----------------------------------------------------------------------------
CommandOn(a) ==
  \/ Claim(a)
  \/ Start(a)
  \/ BeginDispatch(a)
  \/ ParkExternal(a)
  \/ \E k \in DOMAIN attempts[a] :
       \/ \E o \in Outcomes : BeginComplete(a, k, o)
       \/ \E r \in RunResults : RecordAttemptTermination(a, k, r)
  \/ BeginHeartbeat(a)
  \/ BeginUnblock(a)
  \/ \E g \in Gates[node[a]], d \in Operations, o \in Outcomes \cup {NoOutcome} :
       GateDecision(a, g, d, o)

Next ==
  \/ \E a \in Existing : CommandOn(a)
  \/ \E c \in completing : CommitComplete(c) \/ AbandonComplete(c)
  \/ \E h \in renewing : CommitHeartbeat(h) \/ AbandonHeartbeat(h)
  \/ \E u \in unblocking : CommitUnblock(u) \/ AbandonUnblock(u)
  \/ WorkflowCancel
  \/ SweepStaleLeases
  \/ Tick

Spec == Init /\ [][Next]_vars

\* The clock advances and the supervisor keeps sweeping.
FairSpec == Spec /\ WF_vars(Tick) /\ WF_vars(SweepStaleLeases)

-----------------------------------------------------------------------------
(***************************************************************************)
(* Properties.                                                             *)
(***************************************************************************)
Completions ==
  [act : Acts, att : Nat, lease : 1..MaxClaims, outcome : Outcomes]
Heartbeats == [act : Acts, lease : 1..MaxClaims, ttl : -1..TTL]

InstanceTypeOK ==
  /\ wfStatus \in WorkflowStatuses
  /\ wfOutcome \in Outcomes \cup {NoOutcome}
ActivationTypeOK ==
  /\ created \in 0..MaxActivations
  /\ node \in [Acts -> Nodes \cup {NoNode}]
  /\ \A a \in Existing : node[a] \in Nodes
  /\ status \in [Acts -> ActivationStatuses]
  /\ \A a \in Acts : status[a] = "absent" <=> a > created
  /\ selected \in [Acts -> Outcomes \cup {NoOutcome}]
  /\ cause \in [Acts -> 0..MaxActivations]
LeaseTypeOK ==
  /\ lease \in [Acts -> 0..MaxClaims]
  /\ claims \in [Acts -> 0..MaxClaims]
  /\ expiry \in [Acts -> -1..TTL]
FactTypeOK ==
  /\ attempts \in [Acts -> Seq(AttemptStatuses)]
  /\ passed \in [Acts -> SUBSET GateIds]
FlightTypeOK ==
  /\ completing \subseteq Completions
  /\ renewing \subseteq Heartbeats
  /\ \A u \in unblocking : u.act \in Existing

\* The type invariant: every field holds a value the Go type and the bounds
\* allow.
TypeOK ==
  InstanceTypeOK /\ ActivationTypeOK /\ LeaseTypeOK /\ FactTypeOK /\ FlightTypeOK

PastStart == {"running", "awaiting_gate", "satisfied", "rejected", "canceled"}

\* No second worker: an activation that is claimable, leased, blocked or out
\* of retries has no live attempt, and a live attempt is always the newest
\* one.  It is what lets a late report of an old attempt be ignored, and what
\* keeps a re-armed node from running twice (applyStarted, applyLeaseExpired,
\* applyAttemptTerminated).
OneWorker ==
  \A a \in Acts : \A k \in DOMAIN attempts[a] :
    LiveAttempt(attempts[a][k]) =>
      k = Len(attempts[a]) /\ status[a] \in PastStart

\* A lease exists exactly while a worker may act under it: no path that ends
\* an activation's work leaves a lease behind that would block the next claim,
\* and no leased or running activation is without the lease that the sweep
\* needs to reclaim it.
LeaseIffHeld ==
  \A a \in Acts : (lease[a] # 0) <=> (status[a] \in {"leased", "running"})

\* An unblock is never mistaken for a duplicate: whenever an activation is
\* blocked, the idempotency key of this block episode is unused, so the
\* operator's next unblock takes effect (commandUnblock's episode key).
UnblockNotSwallowed ==
  \A a \in Acts : status[a] = "blocked" => EpisodeKey(a) \notin keys

\* A blocked activation is visible: the instance that holds one never reports
\* active (docs: "the instance reports blocked").
BlockSurfaces ==
  (\E a \in Acts : status[a] = "blocked") => wfStatus # "active"

\* Satisfaction is earned: a satisfied activation was explicitly completed by
\* one of its attempts, or parked as an auto external node, and every gate it
\* requires was passed or waived.  A successful run alone never satisfies it.
SatisfiedIsEarned ==
  \A a \in Acts : status[a] = "satisfied" =>
    /\ \/ \E k \in DOMAIN attempts[a] : <<"complete", a, k>> \in keys
       \/ <<"park-external", a>> \in keys
    /\ Required[node[a]] \subseteq passed[a]

\* A canceled instance is final: no command, late completion, unblock, gate
\* decision or sweep moves an activation, grants a lease or adds one.
CanceledIsFinal ==
  [][wfStatus = "canceled" =>
       UNCHANGED <<wfStatus, wfOutcome, created, status, selected, lease>>]_vars

\* A satisfied activation keeps its status and its outcome whatever arrives
\* late: a second completion, a termination, a gate decision, a cancel.
SatisfiedIsFinal ==
  [][\A a \in Acts : status[a] = "satisfied" =>
       status'[a] = "satisfied" /\ selected'[a] = selected[a]]_vars

\* The first terminal fact of an attempt stands: neither a sweep nor a second
\* report rewrites it, and attempts are never dropped.
AttemptFactsStand ==
  [][\A a \in Acts : \A k \in DOMAIN attempts[a] :
       /\ k \in DOMAIN attempts'[a]
       /\ ~LiveAttempt(attempts[a][k]) => attempts'[a][k] = attempts[a][k]]_vars

\* A holder that stops renewing cannot keep its activation: a held lease is
\* eventually released, with no restart, unless another heartbeat arrives.
SilentHolderReclaimed ==
  \A a \in Acts :
    (lease[a] # 0) ~> (lease[a] = 0 \/ \E h \in renewing : h.act = a)
=============================================================================
