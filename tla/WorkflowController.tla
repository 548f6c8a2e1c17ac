-------------------------- MODULE WorkflowController --------------------------
(***************************************************************************)
(* One workflow controller, shared by the supervisors that use the same    *)
(* workflow root: the leader lease of its record (workflowcontroller:      *)
(* store.go), the leader loop of each supervisor (runner.go, policy.go),   *)
(* the candidate index the loop selects from (workflow: manager.go) and    *)
(* the dispatch boundary (stable: dispatch.go, supervisor.go; workflow:    *)
(* dispatch.go, commandStart of manager.go).                               *)
(*                                                                         *)
(* A work item is a workflow instance with one auto-dispatched provider    *)
(* activation; what happens inside an instance is in WorkflowKernel.  Its  *)
(* snapshot is a revision, a status and who started the live attempt.      *)
(* Two flocks matter because they are held across several steps: ctlLock   *)
(* of the controller and dspLock, the dispatch.lock of the root.           *)
(***************************************************************************)
EXTENDS Naturals, FiniteSets

CONSTANTS
  Sups,         \* supervisors, each with its own process and index
  None,         \* no supervisor, nobody
  Items,        \* work items
  Key,          \* item -> concurrency key
  Manual,       \* items that an operator also claims, starts and cancels
  MaxInflight,  \* max_inflight of the controller
  MaxRuntimes,  \* admission limit of a supervisor
  MaxRevision,  \* bound: an item at this revision has used up its retries
  AntiEntropy,  \* bound: whether the anti-entropy interval ever passes
  MaxDisruptions \* bound: disables, crashes, leases that lapse under a leader

ASSUME ControllerAssumption ==
  /\ None \notin Sups /\ None \notin {"ctl", "manual"}
  /\ None \notin Sups \X Items \X Nat
  /\ Manual \subseteq Items
  /\ MaxInflight \in Nat \ {0} /\ MaxRuntimes \in Nat
  /\ AntiEntropy \in BOOLEAN
  /\ MaxRevision \in Nat /\ MaxDisruptions \in Nat

VARIABLES
  desired,   \* DesiredState is enabled
  leader,    \* owner of the lease in the record, None when nil
  epoch,     \* OwnerEpoch, the lease ID of the newest lease
  lapsed,    \* the lease in the record is past its expiry
  ctlLock,   \* the dispatch that holds the controller's flock
  dspLock,   \* the dispatch that holds dispatch.lock
  item,      \* the committed snapshots of the work items
  pc,        \* where the loop of each supervisor is
  mine,      \* the epoch a loop believes it leads
  blocked,   \* leaderState.blockedSource is set
  due,       \* the loop's next pass has to refresh the index
  plan,      \* decisions of the pass that are not handed off yet
  view,      \* candidate index of each supervisor
  recent,    \* the index was rebuilt less than a refresh window ago
  scan,      \* what a running catalog scan has read
  jobs,      \* dispatches under way, up to the receipt of their result
  reserved,  \* outstandingReservations
  runtimes,  \* items with a runtime in the supervisor
  disruptions \* disruptions so far

recordVars == <<desired, leader, epoch, lapsed>>
lockVars == <<ctlLock, dspLock>>
loopVars == <<pc, mine, blocked, due, plan>>
indexVars == <<view, recent, scan>>
slotVars == <<reserved, runtimes>>
vars == <<recordVars, lockVars, item, loopVars, indexVars, jobs, slotVars,
          disruptions>>

-----------------------------------------------------------------------------
(***************************************************************************)
(* Snapshots and the candidate index.                                      *)
(***************************************************************************)
\* An item is ready, leased, running, or closed: completed, canceled or out of
\* retries, no longer startable.
Snapshot(rev, st, by) == [rev |-> rev, st |-> st, by |-> by]

Live(x) == x.st = "running"
Nothing == [i \in {} |-> Snapshot(0, "ready", None)]

\* A commit by the process of supervisor s, and the commit hook (observeCommit)
\* that puts the snapshot in the index of that process only.  The command
\* returns after its hook, and an older snapshot never replaces a newer one, so
\* a hook that is late is a commit that is late.
CommitItem(s, i, st, by) ==
  LET x == Snapshot(item[i].rev + 1, st, by)
  IN /\ item' = [item EXCEPT ![i] = x]
     /\ view' = [view EXCEPT ![s][i] = x]

\* The item's lease has run out: nobody works on it and nobody renews.
Abandoned(i) ==
  /\ item[i].st \in {"leased", "running"}
  /\ \A s \in Sups : i \notin runtimes[s]
  /\ \A w \in jobs : ~(w.item = i /\ (w.step = "begun" \/ w.epoch = 0))

Expired(i) == Snapshot(item[i].rev + 1, "ready", None)

\* recoverInstance: a lease found stale is expired, and no hook runs.
Recovered(i) == {item[i]} \cup (IF Abandoned(i) THEN {Expired(i)} ELSE {})

\* Refresh and RebuildCandidateIndex: a rebuild, for this controller or for
\* another one of the supervisor, recovers the instances one by one ...
ScanItem(s, i) ==
  /\ pc[s] # "down"
  /\ ~recent[s]
  /\ i \notin DOMAIN scan[s]
  /\ \E x \in Recovered(i) :
       /\ item' = [item EXCEPT ![i] = x]
       /\ scan' = [scan EXCEPT ![s] =
                     [j \in DOMAIN @ \cup {i} |-> IF j = i THEN x ELSE @[j]]]
  /\ UNCHANGED <<recordVars, lockVars, loopVars, view, recent, jobs, slotVars,
                 disruptions>>

\* ... and then replaces the whole index.
Rebuild(s) ==
  /\ DOMAIN scan[s] = Items
  /\ view' = [view EXCEPT ![s] = scan[s]]
  /\ recent' = [recent EXCEPT ![s] = TRUE]
  /\ scan' = [scan EXCEPT ![s] = Nothing]
  /\ UNCHANGED <<recordVars, lockVars, item, loopVars, jobs, slotVars,
                 disruptions>>

\* The anti-entropy interval, which is also the refresh window, passes.
Elapse(s) ==
  /\ AntiEntropy
  /\ recent[s]
  /\ due[s] => pc[s] # "lead"
  /\ recent' = [recent EXCEPT ![s] = FALSE]
  /\ due' = [due EXCEPT ![s] = TRUE]
  /\ UNCHANGED <<recordVars, lockVars, item, pc, mine, blocked, plan, view,
                 scan, jobs, slotVars, disruptions>>

-----------------------------------------------------------------------------
Init ==
  /\ desired = FALSE /\ leader = None /\ epoch = 0 /\ lapsed = FALSE
  /\ ctlLock = None /\ dspLock = None
  /\ item = [i \in Items |-> Snapshot(1, "ready", None)]
  /\ pc = [s \in Sups |-> "off"]
  /\ mine = [s \in Sups |-> 0]
  /\ blocked = [s \in Sups |-> FALSE]
  /\ due = [s \in Sups |-> TRUE]
  /\ plan = [s \in Sups |-> {}]
  /\ view = [s \in Sups |-> item]
  /\ recent = [s \in Sups |-> TRUE]
  /\ scan = [s \in Sups |-> Nothing]
  /\ jobs = {}
  /\ reserved = [s \in Sups |-> 0]
  /\ runtimes = [s \in Sups |-> {}]
  /\ disruptions = 0

-----------------------------------------------------------------------------
(***************************************************************************)
(* The record: enable, disable and the leader lease.                       *)
(***************************************************************************)
Disrupt ==
  /\ disruptions < MaxDisruptions
  /\ disruptions' = disruptions + 1

Holds(s) == leader = s /\ epoch = mine[s]

\* The loop of s stops leading; a new lease starts from this state.
Rest(s, where) ==
  /\ pc' = [pc EXCEPT ![s] = where]
  /\ mine' = [mine EXCEPT ![s] = 0]
  /\ blocked' = [blocked EXCEPT ![s] = FALSE]
  /\ due' = [due EXCEPT ![s] = TRUE]
  /\ plan' = [plan EXCEPT ![s] = {}]

\* WorkflowControllerEnable: a loop that is still there is not replaced.
Enable(s) ==
  /\ pc[s] \notin {"down", "stopping"}
  /\ ctlLock = None
  /\ desired' = TRUE
  /\ pc' = [pc EXCEPT ![s] = IF @ = "off" THEN "follow" ELSE @]
  /\ UNCHANGED <<leader, epoch, lapsed, lockVars, item, mine, blocked, due,
                 plan, indexVars, jobs, slotVars, disruptions>>

\* WorkflowControllerDisable: the lease is released with the same commit, then
\* the loop of this process is stopped; Drain ends the wait for it.
Disable(s) ==
  /\ Disrupt
  /\ pc[s] \notin {"down", "stopping"}
  /\ ctlLock = None
  /\ desired' = FALSE
  /\ leader' = None /\ lapsed' = FALSE
  /\ Rest(s, IF pc[s] = "off" THEN "off" ELSE "stopping")
  /\ UNCHANGED <<epoch, lockVars, item, indexVars, jobs, slotVars>>

\* acquire: a disabled controller ends the loop; otherwise the lease is
\* granted once there is none or it has expired.
Acquire(s) ==
  /\ pc[s] = "follow"
  /\ ctlLock = None
  /\ \/ /\ ~desired
        /\ pc' = [pc EXCEPT ![s] = "leaving"]
        /\ UNCHANGED <<leader, epoch, lapsed, mine, blocked, due>>
     \/ /\ desired /\ (leader = None \/ lapsed)
        /\ leader' = s /\ epoch' = epoch + 1 /\ lapsed' = FALSE
        /\ pc' = [pc EXCEPT ![s] = "lead"]
        /\ mine' = [mine EXCEPT ![s] = epoch + 1]
        /\ blocked' = [blocked EXCEPT ![s] = FALSE]
        /\ due' = [due EXCEPT ![s] = TRUE]
  /\ UNCHANGED <<desired, lockVars, item, plan, indexVars, jobs, slotVars,
                 disruptions>>

\* The loop of a stopped or disabled controller has received every result.
Drain(s) ==
  /\ pc[s] \in {"stopping", "leaving"}
  /\ \A w \in jobs : w.sup = s => w.epoch = 0
  /\ pc' = [pc EXCEPT ![s] = "off"]
  /\ UNCHANGED <<recordVars, lockVars, item, mine, blocked, due, plan,
                 indexVars, jobs, slotVars, disruptions>>

Renewing(s) == pc[s] = "lead" /\ Holds(s)

\* The lease expires because nobody renews it ...
Lapse ==
  /\ leader # None /\ ~lapsed /\ ~Renewing(leader)
  /\ lapsed' = TRUE
  /\ UNCHANGED <<desired, leader, epoch, lockVars, item, loopVars, indexVars,
                 jobs, slotVars, disruptions>>

\* ... or under a leader that is too slow.
LapseLate ==
  /\ leader # None /\ ~lapsed /\ Renewing(leader)
  /\ Disrupt
  /\ lapsed' = TRUE
  /\ UNCHANGED <<desired, leader, epoch, lockVars, item, loopVars, indexVars,
                 jobs, slotVars>>

-----------------------------------------------------------------------------
(***************************************************************************)
(* The leader loop.                                                        *)
(***************************************************************************)
\* Select: the candidates that the in-flight attempts leave room for, those of
\* the index and those handed to workers that have not reported (an attempt
\* that is both counts twice).  The aged priority decides which are first.
Unreported(s) == {w.item : w \in {x \in jobs : x.sup = s /\ x.epoch # 0}}
Dispatched(s) == {i \in Items : Live(view[s][i]) /\ view[s][i].by = "ctl"}
ActiveCount(s) == Cardinality(Dispatched(s)) + Cardinality(Unreported(s))
HeldKeys(s) == {Key[i] : i \in Dispatched(s) \cup Unreported(s)}

Selections(s) ==
  LET eligible == {i \in Items : /\ view[s][i].st = "ready"
                                 /\ i \notin Unreported(s)
                                 /\ Key[i] \notin HeldKeys(s)}
      fits(c) == /\ c # {} => Cardinality(c) + ActiveCount(s) <= MaxInflight
                 /\ \A i, j \in c : i # j => Key[i] # Key[j]
  IN {c \in SUBSET eligible : fits(c) /\ \A i \in eligible \ c : ~fits(c \cup {i})}

\* dropLeadership: the loop forgets the lease; the record keeps it.
Drop(s) == Rest(s, "follow")

\* Mutant: only a capacity signal clears the block.
Unblocks_SignalOnly(s, signal) == signal

\* A capacity block is cleared by a refresh or by a capacity signal.
Unblocks(s, signal) == due[s] \/ signal

\* A pass: renew, refresh when due, clear the capacity block on a refresh or a
\* capacity signal, and select unless the block remains.
Pass(s, signal) ==
  /\ pc[s] = "lead" /\ plan[s] = {}
  /\ ctlLock = None
  /\ \/ /\ ~Holds(s)
        /\ Drop(s)
        /\ UNCHANGED lapsed
     \/ /\ Holds(s)
        /\ due[s] => recent[s]
        /\ lapsed' = FALSE
        /\ due' = [due EXCEPT ![s] = FALSE]
        /\ LET clear == blocked[s] => Unblocks(s, signal)
           IN /\ blocked' = [blocked EXCEPT ![s] = ~clear]
              /\ \E c \in IF clear THEN Selections(s) ELSE {{}} :
                   plan' = [plan EXCEPT ![s] =
                              {[item |-> i, rev |-> view[s][i].rev] : i \in c}]
        /\ UNCHANGED <<pc, mine>>
  /\ UNCHANGED <<desired, leader, epoch, lockVars, item, indexVars, jobs,
                 slotVars, disruptions>>

\* One hand-off of the pass: the lease is renewed first; a capacity block that
\* a result brought in the meantime ends the pass.
HandOff(s, d) ==
  /\ pc[s] = "lead" /\ d \in plan[s]
  /\ \/ /\ blocked[s]
        /\ plan' = [plan EXCEPT ![s] = {}]
        /\ UNCHANGED <<lapsed, pc, mine, blocked, due, jobs>>
     \/ /\ ~blocked[s] /\ ctlLock = None /\ ~Holds(s)
        /\ Drop(s)
        /\ UNCHANGED <<lapsed, jobs>>
     \/ /\ ~blocked[s] /\ ctlLock = None /\ Holds(s)
        /\ lapsed' = FALSE
        /\ plan' = [plan EXCEPT ![s] = @ \ {d}]
        /\ jobs' = jobs \cup {[sup |-> s, item |-> d.item, rev |-> d.rev,
                               epoch |-> mine[s], step |-> "new"]}
        /\ UNCHANGED <<pc, mine, blocked, due>>
  /\ UNCHANGED <<desired, leader, epoch, lockVars, item, indexVars, slotVars,
                 disruptions>>

\* The results of a dispatch; the loop treats a stale candidate, a held key, a
\* failed start and a canceled dispatch alike.
Results == {"dispatched", "capacity", "not_leader", "other"}

\* receiveResult and handleResult.  A loop that drains only receives, and what
\* a result changes in a loop without a lease, the next lease resets.
HandleResult(s, w) ==
  /\ w \in jobs /\ w.sup = s /\ w.step \in Results
  /\ jobs' = jobs \ {w}
  /\ \/ /\ pc[s] # "lead" \/ w.step = "other"
        /\ UNCHANGED loopVars
     \/ /\ pc[s] = "lead" /\ w.step = "not_leader"
        /\ Drop(s)
     \/ /\ pc[s] = "lead" /\ w.step \in {"dispatched", "capacity"}
        /\ blocked' = [blocked EXCEPT ![s] = (w.step = "capacity")]
        /\ UNCHANGED <<pc, mine, due, plan>>
  /\ UNCHANGED <<recordVars, lockVars, item, indexVars, slotVars, disruptions>>

-----------------------------------------------------------------------------
(***************************************************************************)
(* The dispatch boundary.  A dispatch of epoch 0 is an operator's start of *)
(* an item that the operator has claimed: it does not pass the admission   *)
(* and the leader check.                                                   *)
(***************************************************************************)
Id(w) == <<w.sup, w.item, w.epoch>>
Job(w, step) == (jobs \ {w}) \cup {[w EXCEPT !.step = step]}
Canceled(w) == w.epoch # 0 /\ pc[w.sup] = "stopping"
Room(s) == reserved[s] + Cardinality(runtimes[s]) < MaxRuntimes

\* The steps at which a dispatch owns its admission reservation.
Holding == {"admitted", "leading", "checked", "begun"}
Reservation(w) == IF w.epoch # 0 THEN 1 ELSE 0

\* Mutant: the reservation is not released.
ReleaseSlot_Leaked(w) == UNCHANGED reserved

\* The deferred Release of the reservation.
ReleaseSlot(w) ==
  reserved' = [reserved EXCEPT ![w.sup] = @ - Reservation(w)]

\* A dispatch that ends without an attempt; a manual start just returns.
Finish(w, result) ==
  jobs' = IF w.epoch = 0 THEN jobs \ {w} ELSE Job(w, result)

\* reserveAdmission, between two looks at the context.
ReserveAdmission(w) ==
  /\ w.step = "new"
  /\ \/ /\ Canceled(w)
        /\ Finish(w, "other")
        /\ UNCHANGED reserved
     \/ /\ ~Canceled(w) /\ ~Room(w.sup)
        /\ Finish(w, "capacity")
        /\ UNCHANGED reserved
     \/ /\ ~Canceled(w) /\ Room(w.sup)
        /\ reserved' = [reserved EXCEPT ![w.sup] = @ + 1]
        /\ jobs' = Job(w, "admitted")
  /\ UNCHANGED <<recordVars, lockVars, item, loopVars, indexVars, runtimes,
                 disruptions>>

LeaderIs(w) == desired /\ leader = w.sup /\ epoch = w.epoch /\ ~lapsed

\* Mutant: the flock is released before the dispatch begins.
KeepControllerLock_Released(w) == UNCHANGED ctlLock

KeepControllerLock(w) == ctlLock' = Id(w)

\* WithLeader: the controller's flock stays held while the dispatch begins.
WithLeader(w) ==
  /\ w.step = "admitted"
  /\ \/ /\ Canceled(w)
        /\ Finish(w, "other") /\ ReleaseSlot(w)
        /\ UNCHANGED ctlLock
     \/ /\ ~Canceled(w) /\ ctlLock = None /\ ~LeaderIs(w)
        /\ Finish(w, "not_leader") /\ ReleaseSlot(w)
        /\ UNCHANGED ctlLock
     \/ /\ ~Canceled(w) /\ ctlLock = None /\ LeaderIs(w)
        /\ KeepControllerLock(w)
        /\ jobs' = Job(w, "leading")
        /\ UNCHANGED reserved
  /\ UNCHANGED <<recordVars, dspLock, item, loopVars, indexVars, runtimes,
                 disruptions>>

\* heldConcurrencyKeys: read from the committed snapshots, without the item's
\* own attempts and without the instances that are terminal.
KeyHeld(i) == \E j \in Items \ {i} : Live(item[j]) /\ Key[j] = Key[i]

\* Mutant: the expected revision is not compared.
AtRevision_Ignored(w) == TRUE

AtRevision(w) == item[w.item].rev = w.rev

\* What a start needs of its item: the candidate's revision and a claimable
\* status, or the operator's own lease.
Startable(w) ==
  /\ AtRevision(w)
  /\ item[w.item].st = IF w.epoch = 0 THEN "leased" ELSE "ready"

Unlock(w) ==
  /\ ctlLock' = IF ctlLock = Id(w) THEN None ELSE ctlLock
  /\ dspLock' = IF dspLock = Id(w) THEN None ELSE dspLock

\* Mutant: the keys are read without the lock.
LockDispatch_None(w) == UNCHANGED dspLock

LockDispatch(w) == dspLock' = Id(w)

\* BeginDispatch and commandStart up to the commit: dispatch.lock is taken and
\* the item and the keys are read under it.
CheckStart(w) ==
  /\ w.step = "leading"
  /\ dspLock = None
  /\ \/ /\ ~Startable(w)
        /\ Finish(w, "other") /\ ReleaseSlot(w) /\ Unlock(w)
     \/ /\ Startable(w) /\ KeyHeld(w.item)
        /\ Finish(w, "other") /\ ReleaseSlot(w) /\ Unlock(w)
     \/ /\ Startable(w) /\ ~KeyHeld(w.item)
        /\ LockDispatch(w)
        /\ jobs' = Job(w, "checked")
        /\ UNCHANGED <<ctlLock, reserved>>
  /\ UNCHANGED <<recordVars, item, loopVars, indexVars, runtimes, disruptions>>

\* The commit, at the revision that was read; both locks are released.
CommitStart(w) ==
  /\ w.step = "checked"
  /\ \/ /\ ~AtRevision(w)
        /\ Finish(w, "other") /\ ReleaseSlot(w)
        /\ UNCHANGED <<item, view>>
     \/ /\ AtRevision(w)
        /\ CommitItem(w.sup, w.item, "running", IF w.epoch = 0 THEN "manual" ELSE "ctl")
        /\ jobs' = Job(w, "begun")
        /\ UNCHANGED reserved
  /\ Unlock(w)
  /\ UNCHANGED <<recordVars, loopVars, recent, scan, runtimes, disruptions>>

\* Where a failed attempt leaves its item: for a retry, or out of retries.
AfterFailure(i) == IF item[i].rev < MaxRevision THEN "ready" ELSE "closed"

\* The commit of a terminal attempt fact; a canceled instance keeps its status.
Terminate(s, i, st) ==
  CommitItem(s, i, IF item[i].st = "running" THEN st ELSE item[i].st, None)

\* FinalizeDispatch commits the identity of the runtime; a manual start does
\* not call it.
FinalizeDispatch(w) ==
  \/ /\ w.epoch = 0
     /\ UNCHANGED <<item, view>>
  \/ /\ w.epoch # 0
     /\ CommitItem(w.sup, w.item, item[w.item].st, item[w.item].by)

\* The executor: the runtime takes over the reservation and its identity is
\* recorded, or the attempt is terminated.
StartRuntime(w) ==
  /\ w.step = "begun"
  /\ ReleaseSlot(w)
  /\ \/ /\ ~Canceled(w)
        /\ w.epoch = 0 => Room(w.sup)
        /\ runtimes' = [runtimes EXCEPT ![w.sup] = @ \cup {w.item}]
        /\ FinalizeDispatch(w)
        /\ Finish(w, "dispatched")
     \/ /\ Terminate(w.sup, w.item, AfterFailure(w.item))
        /\ Finish(w, "other")
        /\ UNCHANGED runtimes
  /\ UNCHANGED <<recordVars, lockVars, loopVars, recent, scan, disruptions>>

-----------------------------------------------------------------------------
(***************************************************************************)
(* What else happens to the items, and crashes.                            *)
(***************************************************************************)
\* An operator claims a ready item through supervisor s ...
Claim(s, i) ==
  /\ i \in Manual /\ pc[s] # "down"
  /\ item[i].st = "ready" /\ item[i].rev < MaxRevision
  /\ CommitItem(s, i, "leased", None)
  /\ UNCHANGED <<recordVars, lockVars, loopVars, recent, scan, jobs,
                 slotVars, disruptions>>

\* ... and starts it.
Start(s, i) ==
  /\ pc[s] # "down"
  /\ item[i].st = "leased"
  /\ \A w \in jobs : w.item = i => w.epoch # 0
  /\ jobs' = jobs \cup {[sup |-> s, item |-> i, rev |-> item[i].rev,
                         epoch |-> 0, step |-> "leading"]}
  /\ UNCHANGED <<recordVars, lockVars, item, loopVars, indexVars, slotVars,
                 disruptions>>

\* The runtime ends: the item completed, or the attempt failed.
RuntimeEnds(s, i) ==
  /\ i \in runtimes[s]
  /\ runtimes' = [runtimes EXCEPT ![s] = @ \ {i}]
  /\ \E st \in {"closed", AfterFailure(i)} : Terminate(s, i, st)
  /\ UNCHANGED <<recordVars, lockVars, loopVars, recent, scan, jobs,
                 reserved, disruptions>>

\* ExpireStaleLeases, the periodic sweep of supervisor s, runs the hook.
ExpireLease(s, i) ==
  /\ pc[s] # "down"
  /\ Abandoned(i)
  /\ item' = [item EXCEPT ![i] = Expired(i)]
  /\ view' = [view EXCEPT ![s][i] = Expired(i)]
  /\ UNCHANGED <<recordVars, lockVars, loopVars, recent, scan, jobs, slotVars,
                 disruptions>>

\* The instance is canceled, whatever its attempt does.
Cancel(s, i) ==
  /\ i \in Manual /\ pc[s] # "down"
  /\ item[i].st # "closed"
  /\ CommitItem(s, i, "closed", item[i].by)
  /\ UNCHANGED <<recordVars, lockVars, loopVars, recent, scan, jobs,
                 slotVars, disruptions>>

\* A supervisor dies with its runtimes; its flocks are released.
Crash(s) ==
  /\ pc[s] # "down"
  /\ Disrupt
  /\ Rest(s, "down")
  /\ recent' = [recent EXCEPT ![s] = FALSE]
  /\ scan' = [scan EXCEPT ![s] = Nothing]
  /\ jobs' = {w \in jobs : w.sup # s}
  /\ reserved' = [reserved EXCEPT ![s] = 0]
  /\ runtimes' = [runtimes EXCEPT ![s] = {}]
  /\ ctlLock' = IF \E w \in jobs : w.sup = s /\ ctlLock = Id(w) THEN None ELSE ctlLock
  /\ dspLock' = IF \E w \in jobs : w.sup = s /\ dspLock = Id(w) THEN None ELSE dspLock
  /\ UNCHANGED <<recordVars, item, view>>

\* The startup barrier: recover the instances, rebuild the index, expire a
\* lapsed leader lease, and start a loop for an enabled controller.
Boot(s) ==
  /\ pc[s] = "down"
  /\ ctlLock = None
  /\ item' \in [Items -> UNION {Recovered(i) : i \in Items}]
  /\ \A i \in Items : item'[i] \in Recovered(i)
  /\ view' = [view EXCEPT ![s] = item']
  /\ leader' = IF lapsed THEN None ELSE leader
  /\ lapsed' = FALSE
  /\ pc' = [pc EXCEPT ![s] = IF desired THEN "follow" ELSE "off"]
  /\ UNCHANGED <<desired, epoch, lockVars, mine, blocked, due, plan, recent,
                 scan, jobs, slotVars, disruptions>>

-----------------------------------------------------------------------------
LoopStep(s) ==
  \/ Acquire(s)
  \/ Drain(s)
  \/ \E signal \in BOOLEAN : Pass(s, signal)
  \/ \E d \in plan[s] : HandOff(s, d)
  \/ \E w \in jobs : HandleResult(s, w)

DispatchStep(w) ==
  \/ ReserveAdmission(w)
  \/ WithLeader(w)
  \/ CheckStart(w)
  \/ CommitStart(w)
  \/ StartRuntime(w)

IndexStep(s) ==
  \/ \E i \in Items : ScanItem(s, i)
  \/ Rebuild(s)
  \/ Elapse(s)

Next ==
  \/ \E s \in Sups :
       \/ Enable(s) \/ Disable(s)
       \/ LoopStep(s)
       \/ IndexStep(s)
       \/ \E i \in Items :
            \/ Claim(s, i) \/ Start(s, i) \/ RuntimeEnds(s, i)
            \/ ExpireLease(s, i) \/ Cancel(s, i)
       \/ Crash(s) \/ Boot(s)
  \/ \E w \in jobs : DispatchStep(w)
  \/ Lapse \/ LapseLate

Spec == Init /\ [][Next]_vars

\* The goroutines of a live supervisor make progress, time passes, runtimes end
\* and a crashed supervisor is restarted.
Fairness ==
  /\ WF_vars(Lapse)
  /\ \A s \in Sups :
       /\ WF_vars(Acquire(s)) /\ WF_vars(Boot(s))
       /\ WF_vars(\E signal \in BOOLEAN : Pass(s, signal))
       /\ WF_vars(\E d \in plan[s] : HandOff(s, d))
       /\ WF_vars(\E w \in jobs : HandleResult(s, w))
       /\ WF_vars(IndexStep(s))
       /\ \A i \in Items :
            /\ WF_vars(\E w \in jobs : w.sup = s /\ w.item = i /\ DispatchStep(w))
            /\ WF_vars(RuntimeEnds(s, i))
  /\ \A i \in Items : WF_vars(\E s \in Sups : ExpireLease(s, i))

FairSpec == Spec /\ Fairness

-----------------------------------------------------------------------------
(***************************************************************************)
(* Properties.                                                             *)
(***************************************************************************)
\* A dispatch is fenced: an attempt of the controller is committed only by the
\* holder of the newest lease of an enabled controller.  A leader that was
\* replaced, or whose controller was disabled, between its check and its commit
\* starts nothing (WithLeader around BeginDispatch).
FencedDispatch ==
  [][\A i \in Items :
       (item'[i].by = "ctl" /\ item[i].by # "ctl") =>
         desired /\ \E w \in jobs : /\ w.item = i /\ w.step = "checked"
                                    /\ w.sup = leader /\ w.epoch = epoch]_vars

\* Items that share a concurrency key never run together, whoever starts them:
\* two leaders, a leader and an operator, or two operators (dispatch.lock
\* around the key check and the commit).
KeyExclusive ==
  \A i, j \in Items :
    i # j /\ Live(item[i]) /\ Live(item[j]) => Key[i] # Key[j]

\* A start takes effect only on the item it was decided for: an item that an
\* operator claimed or canceled, or another leader started, between the read
\* and the commit is left alone (the expected revision of the command).
ClaimRespected ==
  [][\A i \in Items :
       (Live(item'[i]) /\ ~Live(item[i])) =>
         item[i].st = IF item'[i].by = "ctl" THEN "ready" ELSE "leased"]_vars

\* No path loses or doubles an admission slot: the reservations are exactly
\* those of the dispatches under way, and the limit holds with the runtimes.
SlotsAccounted ==
  \A s \in Sups :
    /\ reserved[s] = Cardinality({w \in jobs : /\ w.sup = s /\ w.epoch # 0
                                               /\ w.step \in Holding})
    /\ reserved[s] + Cardinality(runtimes[s]) <= MaxRuntimes

\* Every ready item of an enabled controller is started, or leaves the ready
\* state otherwise: a leader that crashes or forgets its lease, a capacity block
\* and an index that missed a commit all end.
ReadyIsServed ==
  \A i \in Items :
    (item[i].st = "ready" /\ desired) ~> (item[i].st # "ready" \/ ~desired)
=============================================================================
