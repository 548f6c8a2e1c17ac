# Verification of avenor

avenor supervises agent runtimes and drives them through durable workflows. This
directory holds TLA+ models of the parts of it where a mistake is hardest to find
by testing: the workflow engine with its files and controllers, the runtimes of a
supervisor with what they compete for, permission requests, phases of loops and
teams, and messages between runs. Each model is translated from the Go source;
`PROJECT.json` maps every definition to the lines it stands for.

| Module | Models |
|---|---|
| `WorkflowKernel` | one workflow instance: reducer, commands, lease sweep |
| `WorkflowStore` | event log, snapshot, flock, replay and faults of one instance |
| `EventHistory` | what the store promises: an append-only history (abstract) |
| `WorkflowController` | leader lease, leader loop, candidate index, dispatch boundary, admission |
| `ControllerPolls` | external gates: parks, poll cursors, answers under the leader lease |
| `WorkflowComposition` | a parent activation and the child instance it waits for |
| `LifecycleMachine` | the pure lifecycle machine of a child runtime |
| `ChildRuntimes` | the goroutines of child runtimes: turns, parking, slots, shutdown |
| `AdmissionBudget` | the budget file that the supervisors of a tree share |
| `DeciderRouting` | the permission router and the cap on its deciders |
| `PermissionClaims` | a permission request, its claim, its resolver and its answers |
| `PhaseRunners` | loops and teams of phases, retries, nudges, abort |
| `AskStore` | asks and tells of one broker: edges, fences, waits, inboxes |
| `AskPromise` | what the parties of an ask may rely on (abstract) |
| `ParentLink` | the registration of a branch at its parent broker, and relays into it |
| `MCWorkflowKernel`, `MCWorkflowStore`, `MCWorkflowController`, `MCChildRuntimes`, `MCPermissionClaims` | finite instances |
| `MCInstance`, `MCMessaging`, `MCRuntimes`, `MCSessions`, `MCServices` | several components side by side in one run |
| `WorkflowKernelProofs`, `WorkflowStoreProofs`, `WorkflowControllerProofs`, `AdmissionBudgetProofs`, `ChildRuntimesProofs` | TLAPS proofs about the module they are named after |
| `PermissionProofs` | proofs about `DeciderRouting` and `PermissionClaims` |
| `MessagingProofs` | proofs about `AskStore`, its refinement of `AskPromise`, and `ParentLink` |
| `ServiceProofs` | proofs about `WorkflowComposition` and `PhaseRunners` |

## 1. Inventory

### Workflow engine (`internal/workflow`)

**Kernel** (`transitions.go`, `manager.go`, `completion.go`, `gate_handlers.go`,
`heartbeat.go`, `cancel.go`, `park_external.go`, `recovery.go`). State: the
snapshot of an instance, that is its status and terminal outcome, its
activations (node, status, selected outcome, cause, lease), their attempts, their
gates, and the idempotency keys of the commands it accepted. Operations: claim,
start, dispatch, park, complete, attempt termination, heartbeat, lease expiry,
unblock, gate decisions (satisfy, waive, reject, reopen, external results), skip,
cancel. Commands come from operators, from runtimes and from the controller, at
any time and in any order. Hard: commands that validate on one snapshot and
commit on another; late reports about attempts that have been replaced; leases
that expire under a live holder; two branches that block one instance. It is
correct when an activation has at most one worker, a lease exists exactly while
somebody holds the activation, recorded facts are not rewritten, terminal states
are final, a satisfied activation was completed and passed its gates, a block is
visible and can be lifted, and a silent holder loses its lease.

**Store** (`store.go`, `replay.go`, `reducer.go`, `recovery.go`, `events.go`).
State: `events.ndjson`, `workflow.json`, the evidence directories, a flock.
Operations: load with replay, apply a command at an expected revision, append,
sync, replace, recover. Hard: a crash, a power loss or a failed file operation
between any two of these steps; retries after an ambiguous error. It is correct
when a command whose own call reported success is never lost and stands on the
revision it was computed from, nothing takes effect twice, and what a repetition
is told is true.

**Dispatch boundary and candidate index** (`dispatch.go`, `catalog.go`,
`manager.go`; `internal/stable/dispatch.go`). State: the index of each process,
`dispatch.lock`, the concurrency keys held by live attempts. Operations: the
commit hook, the catalog scan and rebuild, `BeginDispatch`, `FinalizeDispatch`.
Hard: an index that is stale when it is used; keys read while another process
starts an item. It is correct when items with one key never run together and a
start lands only on the item it was decided for.

**Composition and autocompletion** (`composition.go`, `autocompletion.go`). State:
parent activations that wait for a child instance. Hard: every supervisor stops
between the commits of the two instances, and the parent's lease expires
meanwhile. It is correct when a finished child resolves its parent.

**Templates** (`model.go`, `validate.go`, `graph.go`, `policies.go`): static
checks. **Projections** (`projector.go`, `evidence.go`): views nobody reads back.

### Workflow controller (`internal/workflowcontroller`)

**Record, lease and loop** (`store.go`, `lease.go`, `runner.go`, `policy.go`,
`inflight.go`). State: the record shared by all supervisors of a root (desired
state, leader lease, owner epoch) and the loop state of each supervisor (lease it
believes it holds, capacity block, next refresh, planned and unreported
dispatches). Operations: enable, disable, acquire, renew, pass, hand-off,
result, drain. Hard: a leader that is replaced while its dispatches are under
way; results of an older epoch; a capacity signal that is missed; enable and
disable at two supervisors. It is correct when only the current leader commits a
dispatch and every ready item is served.

**Polls and adapters** (`poll.go`, `poller.go`, `adapter.go`). State: a cursor per
gate of a parked external activation. Hard: a crash between the park and the
cursor; an answer applied after the lease is gone, after an operator decided the
gate, or twice. It is correct when a check that passed settles the gate and a
poll is recorded once.

### Supervisor (`internal/stable`, `internal/admission`, `internal/runstate`)

**Local admission** (`supervisor.go`): reservations and registered runtimes
against `MaxRuntimes`. It is correct when no path loses or doubles a slot.

**Tree admission budget** (`admission/budget.go`): one JSON file shared by nested
supervisors. Hard: holders that die, PIDs that are reused, a file that is
rewritten in place. It is correct when the live holders never exceed the budget.

**Runtime lifecycle** (`runtime_lifecycle*.go`, `supervisor.go`, `turn_guard.go`,
`resume.go`). State: a transactional machine per child, its goroutine, its prompt
queue, its slot and token. Operations: spawn, turn, retry, park, prompt, resume,
parallel phases, direct answers, shutdown, deadline, teardown. Hard: a park
timeout, a prompt, a resume and a shutdown at the same moment; answers written
while the event writer closes. It is correct when no signal is illegal in the
state it meets, a turn runs only with a slot and a token, an admitted prompt gets
its turn, nothing is written after the close, and a shutdown completes.

**Permissions** (`permission_router.go`, `modeldecider.go`, `permission/file.go`,
`control/server.go`, `cli.go`). State: claims by request ID, resolver goroutines,
slots of deciders, requests blocked on the cap. Hard: several parties answer one
request while it falls through or its session ends; a slot that is freed between
its refusal and the record of the refusal. It is correct when everybody who is
told "accepted" agrees with what the provider received, and no request is forgotten.

### Runners, messaging, control plane, interfaces

**Loop and team runners** (`looprunner`, `teamrunner`, `phaseconfig`). Phases with
attempts, retries, nudges for missing files and markers; members in parallel.
Hard: one member aborts while the others retry, nudge or time out. It is correct
when a reported success was earned and a stopped run ends.

**Ask store and broker** (`messaging/askstore`, `runtime/broker`). State: edges,
terminal fences, tell routes, waiters, inboxes. Operations: send, poll, wait, reply,
withdraw, expire, prune, delete a run. Hard: requests that arrive late, twice or
never, the timeout of a wait racing the reply, records that are reclaimed when
the store is full. It is correct when an ask has one verdict which everybody
learns, nothing is delivered twice, and the records stay within their limit.

**Message routing** (`messaging/parentlink`, `router`, `inprocess`, `localhttp`).
State: per broker the runs its branches claimed (the registry) and the run records
made for them; per branch the view its parent accepted last. Operations: register,
deregister, refresh, relay, forget after a refusal. Hard: registrations that are
lost or late, a replacement under the same identity, a refusal that arrives after
a refresh. It is correct when a live branch ends up registered with the runs it
has, and nothing stale takes a healthy run out of routing.

**Control plane** (`internal/control`, `stable/idempotency.go`, `askclaim`):
idempotent requests, owner leases, event streams, claims. **Event feed**:
subscribers that fall behind. **Backends, artifacts, user interfaces**: process
and file I/O, rendering.

### How the parts interact

An operator or an agent calls the control plane, which calls the workflow manager;
the manager reads a snapshot, builds a batch of events and hands it to the store,
which takes the instance's flock, replays, runs the reducer and commits. After a
commit a hook updates the candidate index of that process only. A controller's
leader loop selects from its index, hands decisions to worker goroutines, and
each worker reserves a slot, takes the controller's flock for the leader check,
takes `dispatch.lock` for the key check, commits the attempt and starts the
runtime; the result goes back to the loop over a channel. The runtime takes a slot
of its supervisor and a token of the tree, runs turns or phases, parks, and reports
its end to the manager as an attempt termination. Its session publishes permission
requests, which clients, a file handler, a decider run or a model answer. Runs
send asks and tells through the broker of their supervisor, which relays to the
branches registered with it. All supervisors of one root share the files and
nothing else.

## 2. Models and their correspondence to the code

### `WorkflowKernel`

The constants are a validated template and the bounds. The variables are the
fields of the snapshot (`wfStatus`, `wfOutcome`; per activation `node`, `status`,
`selected`, `cause`, `lease`, `expiry`, `attempts`, `passed`; `keys`) and the
commands that were validated and are not yet committed (`completing`,
`renewing`, `unblocking`).

The store accepts a command only at the revision its caller read, so a command
that reads and commits at one revision is one action: `Claim`, `Start`,
`BeginDispatch`, `ParkExternal`, `RecordAttemptTermination`, `GateDecision`,
`WorkflowCancel`, `SweepStaleLeases`. A command that validates on one snapshot
and commits on a fresh one is two: `BeginComplete`/`CommitComplete`,
`BeginHeartbeat`/`CommitHeartbeat`, `BeginUnblock`/`CommitUnblock`; the
`Abandon` actions are callers that fail in between. A skip is a sequence of
waives, as in the code. `Branch` is the transition event that follows a resolving
event in the same batch.

Data abstractions: lease IDs are counters; time is relative (`expiry` counts down
to -1, "after ExpiresAt"); gate IDs, outcomes and nodes are small sets;
`panicked` and `timed_out` reports are treated like `failed` by the reducer and
by the model; `action_required` and `changes_requested` are one result,
`advisory`; evidence has no contents.

### `WorkflowStore` and `EventHistory`

A command is a batch of `Size[c]` events; a snapshot is the sequence of events
applied to it. The log is a sequence of chunks, so that a write can be torn
inside an event, at its newline or between events. `Read`, `Open`, `WriteEvent`,
`Sync`, `Replace` and `Commit` are the file operations of `ApplyCommand` in the
code's order; `Refresh` and `GiveUp` are the retry on a stale revision and its
limit; `Sweep` and `Recover` are the callers without a revision. `Fault` enables
a crash, a power loss (which also drops what was not synced), or a write, sync or
snapshot replace that fails. A failed step takes the code's error path, evidence
cleanup included. A load writes the replayed snapshot back only when the trimmed
log still holds a line (`Replayed`), as `applyLocked` and `recoverInstance` do.

A command in `Repeatable` (complete, terminate, unblock, gate, cancel) has a key
that names what it acts on. Its repetition is told success when the key is in the
replayed log: before anything is staged (`Repeat`, completion.go:82-95,
gate_handlers.go:435-447) or under the lock (the third case of `Open`,
completion.go:242-248); nothing is synced or written back for it. The other commands
(claim, start, begin-dispatch) make a new key in every call, so a repetition finds the
work taken and fails. `acked` holds the commands whose own call reported success,
`confirmed` those of which a repetition was told that they are done, and the two are
not worth the same. The commit has synced the batch and replaced the snapshot before
it answers, so `acked` is kept whatever fails. A repetition is answered from memory:
after a crash between two writes it is told that half a batch is done
(`ConfirmedIsWhole`, section 6); what it found in a log that was not synced is lost in
a power loss; and without one too, when the whole event without its newline that a
failed write left is merged with the next batch and trimmed.

`EventHistory` says what a caller may rely on: events are appended, each once, and
only events of a command that its own call did not report may be lost, after a
failure; a repetition is told success of a reported command only, as long as nothing
has failed, and after a failure nothing is promised to it. `WorkflowStore` implements it
with `hist <- snap`, `repeated <- confirmed` and `failed <- faults > 0`.

### `WorkflowController`

A work item is an instance with one auto-dispatched provider activation, of which
the controller sees a revision, a status and who started the live attempt. Two
flocks are variables because they are held over several steps; every other file operation
of the record is atomic under its flock. `pc`, `mine`, `blocked`, `due` and `plan` are the
leader loop; `view`, `recent` and `scan` the candidate index and a running
rebuild; `jobs` the worker goroutines up to the receipt of their result;
`reserved` and `runtimes` the admission of the supervisor. A job with epoch 0 is
an operator's start, which shares `dispatch.lock` with the controllers and skips
admission and leadership.

Abstractions: the index is read at one moment in a pass; the identity commit of
`FinalizeDispatch` is joined to the start of the runtime, because it moves
nothing but the revision; a node's lease does not expire between the commit of a
dispatch and the start of its executor; the persisted copy of the capacity block
and the diagnostics are left out. The initial state is a controller that was just
created, with the items instantiated and the indexes built.

### `ControllerPolls`

One external activation with its gates. `cursor` is `PollCursors` of the record,
`facts` the gate instances recorded for polls, `poll` the poll a loop has under
way, `world` what the adapter would observe. A due cursor is committed with the
number of its poll before a worker asks; the answer is received by the loop and
landed under `WithLeader`; the cursor is cleared, or put forward when the check is
pending. `missing` is what a pass found without a cursor and reseeds. Leases
lapse, loops stop and come back, operators decide gates. The lookup of a recorded
poll and the write of its answer are one step: every answer needs the flock of the
record for both, and an operator who resolves the gate in between is noticed by the
second read, which ends the command as if the gate had not been parked
(gate_handlers.go:546-557). That a poll is recorded once is then one guard, and no property. Left out: retry counts
and backoff (a due cursor is due at any later moment), evidence staging,
diagnostics, and the limit on poll workers.

### `WorkflowComposition`

One composing activation, its attempts (numbered by lease), the child instance and
for each supervisor how far its executor is. Every commit is at the revision that
was read and is tried again when it loses; losing four times in a row is left out.
The node has no gates of its own. `StaleTie` is the sweep's exemption of activations that
await a child; `resumeAwaitingChild` runs when a supervisor starts.

### `LifecycleMachine` and `ChildRuntimes`

`LifecycleMachine` is `next(state, signal)` as a guard (`Legal`) and a result
(`After`), with `validateLifecycleState`. `ChildRuntimes` is every user of it:
`at` is the place of a child's goroutine in `runChild` or `runTeamChild`,
`phaseAt` of its parallel phases, `held` and `token` its admission, `queue`,
`asked`, `claimed` and `resumed` its prompts, `answering` direct answers in flight,
`ctx` whose context is live. A signal the machine refuses is kept in `illegal`. An
action is one critical section of `child.mu`, or a sequence of steps that nobody
can disturb. A child is ordinary, a workflow node, a decider (which its first
failure ends) or a team.

Abstractions: the presentation of a success is joined to parking; providers of team
phases and the idle watcher are left out; what a turn produces is its class. The
model keeps three consequences of the code that a reader may not expect: a parked
child whose context ends counts against `MaxRuntimes` again; a run that leaves
its wait for a token or a slot at shutdown writes no sentinel; a prompt accepted
after the terminal probe's dequeue, or against a dead context, is dropped.

### `AdmissionBudget`

The file's reservations, the flock with the operation that holds it, and what each
process believes it holds. An operation reads, writes and truncates in separate
steps; a process may die in any of them, which drops the lock and leaves the file
as it is. A PID may be used again by a new process of the tree.

### `DeciderRouting`

One of the router's two pools (decider runs, model calls), which have the same
accounting. Two goroutines per request and one critical section per action:
cached options, routed marks, the slot, the list of blocked requests. Whoever frees
a slot re-routes what was blocked, one after another.

### `PermissionClaims`

A request with its claim in the control server, the session loop, the resolver
goroutine (automatic, control, file or nobody), the clients with their
connections, and the callers of `answer_permission`. The removal of the last connection
and the scan of the claims are two critical sections (server.go:2219-2241, 962-984): a
client may connect in between, and the scan then returns. A client that comes back is a
new connection, for which a free name stands. `AcceptedAnswersAgree` is stated for
sessions that are not over: a resolver delayed past the teardown may recreate a
claim. Left out: provider generations and bindings, and answers that are not
offered, which are refused before anything changes. A next request between the
provider's acceptance and the resolver's result ends the session (cli.go:1733),
which the model keeps.

### `PhaseRunners`

`runner` is a loop or a team. `exec` is `executePhase` per goroutine: attempts,
retries with backoff, nudges for missing files, the directive it said; `stage`,
`at` and `round` are the position in the plan. A nested run is an attempt without
retries and nudges. Left out: conditions that skip a member, labels, sessions and
outputs.

### `AskStore` and `AskPromise`

Edges are numbered by the admission that made them; a fence is the terminal record
of an ID, absent fences are withdrawals that came before their ask. `Admit`,
`Poll`, `Wait`, `Reply`, `Withdraw`, `Prune`, `DeleteRun`, `RemoveRun` are the
requests; any of them may come late, twice or never. A reply that is on its way
into an inbox is `posting`. `AskPromise` is one verdict per ask that nobody
changes and the only one ever reported; `AskStore` implements it with the verdicts
read off its edges and fences. Left out: IDs without a version, replies to replies beyond one
level, the reset at broker stop and relays.

### `ParentLink`

One branch identity with successive processes, its parent's registry and run
records, and relays into the branch. A registration and a deregistration are
several steps under `parentRegisterMu` (`handler`); a relay takes the registry's
lock and the broker's lock one after the other (`ForgetIfStale`, then `RetireRun`)
and not that mutex. Posts stay in `posts` when their sender gave up, so they may be
handled late. A credential is a number that is never used twice; the generation
stands for the endpoint too. Claims are namespaced by the branch, so one branch is enough.

### Side by side

`MCInstance`, `MCMessaging`, `MCRuntimes`, `MCSessions` and `MCServices` put
components that share no variable into one run. A behaviour moves the component
named by `focus`, chosen at the start, and leaves the others in an initial state,
so the states of the run are the union of the components' states and not their product.

## 3. What the runs check

| Run | Instance | Properties | States |
|---|---|---|---|
| `kernel_chain` | retried provider node behind a human gate, then an auto external node | `TypeOK`, `OneWorker`, `LeaseIffHeld`, `UnblockNotSwallowed`, `SatisfiedIsFinal`, `AttemptFactsStand` | 828 000 |
| `instance` | kernel: two branches side by side, one fails the instance, one has two gates; store: two processes, a completion, a dispatch, a sweep, repetitions, two faults of any kind | `BlockSurfaces`, `SatisfiedIsEarned`, `CanceledIsFinal`; `AckedSurvives`, `NoStaleCommit`, `OneBatch`, `ImplementsHistory` | 897 000 |
| `controller_record` | two supervisors, two items with one key, an operator, one disruption | `KeyExclusive`, `SlotsAccounted`, `FencedDispatch`, `ClaimRespected` | 1 203 000 |
| `controller_serve` | one supervisor, two items, one disruption, fair scheduling | `ReadyIsServed` | 326 000 |
| `messaging` | asks: two runs with a message each way, one may be deleted, one waiter, a store with room for two records; branch: one run, two credentials, two processes, a relay, a lost or late registration | `NoReplay`, `RecordsBounded`, `KeepsPromise`; `HealthyClaimKept`, `BranchIsRouted` | 573 000 |
| `runtimes` | two children with one slot and one token; the budget file under two PIDs; three requests for two deciders; two requests under one ID, two callers, two clients, with and without a file handler | `NoIllegalSignal`, `TurnsAdmitted`, `AdmittedIsHonored`, `NothingAfterClose`; `NeverOversubscribed`; `SlotsAreDeciders`, `RefusedIsRemembered`; `AcceptedAnswersAgree`, `AcceptedAnswerIsKept` | 1 298 000 |
| `sessions` | an ordinary child and a team; one request, one caller, two clients, a file handler; fair scheduling | `ShutdownCompletes`; `NobodyLeftFallsThrough` | 191 000 |
| `services` | kernel: one retried activation; composition: two supervisors, three stops; polls: two leaders, two epochs, two polls; a loop and a team with a retry and a nudge | `SilentHolderReclaimed`; `AwaitingIsResumable`, `RestartResumes`; `PassedIsSettled`; `SuccessIsEarned`, `StoppedRunEnds` | 164 000 |

Four more runs (`store_torn`, `decider_wakeup`, `parent_orphan`, `claim_reconnect`)
show where the code and what its documents or comments say part; see section 6.

Deadlock checking is off in all of them: an instance that is completed or
canceled, a store whose commands are all done, a controller whose items are all
closed, children that have ended and a branch that is down may stop.

Every property has a mutant, a plausible mistake in one mapped definition under
which the run fails. The type invariants of the other modules (`RtTypeOK`,
`AbTypeOK`, `DrTypeOK`, ...) are part of the inductive invariants that section 4
proves; the runs spend their time on the properties above instead.

**Bounds.** *Kernel*: two activations let a branch be created and loop back; two
claims per activation give an expired lease, a second holder and late messages of
the first; a budget of two attempts separates a retry from exhaustion; one
command is in flight at a time, so one stale command meets any number of the other
actors' commands (two stale commands at once are covered by the proofs, whose
`MaxInFlight` is arbitrary, and not by the runs). *Fork*: three activations are two entry branches and a successor.
*Store*: two faults allow a fault and another during the recovery from it (what was
acknowledged is proved to stay for any number of them); two processes are a writer and one that reads, repeats or sweeps what it left. *Controller*: two
supervisors and two items are the least that can conflict; an item at
`MaxRevision` has no retries left, which still leaves a full claim, start,
failure and retry; one disruption is a disable, a crash or a lease that lapses
under a leader. `AntiEntropy` is on where a stale index has to be repaired.
*Branch*: two credentials are a run that restarts, two generations a replacement
process, two posts a late registration beside the current one or a deregistration, one relay a
refusal at any moment. (Two runs of the branch were checked once too, with 1.4
million states; they take longer than a run should.) *Messaging*: one message each
way makes a mutual ask; two records make a full store. *Children*: one slot and one token for
two children make every wait happen; one retry and one follow-up prompt separate
"again" from "no more". *Budget*: three tokens over a capacity of two, so that a
refusal and a reuse follow one another. *Deciders*: three requests for two slots, one whose
decisions fail. *Claims*: two requests under one ID, so that an ID is reused; one
caller may say either answer and the other only reject, which is enough for two
different answers; two clients, so that one may connect between the removal of the
other and its scan; automatic approval and the claim timeout are on in `runtimes`,
where a request may still need the user and the timer need not fire, so that safety
is checked for the sessions without them too. Whether a claim falls through is asked of each request by itself, so
`sessions` has one. *Phases*: one phase before, two rounds of two, one after; two
members. *Composition*: two leases are a retry, three stops take down both
supervisors and one again. *Polls*: two epochs are a replaced leader; the second
poll has a final answer.

**Symmetry.** Processes and supervisors are interchangeable; symmetry is used in
`instance` (the processes of the store) and in `runtimes` (the clients), whose
properties are safety properties and a refinement without fairness.

**Fairness.** *Kernel*: `Tick` (time passes) and `SweepStaleLeases` (the
supervisor's periodic sweep, every 10 s by default). No command is fair: operators and
runtimes may stay silent, which is the point of the property. *Controller*: the
goroutines of a live supervisor make progress, a lease nobody renews expires, the
sweep runs, runtimes end, and a crashed supervisor is restarted. Operators,
disables, crashes and late lapses are not fair. *Branch*: the refresh ticker
(15 s) makes `Sync` happen again and again, and the parent's handlers and relays
run; runs, closes, deaths and returns are not fair. *Children*: goroutines are
scheduled, a turn or a phase returns once its context is dead and not necessarily before, a direct
answer has a bounded join, a shutdown cancels the context. *Sessions*: the resolver
and the scan of a dropped connection run; a provider whose context is dead
returns. Clients need not come or go. *Services*: executors, loops, workers and poll timers of live supervisors
run, and a supervisor that stopped is started again. *Deciders* (`decider_wakeup`): goroutines
run, and a decision ends, because both kinds have timeouts.

## 4. What is proved

Every theorem holds for all values of the constants that satisfy the module's
assumption (`TemplateAssumption`, `BoundsAssumption`, `StoreAssumption`,
`ControllerAssumption`, `BudgetAssumption`, `DeciderAssumption`, `ClaimAssumption`,
`AskAssumption`, `ParentAssumption`, `RuntimeAssumption`, `CompositionAssumption`, ...).
They say that the bounds are numbers, that named actors differ from the
placeholders and, where something is counted, that the sets are finite; nothing
about the order or number of steps. For each component the argument is the same: an
inductive invariant, one lemma per action, and under it one step per part
that the action can disturb; `Init`, the step and the consequence are combined by
PTL.

| Theorems | Property | Inductive invariant and why it is needed |
|---|---|---|
| `TypeCorrect`, `AtMostOneWorker`, `LeaseMatchesStatus` | `TypeOK`, `OneWorker`, `LeaseIffHeld` | `IInv`: a dispatch is guarded by the status, so a claimable activation must have no live attempt; the sweep goes by leases, so every lease must belong to an activation that is leased or running |
| `BlockAlwaysSurfaces`, `UnblockNeverSwallowed`, `SatisfactionEarned` | `BlockSurfaces`, `UnblockNotSwallowed`, `SatisfiedIsEarned` | `KInv` adds to `IInv` that the keys of a block episode belong to it and are used up with it, that a completion key names an attempt that exists, that what waits at a gate was earned, and that a canceled instance holds no lease |
| `CancelFinal`, `SatisfactionFinal`, `FactsStand` | `CanceledIsFinal`, `SatisfiedIsFinal`, `AttemptFactsStand` | action properties from `KInv`: a late command that passed its checks against an older revision is refused by what the newer one holds |
| `AckedNeverLost` | `AckedSurvives` (what the committing call reported) | `StIInv`: not only the snapshot but every copy that can become it (the durable one, the one the lock holder loaded) contains the reported commands, and a command is only reported by the holder whose events are in the snapshot |
| `NeverStale` | `NoStaleCommit` | `HistIInv`, on top of `StIInv`: the log may hold torn, merged and already applied lines, but each event once and the same one as the snapshot; the durable snapshot is the beginning of the snapshot; after a load every line that is left is in the loaded history, so the batch that is written next is new to the log as well |
| `BatchesNeverMix` | `OneBatch` | `AgreeInv`, from `StIInv` and `HistIInv`: the events of one command in the log, in the snapshot and in what the lock holder loaded are of one call; a key that is in the loaded history is never written again, and what a load does not keep of a failed batch it trims |
| `HistoryKept` | `ImplementsHistory` (`EventHistory`) | every step of the store extends the history, reports a command of it, takes back what no call reported, or stutters, from `HistIInv` and `StIInv`; and `CalmInv`: while nothing has failed, every event at hand is of a reported command or of the batch being written, so a repetition that finds a key while the lock is free finds a reported one |
| `KeysExclude`, `SlotsAddUp`, `DispatchFenced`, `ClaimsRespected` | `KeyExclusive`, `SlotsAccounted`, `FencedDispatch`, `ClaimRespected` | `CtIInv`: a job that passed its checks holds the two locks it checked under, so what it read of the lease, the key and the revision still stands when it commits; a job without an epoch is an operator's and holds no reservation |
| `BudgetNeverOversubscribed` | `NeverOversubscribed` | `AbIInv`: a token that is held is in the file under its holder's PID, through an operation that was cut off between its read and its write |
| `SlotsNeverLeak`, `RefusedNeverForgotten` | `SlotsAreDeciders`, `RefusedIsRemembered` | `DrIInv`: the routed mark is a lock, and a marked request is in exactly one place |
| `AcceptedAgree`, `AcceptedKept` | `AcceptedAnswersAgree`, `AcceptedAnswerIsKept` | `PcIInv`: a claim under control has its answer in the channel, in the resolver's hand or not at all, any other claim told nobody yes before it was resolved, and a resolver past its start finds its claim only in the states of `ResolverAt`, where a direct answer may have overtaken a late stamp |
| `SignalsAreLegal`, `EveryTurnAdmitted`, `AdmittedHonored`, `NothingLate` | `NoIllegalSignal`, `TurnsAdmitted`, `AdmittedIsHonored`, `NothingAfterClose` | `RtIInv`: a table from the place of a child's goroutine to the state of its machine, up to what other threads may change at any moment (a prompt, a shutdown, a deadline, a direct answer), with the token and the slot that belong to it |
| `NeverReplayed`, `RecordsStayBounded` | `NoReplay`, `RecordsBounded` | `AskIInv`: an ID has one edge, a live one is active, a closed one leaves a fence that says how it ended, and an open edge pays for the record it will leave |
| `PromiseKept` | `KeepsPromise` (`AskPromise`) | every step of `AskStore` maps to a step of the promise or to a stutter, from `AskIInv` |
| `ClaimsKept` | `HealthyClaimKept` | `PlIInv`: credentials are fresh, so a refusal or a view that is late never names the live one |
| `AlwaysResumable` | `AwaitingIsResumable` | `WcIInv`: a parent that is running or awaiting is tied to the last attempt, which is open |
| `SuccessEarned` | `SuccessIsEarned` | `PrIInv`: while the runner goes on nothing failed or aborted |

The proofs changed the models where these could not be reasoned about or were
wrong. A crashed leader's record was both reset and left alone in
`WorkflowController`, so that a supervisor that led could not crash: it can now, and the runs
of the controller are larger for it. Two `CASE` expressions (`HandedOff`,
`PhaseEnds`) had arms that overlap, which TLC resolves by their order and TLA+ leaves
open; they are disjoint now. `Replay` names the events of the log by their order
(`InOrder`) instead of filtering recursively, and assumptions say which sets are
finite. `Open` wrote the replayed snapshot back, durably, after every load; the
code does so only when a line was replayed, and the difference is what lets a
command whose call reported no success move to another revision (section 6).
`NoStaleCommit` said of every command that it stands on the revision its caller
read; three faults refute that, so it is about those reported by the call that
committed them, for which it is proved. What a repetition is told was left out of the
store at first; now it is a step, and the history's promise says how little it is worth.

Only model-checked: liveness (`ReadyIsServed`, `BranchIsRouted`, `ShutdownCompletes`,
`NobodyLeftFallsThrough`, `StoppedRunEnds`, `SilentHolderReclaimed`,
`RestartResumes`, `PassedIsSettled`). Fairness and ENABLED are outside what the
prover handles.

## 5. Hazards

`PROJECT.json` lists the places where this code is hard to test and the property
that watches each one. Those without a property carry the reason; most of them
are described in section 6 or are planned in section 8. One further is planned and not
listed there: an instance that cannot be loaded, which fails the catalog for all
(catalog.go:31) and whose live attempt holds no key (dispatch.go:131).

## 6. Where the code and its documents disagree

With a run that shows it:

| Run | What happens | What is said |
|---|---|---|
| `store_torn` | a crash between two events of a batch makes half of a command permanent; the retry of the caller is told that the command is done | completion.go:82, docs/workflow.md:25, 91 |
| `decider_wakeup` | the last decider ends between the refusal of a slot and the record of the refused request; nobody re-routes it | permission_router.go:540 |
| `parent_orphan` | a refused relay drops a claim while a registration is being applied; the record it leaves keeps the branch's later claims of that run out | relay.go:168, broker.go:1819 |
| `claim_reconnect` | a client connects between the removal of the last one and the scan of the claims; the scan returns and the claim waits on | server.go:957 |

Met while modelling. The models take these steps; the properties are stated so that
they do not claim otherwise:

* A completion validated before a block commits after it, and the instance stays
  `blocked` with nothing to unblock (transitions.go:812, docs/workflow.md:762).
* A gate decision on a failed or completed instance is dropped, its transition
  event is not (transitions.go:975).
* A failed snapshot replace removes evidence that replay then commits a reference
  to (completion.go:425).
* A repetition is told success of events that only a log tail holds which was not
  synced; a power loss, or a later batch that is merged with an event that lacks its
  newline, takes them back (gate_handlers.go:447, completion.go:87).
* A command whose call reported no success can end up on a revision it was not computed
  from. A failed write leaves a whole event without its newline, and the next
  batch is appended to that line, which no longer parses. The rename of that batch is not made
  durable (a crash before `FsyncDir`), the next load truncates the log to nothing
  and therefore writes nothing back (store.go:152), one more batch is appended at the
  newer revision, and a power loss before its rename is durable restores the older
  snapshot, onto which replay puts that batch. It takes three faults; TLC finds it with one process.
* A catalog rebuild puts an older snapshot into the index, and `max_inflight` is
  exceeded (manager.go:689, docs/stable.md:442).
* An enable finds a loop that is about to exit, and starts none
  (supervisor.go:6334, comment at 6471).
* After an unmapped result lands, the cursor is cleared and reseeded at count 0;
  the next poll reuses the ID of a recorded one (poll.go:3). A gate that passed is
  polled again while another gate keeps the activation parked.
* After a restart with a child still running nobody waits for it (docs/workflow.md:742
  and 773 speak of re-arming and re-attaching; the comment in composition.go says it
  never waits again). A crash between the child's outcome and the end of the
  attempt leaves the attempt live.
* A loop phase that says exit while its files are missing ends a run in success.
* The timeout of a wait ends the ask or not, depending on when it lands
  (docs/mcp.md:385, store.go:374). A relay whose response was lost after delivery
  is reported as not sent.
* A claim that fell through stays answerable (server.go:951).
* A crash in the middle of a write leaves a budget file that nobody can read
  (budget.go:437); the spawn-time release of a token wakes nobody, which a poll
  every 2 s makes up for.
* A record can be missing beside a claim until the next refresh, when a refused
  relay lands between the guard and the registration; it heals.

## 7. Not modelled

* `context` and `update_assignment` commands, assignment selection and evidence
  contents: they change no lifecycle state.
* Creation of the instance directory and regeneration of projections; templates
  and their validation (the kernel takes a validated template).
* The event log and compaction of the controller record; it is one atomic value
  here.
* Routing beyond one link: choice of a route, asks, waits and replies forwarded
  upward with the parent's generation, peers and their listing.
* Control plane: idempotent requests, owner leases, event streams, claims on an
  ask (planned). Framing and authentication.
* Event feed and digest: a fold over events for display, and subscribers that fall
  behind (planned).
* Backends, artifacts, user interfaces, CLI, MCP server, client libraries, generated
  code: I/O whose other side is not in this repository, or rendering. They are most
  of the repository's lines, which is why the map covers about a tenth of them.

## 8. Plan

Done: the kernel, the store and its abstract specification, the controller with
dispatch and admission, polls, composition, child runtimes with their lifecycle
machine, the tree budget, deciders, permission claims, loops and teams, the ask
store and its promise, the parent link; an inductive invariant for each of them and
every safety and action property and both refinements of the runs as theorems.

Theorems next: that `InOrder` keeps the order of the log, which the history
theorems do not need; the safety half of the liveness properties (what each of
them waits for stays enabled until it is taken).

Models next: idempotent control requests whose answer is lost
(`stable/idempotency.go`, `control/idempotency.go`), the event stream with
subscribers that fall behind (`control/event_stream.go`, `feed/broker.go`), claims
on an ask (`askclaim`), and messages forwarded upward through the link.
