--------------------------- MODULE ControllerPolls ---------------------------
(***************************************************************************)
(* The polls of external gates.  The leader of a controller parks an       *)
(* external activation and keeps a poll cursor for each of its gates in    *)
(* the controller record.  A due cursor is committed, with the number of   *)
(* the poll that its ID is derived from, before a worker asks the adapter; *)
(* the loop receives the answer and lands it on the gate, under the leader *)
(* lease.  All supervisors share the record and the workflow; loops,       *)
(* workers and cursors outlive a lease that is lost.                       *)
(*                                                                         *)
(* One activation with a pinned subject; a poll ID is the number it is     *)
(* derived from.  A lease is the epoch it was granted at.                  *)
(***************************************************************************)
EXTENDS Naturals

CONSTANTS
  Leaders,    \* supervisors that may lead the controller
  PollGates,  \* required external gates of the activation
  Mapped,     \* results that result_outcomes map to a branch
  MaxPolls,   \* bound: a poll with this number has a final answer
  MaxEpochs   \* bound on the leases granted

ASSUME PollAssumption == MaxPolls \in Nat \ {0} /\ MaxEpochs \in Nat \ {0} /\ Mapped \subseteq {"advisory", "failed"}

VARIABLES
  external,  \* status of the activation: ready, awaiting (a gate) or resolved
  world,     \* what an adapter would observe of a gate's subject
  facts,     \* gate instances recorded for polls: gate, poll and result
  cursor,    \* PollCursors of the controller record
  leading,   \* holder of the leader lease
  epoch,     \* OwnerEpoch of the record
  holding,   \* epoch of the lease a loop believes it holds, 0 when none
  alive,     \* supervisors that run
  seeding,   \* loops with a park result that is not received yet
  missing,   \* parked gates a loop's pass has found without a cursor
  poll       \* the poll of a gate a loop has under way

cpVars == <<external, world, facts, cursor, leading, epoch, holding, alive, seeding, missing, poll>>

NoLeader == "nobody"
NoCursor == [next |-> "absent", count |-> 0]
\* next is NextPollAt: to come, passed, or zero while a committed poll is in flight.
NewCursor == [next |-> "later", count |-> 0]
Idle == [at |-> "idle", count |-> 0, says |-> "-"]
Verdicts == {"advisory", "failed", "passed"}

CpInit ==
  /\ external = "ready" /\ world = [g \in PollGates |-> "pending"] /\ facts = {}
  /\ cursor = [g \in PollGates |-> NoCursor]
  /\ leading = NoLeader /\ epoch = 0 /\ holding = [s \in Leaders |-> 0] /\ alive = Leaders
  /\ seeding = {} /\ missing = [s \in Leaders |-> {}]
  /\ poll = [s \in Leaders |-> [g \in PollGates |-> Idle]]

-----------------------------------------------------------------------------
\* The loop of a supervisor is one goroutine: it is between two steps.
LoopFree(s) ==
  /\ s \in alive /\ missing[s] = {}
  /\ \A g \in PollGates : poll[s][g].at \notin {"offered", "landed"}

\* AcquireLease: a lease is granted when none is held.
AcquireLease(s) ==
  /\ LoopFree(s) /\ holding[s] = 0 /\ leading = NoLeader /\ epoch < MaxEpochs
  /\ leading' = s /\ epoch' = epoch + 1
  /\ holding' = [holding EXCEPT ![s] = epoch + 1]
  /\ UNCHANGED <<external, world, facts, cursor, alive, seeding, missing, poll>>

\* WithLeader: the lease is still the current one.
Fenced(s) == leading = s /\ holding[s] = epoch

\* A renewal that fails drops the leadership.
DropLease(s) ==
  /\ LoopFree(s) /\ holding[s] # 0 /\ ~Fenced(s)
  /\ holding' = [holding EXCEPT ![s] = 0]
  /\ UNCHANGED <<external, world, facts, cursor, leading, epoch, alive, seeding, missing, poll>>

\* A lease that is not renewed in time lapses, under a live loop too.
LeaseLapses ==
  /\ leading # NoLeader /\ epoch < MaxEpochs
  /\ leading' = NoLeader
  /\ UNCHANGED <<external, world, facts, cursor, epoch, holding, alive, seeding, missing, poll>>

\* A supervisor stops: a crash leaves its lease, a shutdown releases it; the
\* polls under way and park results that were not received are dropped.  (Of a
\* loop that has nothing to lose it makes no difference.)
StopLoop(s) ==
  /\ s \in alive /\ epoch < MaxEpochs
  /\ leading = s \/ s \in seeding \/ missing[s] # {} \/ poll[s] # [g \in PollGates |-> Idle]
  /\ \E released \in BOOLEAN :
       leading' = IF released /\ Fenced(s) THEN NoLeader ELSE leading
  /\ alive' = alive \ {s} /\ seeding' = seeding \ {s} /\ missing' = [missing EXCEPT ![s] = {}]
  /\ holding' = [holding EXCEPT ![s] = 0]
  /\ poll' = [poll EXCEPT ![s] = [g \in PollGates |-> Idle]]
  /\ UNCHANGED <<external, world, facts, cursor, epoch>>

StartLoop(s) ==
  /\ s \notin alive
  /\ alive' = alive \cup {s}
  /\ UNCHANGED <<external, world, facts, cursor, leading, epoch, holding, seeding, missing, poll>>

-----------------------------------------------------------------------------
\* EnsurePollCursor: a cursor that exists is never reset.
Ensured(gates) ==
  [g \in PollGates |-> IF g \in gates /\ cursor[g] = NoCursor THEN NewCursor ELSE cursor[g]]

\* parkExternalNode, on a worker: the park commits under the lease.
ParkNode(s) ==
  /\ s \in alive /\ Fenced(s) /\ external = "ready"
  /\ external' = "awaiting" /\ seeding' = seeding \cup {s}
  /\ UNCHANGED <<world, facts, cursor, leading, epoch, holding, alive, missing, poll>>

\* handleResult, parked: the loop creates the cursors, any of which may fail.
SeedCursors(s) ==
  /\ LoopFree(s) /\ s \in seeding
  /\ \E gates \in SUBSET PollGates : cursor' = Ensured(gates)
  /\ seeding' = seeding \ {s}
  /\ UNCHANGED <<external, world, facts, leading, epoch, holding, alive, missing, poll>>

\* A pass reads the record, then the refreshed index; reseedPollCursors goes by
\* what they showed.
RefreshIndex(s) ==
  /\ LoopFree(s) /\ holding[s] # 0 /\ external = "awaiting"
  /\ missing' = [missing EXCEPT ![s] = {g \in PollGates : cursor[g] = NoCursor}]
  /\ missing' # missing
  /\ UNCHANGED <<external, world, facts, cursor, leading, epoch, holding, alive, seeding, poll>>

\* Mutant: nothing is reseeded.
Reseeded_None(gates) == cursor
Reseeded(gates) == Ensured(gates)
reseedPollCursors(s) ==
  /\ missing[s] # {}
  /\ cursor' = Reseeded(missing[s])
  /\ missing' = [missing EXCEPT ![s] = {}]
  /\ UNCHANGED <<external, world, facts, leading, epoch, holding, alive, seeding, poll>>

-----------------------------------------------------------------------------
InPoll(s, g, at) == s \in alive /\ poll[s][g].at = at
SetPoll(s, g, p) == poll' = [poll EXCEPT ![s][g] = p]

\* PollDue: a loop that believes it leads takes a cursor that is due, or in
\* flight with nobody of this loop polling it.
PollDue(s, g) ==
  /\ LoopFree(s) /\ InPoll(s, g, "idle") /\ holding[s] # 0
  /\ cursor[g] # NoCursor /\ cursor[g].next # "later"
  /\ SetPoll(s, g, [at |-> "offered", count |-> cursor[g].count, says |-> cursor[g].next])
  /\ UNCHANGED <<external, world, facts, cursor, leading, epoch, holding, alive, seeding, missing>>

\* CommitPoll: the number moves on, unless the poll is the retry of one whose
\* answer never landed.
Numbered(c) == IF c.next = "none" THEN c.count ELSE c.count + 1
CommitPoll(s, g) ==
  /\ InPoll(s, g, "offered")
  /\ LET c == IF cursor[g] # NoCursor THEN cursor[g]
              ELSE [next |-> poll[s][g].says, count |-> poll[s][g].count]
     IN /\ cursor' = [cursor EXCEPT ![g] = [next |-> "none", count |-> Numbered(c)]]
        /\ SetPoll(s, g, [at |-> "running", count |-> Numbered(c), says |-> "-"])
  /\ UNCHANGED <<external, world, facts, leading, epoch, holding, alive, seeding, missing>>

\* pollExternalGate, on a worker: nothing is asked about a gate that is not
\* parked; the adapter fails, observes another subject, or reports the world.
Answers(s, g) ==
  IF external # "awaiting" THEN {"obsolete"}
  ELSE {v \in {world[g], "error", "other"} : v = "passed" \/ poll[s][g].count < MaxPolls}
pollExternalGate(s, g) ==
  /\ InPoll(s, g, "running")
  /\ \E v \in Answers(s, g) : SetPoll(s, g, [poll[s][g] EXCEPT !.at = "done", !.says = v])
  /\ UNCHANGED <<external, world, facts, cursor, leading, epoch, holding, alive, seeding, missing>>

\* SchedulePollRetry, ClearPollCursor: neither looks at the lease.
Rescheduled(s, g) ==
  [cursor EXCEPT ![g] = [next |-> "later", count |-> IF @ = NoCursor THEN poll[s][g].count ELSE @.count]]
Cleared(g) == [cursor EXCEPT ![g] = NoCursor]

\* commandGate: a poll that is recorded on the gate is a replay.
Recorded(g, n) == {f \in facts : f.gate = g /\ f.poll = n}
AllPassed(fs) == \A g \in PollGates : \E f \in fs : f.gate = g /\ f.says = "passed"
Resolves(fs, says) == AllPassed(fs) \/ (says \in Mapped)

\* handlePollOutcome without a verdict: no answer, a pending one, or a gate that
\* was resolved before the adapter was asked.
handleNoVerdict(s, g) ==
  /\ LoopFree(s) /\ InPoll(s, g, "done") /\ poll[s][g].says \in {"obsolete", "error", "pending"}
  /\ cursor' = IF poll[s][g].says = "obsolete" THEN Cleared(g) ELSE Rescheduled(s, g)
  /\ SetPoll(s, g, Idle)
  /\ UNCHANGED <<external, world, facts, leading, epoch, holding, alive, seeding, missing>>

\* applyPollResult under a lease that is gone: the loop drops its leadership and
\* leaves the cursor in flight for the next leader.
handleStale(s, g) ==
  /\ LoopFree(s) /\ InPoll(s, g, "done") /\ poll[s][g].says \in Verdicts \cup {"other"} /\ ~Fenced(s)
  /\ holding' = [holding EXCEPT ![s] = 0]
  /\ SetPoll(s, g, Idle)
  /\ UNCHANGED <<external, world, facts, cursor, leading, epoch, alive, seeding, missing>>

\* applyPollResult: the verdict lands, is a replay with the same response, or is
\* refused: the gate is not parked, the subject is another one, or the poll is
\* recorded with a different response.  The lookup and the write are one step: both
\* are taken under the flock of the record, which every answer needs, and of an
\* operator that resolves the gate in between the second read tells, which ends the
\* command as if the gate had not been parked.
applyPollResult(s, g) ==
  LET p == poll[s][g]
      before == Recorded(g, p.count)
      lands == facts \cup {[gate |-> g, poll |-> p.count, says |-> p.says]}
  IN /\ LoopFree(s) /\ InPoll(s, g, "done") /\ p.says \in Verdicts \cup {"other"} /\ Fenced(s)
     /\ \/ /\ external # "awaiting"
           /\ cursor' = Cleared(g) /\ SetPoll(s, g, Idle) /\ UNCHANGED <<external, facts>>
        \/ /\ external = "awaiting" /\ (p.says = "other" \/ before # {})
           /\ cursor' = Rescheduled(s, g) /\ SetPoll(s, g, Idle) /\ UNCHANGED <<external, facts>>
        \/ /\ external = "awaiting" /\ \E f \in before : f.says = p.says
           /\ SetPoll(s, g, [p EXCEPT !.at = "landed"]) /\ UNCHANGED <<external, facts, cursor>>
        \/ /\ external = "awaiting" /\ p.says # "other" /\ before = {}
           /\ facts' = lands
           /\ external' = IF Resolves(lands, p.says) THEN "resolved" ELSE external
           /\ SetPoll(s, g, [p EXCEPT !.at = "landed"]) /\ UNCHANGED cursor
     /\ UNCHANGED <<world, leading, epoch, holding, alive, seeding, missing>>

\* The cursor is cleared once the verdict has landed.
ClearPollCursor(s, g) ==
  /\ InPoll(s, g, "landed")
  /\ cursor' = Cleared(g) /\ SetPoll(s, g, Idle)
  /\ UNCHANGED <<external, world, facts, leading, epoch, holding, alive, seeding, missing>>

-----------------------------------------------------------------------------
PollTimer(g) ==
  /\ cursor[g] # NoCursor /\ cursor[g].next = "later"
  /\ cursor' = [cursor EXCEPT ![g].next = "due"]
  /\ UNCHANGED <<external, world, facts, leading, epoch, holding, alive, seeding, missing, poll>>

\* The checks of the outside world move on.
WorldMoves(g) ==
  /\ world[g] # "passed"
  /\ \E v \in Verdicts \ {world[g]} : world' = [world EXCEPT ![g] = v]
  /\ UNCHANGED <<external, facts, cursor, leading, epoch, holding, alive, seeding, missing, poll>>

\* An operator waives, skips or cancels.
OperatorResolves ==
  /\ external = "awaiting"
  /\ external' = "resolved"
  /\ UNCHANGED <<world, facts, cursor, leading, epoch, holding, alive, seeding, missing, poll>>

PollStep(s, g) ==
  \/ PollDue(s, g) \/ CommitPoll(s, g) \/ pollExternalGate(s, g)
  \/ handleNoVerdict(s, g) \/ handleStale(s, g) \/ applyPollResult(s, g) \/ ClearPollCursor(s, g)
LoopWork(s) ==
  AcquireLease(s) \/ DropLease(s) \/ StartLoop(s) \/ SeedCursors(s) \/ RefreshIndex(s) \/ reseedPollCursors(s)

CpNext ==
  \/ \E s \in Leaders : LoopWork(s) \/ ParkNode(s) \/ StopLoop(s)
  \/ \E s \in Leaders, g \in PollGates : PollStep(s, g)
  \/ \E g \in PollGates : PollTimer(g) \/ WorldMoves(g)
  \/ LeaseLapses \/ OperatorResolves

\* Loops, workers and timers of live supervisors make progress, a stopped one
\* comes back, and the lease of one that does not hold it any more lapses.
Orphaned == leading # NoLeader /\ ~Fenced(leading) /\ LeaseLapses
CpFairness ==
  /\ \A s \in Leaders : WF_cpVars(LoopWork(s))
  /\ \A s \in Leaders, g \in PollGates : WF_cpVars(PollStep(s, g))
  /\ \A g \in PollGates : WF_cpVars(PollTimer(g))
  /\ WF_cpVars(Orphaned)

CpFairSpec == CpInit /\ [][CpNext]_cpVars /\ CpFairness

-----------------------------------------------------------------------------
\* A parked activation whose checks have all passed leaves its gates: a park
\* whose cursors were lost, a poll left in flight by a dead leader, a result
\* that was refused and a cursor cleared too early are all made good.
PassedIsSettled ==
  (external = "awaiting" /\ \A g \in PollGates : world[g] = "passed") ~> external = "resolved"
=============================================================================
