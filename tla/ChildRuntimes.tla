---------------------------- MODULE ChildRuntimes ----------------------------
(***************************************************************************)
(* The supervisor's child runtimes: admission (local slots, tree tokens),  *)
(* the goroutine of every child (runChild, or runTeamChild with its        *)
(* parallel phases), parking and resuming, prompts, wait_turn callers,     *)
(* direct permission answers and teardown.  A child signals its lifecycle  *)
(* machine under child.mu; an action is one critical section, or one       *)
(* sequence of steps of the goroutine that nobody else can disturb.        *)
(***************************************************************************)
EXTENDS LifecycleMachine, FiniteSets

CONSTANTS
  Children,      \* runtimes that may be spawned
  Kinds,         \* kinds of the children, see kind
  Phases,        \* parallel phases of a team
  Callers,       \* callers of wait_turn
  MaxRuntimes,   \* local slots
  TreeTokens,    \* slots of the tree budget
  MaxRetries,    \* retries of one prompt
  MaxPrompts     \* bound: follow-up prompts of one child

ASSUME RuntimeAssumption ==
  /\ IsFiniteSet(Children) /\ IsFiniteSet(Phases)
  /\ Kinds \subseteq [Children -> {"ordinary", "node", "decider", "team"}]
  /\ MaxRuntimes \in Nat /\ TreeTokens \in Nat /\ MaxRetries \in Nat
  /\ MaxPrompts \in Nat

VARIABLES
  kind,      \* child -> ordinary, node of a workflow, decider, or loop or team
  lc,        \* lifecycle state of each child
  at,        \* where the goroutine of a child is
  phaseAt,   \* where each phase of a team is
  result,    \* outcome of the attempt that returned last
  tries,     \* attempts since the last prompt
  ctx,       \* children whose run context is live
  token,     \* children that hold a tree token
  held,      \* outstanding admission reservations
  queue,     \* prompts queued for each child
  asked,     \* prompts accepted so far
  claimed,   \* children that took a prompt while parked
  resumed,   \* children with an admitted resume whose turn has not parked
  sentinel,  \* children whose current turn has its sentinel
  waits,     \* caller -> the child whose turn it waits for
  answering, \* children with a direct answer in flight
  closing,   \* the supervisor is shutting down
  illegal    \* signals that a machine refused

rtVars == <<kind, lc, at, phaseAt, result, tries, ctx, token, held, queue, asked,
            claimed, resumed, sentinel, waits, answering, closing, illegal>>

Team(c) == kind[c] = "team"
Class(c) == IF Team(c) THEN "workflow" ELSE "direct"
Nobody == "nobody"

RtInit ==
  /\ kind \in Kinds
  /\ lc = [c \in Children |-> NewState(Class(c))]
  /\ at = [c \in Children |-> "unspawned"]
  /\ phaseAt = [c \in Children |-> [p \in Phases |-> "todo"]]
  /\ result = [c \in Children |-> "none"]
  /\ tries = [c \in Children |-> 0]
  /\ ctx = Children /\ token = {} /\ held = {}
  /\ queue = [c \in Children |-> 0] /\ asked = [c \in Children |-> 0]
  /\ claimed = {} /\ resumed = {} /\ sentinel = {}
  /\ waits = [w \in Callers |-> Nobody]
  /\ answering = {} /\ closing = FALSE /\ illegal = {}

-----------------------------------------------------------------------------
(***************************************************************************)
(* Transactions.                                                           *)
(***************************************************************************)
\* transactLifecycle and applyOwnedLifecycleEffects: a refused signal leaves
\* the state and is counted.
Apply(c, sig) ==
  IF Accepts(lc[c], sig)
    THEN /\ lc' = [lc EXCEPT ![c] = After(lc[c], sig)]
         /\ waits' = [w \in Callers |-> IF waits[w] = c /\ Settles(lc[c], sig)
                                          THEN Nobody ELSE waits[w]]
         /\ UNCHANGED illegal
    ELSE /\ illegal' = illegal \cup {<<c, sig>>}
         /\ UNCHANGED <<lc, waits>>
Quiet == UNCHANGED <<lc, waits, illegal>>

Goto(c, l) == at' = [at EXCEPT ![c] = l] /\ UNCHANGED kind
Reachable(c) == at[c] \notin {"unspawned", "reserved", "refused"}
Registered(c) == Reachable(c) /\ at[c] \notin {"rolling", "rolledBack"}

\* countRuntimesLocked(false).
Counts(c) == Registered(c) /\ ~isCompleted(lc[c]) /\ ~isParked(lc[c])
SlotFree == Cardinality({c \in Children : Counts(c)}) + Cardinality(held) < MaxRuntimes
TokenFree == Cardinality(token) < TreeTokens

-----------------------------------------------------------------------------
(***************************************************************************)
(* Admission.                                                              *)
(***************************************************************************)
\* reserveAdmission: the tree token first, then a local slot.
Reserve(c) ==
  /\ at[c] = "unspawned" /\ ~closing /\ TokenFree /\ SlotFree
  /\ token' = token \cup {c} /\ held' = held \cup {c}
  /\ Goto(c, "reserved") /\ Quiet
  /\ UNCHANGED <<phaseAt, result, tries, ctx, queue, asked, claimed, resumed,
                 sentinel, answering, closing>>

\* spawnReserved up to the registration, or the release of the reservation.
Register(c) ==
  /\ at[c] = "reserved"
  /\ held' = held \ {c}
  /\ \/ ~closing /\ Apply(c, "published") /\ Goto(c, "spawning") /\ UNCHANGED token
     \/ token' = token \ {c} /\ Goto(c, "refused") /\ Quiet
  /\ UNCHANGED <<phaseAt, result, tries, ctx, queue, asked, claimed, resumed,
                 sentinel, answering, closing>>

\* The goroutine starts, or a failed start rolls the registration back.
Launch(c) ==
  /\ at[c] = "spawning"
  /\ \/ Goto(c, IF Team(c) THEN "phases" ELSE "attempt") /\ Quiet /\ UNCHANGED ctx
     \/ Apply(c, "spawnRolledBack") /\ Goto(c, "rolling") /\ ctx' = ctx \ {c}
  /\ UNCHANGED <<phaseAt, result, tries, token, held, queue, asked, claimed,
                 resumed, sentinel, answering, closing>>

\* complete at the rollback boundary.
RollBack(c) ==
  /\ at[c] = "rolling"
  /\ Apply(c, "publishedAfterRollback")
  /\ token' = token \ {c} /\ Goto(c, "rolledBack")
  /\ UNCHANGED <<phaseAt, result, tries, ctx, held, queue, asked, claimed,
                 resumed, sentinel, answering, closing>>

-----------------------------------------------------------------------------
(***************************************************************************)
(* runChild.                                                               *)
(***************************************************************************)
\* acquireChildTreeToken.  A wait that shutdown abandons records no end.
AcquireToken(c) ==
  /\ at[c] = "token"
  /\ \/ TokenFree /\ token' = token \cup {c} /\ Goto(c, "attempt")
     \/ c \notin ctx /\ Goto(c, "idleEnd") /\ UNCHANGED token
     \/ closing /\ c \in ctx /\ Goto(c, "down") /\ UNCHANGED token
  /\ Quiet
  /\ UNCHANGED <<phaseAt, result, tries, ctx, held, queue, asked, claimed,
                 resumed, sentinel, answering, closing>>

\* runChildAttempt up to the session.
Prepare(c) ==
  /\ at[c] = "attempt"
  /\ Apply(c, "attemptPreparing")
  /\ tries' = [tries EXCEPT ![c] = @ + 1]
  /\ Goto(c, "session")
  /\ UNCHANGED <<phaseAt, result, ctx, token, held, queue, asked, claimed, resumed,
                 sentinel, answering, closing>>

StartSession(c) ==
  /\ at[c] = "session"
  /\ \/ /\ Apply(c, "attemptStartFailed")
        /\ \E r \in {"retryable", "failed"} : result' = [result EXCEPT ![c] = r]
        /\ Goto(c, "returned")
     \/ Apply(c, "attemptStarted") /\ Goto(c, "turn") /\ UNCHANGED result
  /\ UNCHANGED <<phaseAt, tries, ctx, token, held, queue, asked, claimed,
                 resumed, sentinel, answering, closing>>

\* beginChildProviderTurn: no turn enters after the teardown boundary.
Admitted(c) == ~lc[c].shutdown /\ ~isWriterClosing(lc[c])

\* The turn ends: by itself, by an interrupt, or because its context did.
Settle(c) ==
  /\ at[c] = "turn"
  /\ \/ ~Admitted(c) /\ result' = [result EXCEPT ![c] = "failed"]
     \/ /\ Admitted(c)
        /\ \E r \in {"ok", "retryable", "failed", "conflict"} :
             result' = [result EXCEPT ![c] = r]
  /\ Apply(c, "attemptSettled") /\ Goto(c, "returned")
  /\ UNCHANGED <<phaseAt, tries, ctx, token, held, queue, asked, claimed,
                 resumed, sentinel, answering, closing>>

\* attemptReturned releases the tree token.
Return(c) ==
  /\ at[c] = "returned"
  /\ Apply(c, "attemptReturned")
  /\ token' = token \ {c} /\ Goto(c, "outcome")
  /\ UNCHANGED <<phaseAt, result, tries, ctx, held, queue, asked, claimed,
                 resumed, sentinel, answering, closing>>

\* nextAttemptOutcome and its sentinel.  A hinted wait that cannot be honored
\* ends the retries.
Outcome(c) ==
  LET r == result[c]
      Retry == r = "retryable" /\ tries[c] <= MaxRetries
      Ends == Apply(c, "outcomeEnds") /\ sentinel' = sentinel \cup {c}
  IN /\ at[c] = "outcome"
     /\ \/ r = "ok" /\ kind[c] = "ordinary" /\ Ends /\ Goto(c, "park")
        \/ r = "ok" /\ kind[c] # "ordinary" /\ Ends /\ Goto(c, "down")
        \/ r # "ok" /\ (kind[c] = "decider" \/ r = "conflict") /\ Ends /\ Goto(c, "down")
        \/ /\ r \in {"failed", "retryable"} /\ kind[c] # "decider"
           /\ Apply(c, "probeTerminal") /\ Goto(c, "probe") /\ UNCHANGED sentinel
        \/ /\ Retry /\ kind[c] # "decider"
           /\ Apply(c, "probeRetry") /\ Goto(c, "retryProbe") /\ UNCHANGED sentinel
     /\ UNCHANGED <<phaseAt, result, tries, ctx, token, held, queue, asked,
                    claimed, resumed, answering, closing>>

\* dequeuePrompt.
CanDequeue(c) == queue[c] > 0 /\ ~isCompleted(lc[c])
Dequeue(c) == queue' = [queue EXCEPT ![c] = @ - 1]

\* The terminal probe: the context is sampled before the dequeue, and the
\* sentinel is written whether the child resumes or ends.
TerminalProbe(c) ==
  /\ at[c] = "probe"
  /\ \/ c \in ctx /\ CanDequeue(c) /\ Dequeue(c) /\ Goto(c, "resume")
     \/ ~(c \in ctx /\ CanDequeue(c)) /\ Goto(c, "finish") /\ UNCHANGED queue
  /\ Quiet
  /\ UNCHANGED <<phaseAt, result, tries, ctx, token, held, asked, claimed,
                 resumed, sentinel, answering, closing>>

TerminalContinuation(c) ==
  /\ at[c] \in {"resume", "finish"}
  /\ Apply(c, "continueTerminal")
  /\ sentinel' = sentinel \cup {c}
  /\ \/ at[c] = "resume" /\ Goto(c, "token") /\ tries' = [tries EXCEPT ![c] = 0]
     \/ at[c] = "finish" /\ Goto(c, "down") /\ UNCHANGED tries
  /\ UNCHANGED <<phaseAt, result, ctx, token, held, queue, asked, claimed,
                 resumed, answering, closing>>

\* The retry probe dequeues before it looks at the context: a prompt taken
\* against a dead context is discarded.
RetryProbe(c) ==
  /\ at[c] = "retryProbe"
  /\ Apply(c, "continueRetry")
  /\ \/ /\ CanDequeue(c) /\ Dequeue(c)
        /\ tries' = IF c \in ctx THEN [tries EXCEPT ![c] = 0] ELSE tries
        /\ Goto(c, IF c \in ctx THEN "token" ELSE "idleEnd")
     \/ /\ ~CanDequeue(c)
        /\ Goto(c, IF c \in ctx THEN "backoff" ELSE "idleEnd")
        /\ UNCHANGED <<queue, tries>>
  /\ UNCHANGED <<phaseAt, result, ctx, token, held, asked, claimed, resumed,
                 sentinel, answering, closing>>

Backoff(c) ==
  /\ at[c] = "backoff"
  /\ \/ Goto(c, "token")
     \/ c \notin ctx /\ Goto(c, "idleEnd")
  /\ Quiet
  /\ UNCHANGED <<phaseAt, result, tries, ctx, token, held, queue, asked,
                 claimed, resumed, sentinel, answering, closing>>

\* successPresented and parkRequested, which frees the local slot.
Park(c) ==
  /\ at[c] = "park"
  /\ Apply(c, "parkRequested")
  /\ resumed' = resumed \ {c} /\ claimed' = claimed \ {c}
  /\ Goto(c, "parked")
  /\ UNCHANGED <<phaseAt, result, tries, ctx, token, held, queue, asked,
                 sentinel, answering, closing>>

TimeoutTakes(c) == queue[c] > 0

\* waitForNextPrompt: a prompt, the end of the context, or the park timeout,
\* which takes a prompt that raced it in the same critical section.
TakePrompt(c) ==
  /\ at[c] = "parked" /\ CanDequeue(c)
  /\ Dequeue(c) /\ Apply(c, "promptDequeued")
  /\ claimed' = claimed \cup {c} /\ Goto(c, "slot")
  /\ UNCHANGED <<phaseAt, result, tries, ctx, token, held, asked, resumed,
                 sentinel, answering, closing>>

ParkTimeout(c) ==
  /\ at[c] = "parked"
  /\ \/ /\ TimeoutTakes(c) /\ Dequeue(c) /\ Apply(c, "promptDequeued")
        /\ claimed' = claimed \cup {c} /\ Goto(c, "slot")
     \/ /\ ~TimeoutTakes(c) /\ Apply(c, "parkTimedOut") /\ Goto(c, "unpark")
        /\ UNCHANGED <<queue, claimed>>
  /\ UNCHANGED <<phaseAt, result, tries, ctx, token, held, asked, resumed,
                 sentinel, answering, closing>>

ParkCancelled(c) ==
  /\ at[c] = "parked" /\ c \notin ctx
  /\ Goto(c, "unpark") /\ Quiet
  /\ UNCHANGED <<phaseAt, result, tries, ctx, token, held, queue, asked,
                 claimed, resumed, sentinel, answering, closing>>

\* parkWaitEnded.  The child counts again although it took no slot: it ends.
Unpark(c) ==
  /\ at[c] = "unpark"
  /\ Apply(c, "parkWaitEnded")
  /\ Goto(c, IF c \in ctx THEN "down" ELSE "idleEnd")
  /\ UNCHANGED <<phaseAt, result, tries, ctx, token, held, queue, asked,
                 claimed, resumed, sentinel, answering, closing>>

\* Mutant: a parked runtime resumes without a slot.
ResumeNeeds_Nothing(c) == TRUE

ResumeNeeds(c) == SlotFree

\* acquireLocalRuntimeSlot: under controlMu, so that no spawn takes the slot in
\* between.  A failure leaves the child parked.
AcquireSlot(c) ==
  /\ at[c] = "slot"
  /\ \/ /\ ~closing /\ ResumeNeeds(c)
        /\ Apply(c, "localSlotAcquired") /\ Goto(c, "token")
        /\ tries' = [tries EXCEPT ![c] = 0]
     \/ /\ closing \/ c \notin ctx
        /\ Goto(c, IF c \in ctx THEN "down" ELSE "idleEnd") /\ Quiet
        /\ UNCHANGED tries
  /\ UNCHANGED <<phaseAt, result, ctx, token, held, queue, asked, claimed,
                 resumed, sentinel, answering, closing>>

\* writeIdleContextEnd.
IdleEnd(c) ==
  /\ at[c] = "idleEnd"
  /\ Apply(c, "idleContextEnded")
  /\ sentinel' = sentinel \cup {c} /\ Goto(c, "down")
  /\ UNCHANGED <<phaseAt, result, tries, ctx, token, held, queue, asked,
                 claimed, resumed, answering, closing>>

-----------------------------------------------------------------------------
(***************************************************************************)
(* runTeamChild: the phases run in parallel, each in attempts of its own.  *)
(* A loop is a team of one phase.                                          *)
(***************************************************************************)
GotoPhase(c, p, l) == phaseAt' = [phaseAt EXCEPT ![c][p] = l]
InPhase(c, p, l) == at[c] = "phases" /\ phaseAt[c][p] = l
OfPhase ==
  UNCHANGED <<kind, at, result, tries, ctx, token, held, queue, asked, claimed, resumed,
              sentinel, answering, closing>>

\* Mutant: a phase is tried again although the run is over.
MayStart_Always(c) == TRUE

\* The runner starts no phase and no retry against a dead context.
MayStart(c) == c \in ctx

PreparePhase(c, p) ==
  /\ InPhase(c, p, "todo")
  /\ \/ MayStart(c) /\ Apply(c, "attemptPreparing") /\ GotoPhase(c, p, "prepared")
     \/ ~MayStart(c) /\ Quiet /\ GotoPhase(c, p, "done")
  /\ OfPhase

\* workflowPhaseAttempt: finish reports an attempt that never became active.
StartPhase(c, p) ==
  /\ InPhase(c, p, "prepared")
  /\ \/ Apply(c, "attemptStartFailed") /\ GotoPhase(c, p, "done")
     \/ Apply(c, "attemptStarted") /\ GotoPhase(c, p, "active")
  /\ OfPhase

\* endWorkflowAttempt; a retryable result is tried again.
EndPhase(c, p) ==
  /\ InPhase(c, p, "active")
  /\ Apply(c, "attemptSettled")
  /\ GotoPhase(c, p, "done") \/ GotoPhase(c, p, "todo")
  /\ OfPhase

\* The runner joins its phases; finalizeWorkflowChild runs if one had a session.
JoinPhases(c) ==
  /\ at[c] = "phases" /\ \A p \in Phases : phaseAt[c][p] = "done"
  /\ Apply(c, "workflowFinalized") \/ Quiet
  /\ sentinel' = sentinel \cup {c} /\ Goto(c, "down")
  /\ UNCHANGED <<phaseAt, result, tries, ctx, token, held, queue, asked, claimed,
                 resumed, answering, closing>>

-----------------------------------------------------------------------------
(***************************************************************************)
(* Teardown, in the order of the deferred function.                        *)
(***************************************************************************)
TeardownStep(c, from, to) ==
  /\ at[c] = from /\ Goto(c, to)
  /\ UNCHANGED <<phaseAt, result, tries, held, queue, asked, claimed, resumed,
                 answering, closing>>

\* beginChildShutdown.
BeginShutdown(c) ==
  /\ TeardownStep(c, "down", "warm")
  /\ Apply(c, "shutdownRequested") /\ ctx' = ctx \ {c}
  /\ UNCHANGED <<token, sentinel>>

\* Mutant: a resume that shutdown overtakes is forgotten.
Unstarted_None(c) == FALSE

Unstarted(c) == c \in resumed /\ c \notin sentinel

\* finishUnstartedWarmResume.
FinishWarm(c) ==
  /\ TeardownStep(c, "warm", "writer")
  /\ sentinel' = IF Unstarted(c) THEN sentinel \cup {c} ELSE sentinel
  /\ Quiet /\ UNCHANGED <<ctx, token>>

\* closeChildEventWriter, up to the wait for direct answers ...
CloseWriter(c) ==
  /\ TeardownStep(c, "writer", "drain")
  /\ Apply(c, "writerCloseBegun") /\ UNCHANGED <<ctx, token, sentinel>>

\* Mutant: the writer does not wait for the answers it admitted.
Drained_Always(c) == TRUE

Drained(c) == c \notin answering

\* ... and after it; closeChildProvider drains the same answers.
FinishWriter(c) ==
  /\ Drained(c) /\ TeardownStep(c, "drain", "ending")
  /\ Apply(c, "writerCloseFinished") /\ UNCHANGED <<ctx, token, sentinel>>

\* finishRunEnded and complete.
EndRun(c) ==
  /\ TeardownStep(c, "ending", "publish")
  /\ Apply(c, "runEnded") /\ UNCHANGED <<ctx, token, sentinel>>

Publish(c) ==
  /\ TeardownStep(c, "publish", "done")
  /\ Apply(c, "publishedAfterTeardown")
  /\ token' = token \ {c} /\ UNCHANGED <<ctx, sentinel>>

-----------------------------------------------------------------------------
(***************************************************************************)
(* Control requests, timers and answers.                                   *)
(***************************************************************************)
External ==
  UNCHANGED <<kind, at, phaseAt, result, tries, token, held, claimed>>

\* RuntimePrompt.
RuntimePrompt(c) ==
  /\ Reachable(c) /\ ~isCompleted(lc[c]) /\ asked[c] < MaxPrompts
  /\ queue' = [queue EXCEPT ![c] = @ + 1] /\ asked' = [asked EXCEPT ![c] = @ + 1]
  /\ External /\ Quiet
  /\ UNCHANGED <<ctx, resumed, sentinel, answering, closing>>

\* RuntimeInterruptAndPrompt without keep_queue; the turn it interrupts may end
\* at any time anyway.
RuntimeInterruptAndPrompt(c) ==
  /\ Reachable(c) /\ ~isCompleted(lc[c]) /\ asked[c] < MaxPrompts
  /\ queue' = [queue EXCEPT ![c] = 1] /\ asked' = [asked EXCEPT ![c] = @ + 1]
  /\ External /\ Quiet
  /\ UNCHANGED <<ctx, resumed, sentinel, answering, closing>>

\* gateWarmResume, gateWarmResumeChild and rotateWarmResumeTurn: the turn gets
\* artifacts of its own.
WarmResume(c) ==
  /\ Registered(c) /\ ~Team(c) /\ ~closing /\ asked[c] < MaxPrompts
  /\ ~isCompleted(lc[c]) /\ Admitted(c) /\ isParked(lc[c])
  /\ c \notin resumed \cup claimed \cup answering /\ queue[c] = 0
  /\ queue' = [queue EXCEPT ![c] = 1] /\ asked' = [asked EXCEPT ![c] = @ + 1]
  /\ resumed' = resumed \cup {c} /\ sentinel' = sentinel \ {c}
  /\ External /\ Quiet /\ UNCHANGED <<ctx, answering, closing>>

\* RuntimeWaitTurn.
RuntimeWaitTurn(w, c) ==
  /\ waits[w] = Nobody /\ Reachable(c) /\ ~isCompleted(lc[c])
  /\ waits' = [waits EXCEPT ![w] = c]
  /\ External
  /\ UNCHANGED <<lc, illegal, ctx, queue, asked, resumed, sentinel, answering, closing>>

WaitTimeout(w) ==
  /\ waits[w] # Nobody
  /\ waits' = [waits EXCEPT ![w] = Nobody]
  /\ External
  /\ UNCHANGED <<lc, illegal, ctx, queue, asked, resumed, sentinel, answering, closing>>

\* beginDirectPermissionAnswer and finishDirectPermissionAnswerLocked.
BeginAnswer(c) ==
  /\ Registered(c) /\ ~Team(c) /\ at[c] # "spawning"
  /\ c \notin answering /\ ~closing /\ Admitted(c)
  /\ answering' = answering \cup {c}
  /\ External /\ Quiet
  /\ UNCHANGED <<ctx, queue, asked, resumed, sentinel, closing>>

FinishAnswer(c) ==
  /\ c \in answering
  /\ answering' = answering \ {c}
  /\ External /\ Quiet
  /\ UNCHANGED <<ctx, queue, asked, resumed, sentinel, closing>>

\* cancelRuntime, cancelWorkflowRuntimes and shutdown call beginChildShutdown;
\* the parent context is canceled after the locks are released.
RequestShutdown(c) ==
  /\ Reachable(c) /\ ~lc[c].shutdown
  /\ Apply(c, "shutdownRequested")
  /\ External
  /\ UNCHANGED <<ctx, queue, asked, resumed, sentinel, answering, closing>>

CancelContext(c) ==
  /\ lc[c].shutdown /\ c \in ctx
  /\ ctx' = ctx \ {c}
  /\ External /\ Quiet
  /\ UNCHANGED <<queue, asked, resumed, sentinel, answering, closing>>

Deadline(c) ==
  /\ Registered(c) /\ at[c] # "spawning" /\ c \in ctx
  /\ ctx' = ctx \ {c}
  /\ External /\ Quiet
  /\ UNCHANGED <<queue, asked, resumed, sentinel, answering, closing>>

\* shutdown closes admission before it reaches the children.
BeginSupervisorShutdown ==
  /\ ~closing /\ closing' = TRUE
  /\ External /\ Quiet
  /\ UNCHANGED <<ctx, queue, asked, resumed, sentinel, answering>>

-----------------------------------------------------------------------------
\* The steps a goroutine takes by itself.
Goroutine(c) ==
  \/ Register(c) \/ Launch(c) \/ RollBack(c)
  \/ AcquireToken(c) \/ Prepare(c) \/ StartSession(c) \/ Return(c) \/ Outcome(c)
  \/ TerminalProbe(c) \/ TerminalContinuation(c) \/ RetryProbe(c) \/ Backoff(c)
  \/ Park(c) \/ TakePrompt(c) \/ ParkCancelled(c) \/ Unpark(c) \/ AcquireSlot(c)
  \/ IdleEnd(c) \/ JoinPhases(c)
  \/ BeginShutdown(c) \/ FinishWarm(c) \/ CloseWriter(c) \/ FinishWriter(c) \/ EndRun(c)
  \/ Publish(c)

RtNext ==
  \/ \E c \in Children :
       \/ Reserve(c) \/ Goroutine(c) \/ Settle(c) \/ ParkTimeout(c)
       \/ \E p \in Phases : PreparePhase(c, p) \/ StartPhase(c, p) \/ EndPhase(c, p)
       \/ RuntimePrompt(c) \/ RuntimeInterruptAndPrompt(c) \/ WarmResume(c)
       \/ BeginAnswer(c) \/ FinishAnswer(c)
       \/ RequestShutdown(c) \/ CancelContext(c) \/ Deadline(c)
       \/ \E w \in Callers : RuntimeWaitTurn(w, c)
  \/ \E w \in Callers : WaitTimeout(w)
  \/ BeginSupervisorShutdown

RtSpec == RtInit /\ [][RtNext]_rtVars

\* A goroutine is scheduled; a turn and a phase return once their context is
\* dead, and not necessarily before; an answer has a bounded join; shutdown
\* cancels the context it was asked to cancel.
RtFairness ==
  \A c \in Children :
    /\ WF_rtVars(Goroutine(c))
    /\ WF_rtVars(c \notin ctx /\ Settle(c))
    /\ \A p \in Phases :
         /\ WF_rtVars(PreparePhase(c, p)) /\ WF_rtVars(StartPhase(c, p))
         /\ WF_rtVars(c \notin ctx /\ EndPhase(c, p))
    /\ WF_rtVars(FinishAnswer(c)) /\ WF_rtVars(CancelContext(c))

RtFairSpec == RtSpec /\ RtFairness

-----------------------------------------------------------------------------
(***************************************************************************)
(* Properties.                                                             *)
(***************************************************************************)
\* The type invariant; every committed state passes validateLifecycleState.
RtTypeOK ==
  /\ \A c \in Children : lc[c] \in States /\ Valid(lc[c]) /\ lc[c].class = Class(c)
  /\ phaseAt \in [Children -> [Phases -> {"todo", "prepared", "active", "done"}]]
  /\ result \in [Children -> {"none", "ok", "retryable", "failed", "conflict"}]
  /\ tries \in [Children -> 0 .. MaxRetries + 1]
  /\ \A S \in {ctx, token, held, claimed, resumed, sentinel, answering} : S \subseteq Children
  /\ queue \in [Children -> 0 .. MaxPrompts] /\ asked \in [Children -> 0 .. MaxPrompts]
  /\ waits \in [Callers -> Children \cup {Nobody}]
  /\ closing \in BOOLEAN /\ illegal \subseteq Children \X Signals

\* No goroutine, control request, timer or parallel phase ever sends its machine
\* a signal that the machine refuses: the fail-safes of runtime_lifecycle_apply
\* are never needed, in any interleaving (reportLifecycleError, lifecycleErrors).
NoIllegalSignal == illegal = {}

Ending(c) ==
  at[c] \in {"idleEnd", "down", "warm", "writer", "drain", "ending", "publish"}

\* The slots hold although parked runtimes give theirs up and take one again:
\* the runtimes that may still run a turn and the reservations never exceed
\* MaxRuntimes, and nobody runs a turn without a tree token (reserveAdmission,
\* acquireLocalRuntimeSlot, acquireChildTreeToken).
TurnsAdmitted ==
  /\ Cardinality({c \in Children : Counts(c) /\ ~Ending(c)}) + Cardinality(held)
       <= MaxRuntimes
  /\ \A c \in Children : lc[c].attempts > 0 => c \in token
  /\ \A c \in Children : isParked(lc[c]) \/ at[c] = "done" => c \notin token

\* What was admitted is honored.  The park timeout loses no prompt: a prompt is
\* taken or refused, never left on a runtime that the timeout has ended.  And a
\* resume that was admitted gets a result: when the runtime has ended, the
\* sentinel of the resumed turn is there, even if shutdown, a deadline or a lost
\* slot prevented the turn (waitForNextPrompt, RuntimePrompt,
\* finishUnstartedWarmResume).
AdmittedIsHonored ==
  \A c \in Children :
    /\ lc[c].completion = "admissionClosed" => queue[c] = 0 /\ c \notin resumed
    /\ at[c] = "done" /\ c \in resumed => c \in sentinel

\* The event writer is closed only after every direct answer admitted before
\* teardown has been written, and nobody waits on a runtime that has ended
\* (closeChildEventWriter, settleTurnLocked).
NothingAfterClose ==
  /\ \A c \in answering : lc[c].writer # "closed"
  /\ \A w \in Callers : waits[w] # Nobody => lc[waits[w]].completion # "published"

\* Whatever a runtime is doing when it is asked to shut down, it publishes its
\* completion: a turn, a phase, a backoff, a wait for a slot, a token or a
\* prompt, a spawn that rolls back.
ShutdownCompletes ==
  \A c \in Children : lc[c].shutdown ~> lc[c].completion = "published"
=============================================================================
