---------------------------- MODULE ServiceProofs ----------------------------
(***************************************************************************)
(* Two services of a supervisor, for any number of supervisors, leases,    *)
(* phases and members: a parent that awaits its child can always be        *)
(* resumed from what is durable (WorkflowComposition), and a loop or a     *)
(* team that reports success has earned it (PhaseRunners).  The two share  *)
(* no state.                                                               *)
(***************************************************************************)
EXTENDS WorkflowComposition, PhaseRunners, TLAPS

-----------------------------------------------------------------------------
(***************************************************************************)
(* The composition of a parent with its child.                             *)
(***************************************************************************)
WorkSteps == {"none", "attaching", "waiting", "resolving", "recording", "resuming"}
Trials == {"none", "starting", "succeeded", "timed_out"}

WcTyped ==
  /\ ties \in 0..MaxTies /\ tie \in {0, ties}
  /\ trial \in [Attempts -> Trials]
  /\ work \in [Servers -> [Attempts -> WorkSteps]]

\* Only a claimed parent has a lease, and it is the last one that was granted.
TiedParent ==
  /\ parent \in {"leased", "running", "awaiting_child"} => tie # 0
  /\ parent \notin {"leased", "running", "awaiting_child"} => tie = 0

\* The attempt of the lease: not started while leased, open afterwards.
TiedAttempt ==
  /\ \A a \in Attempts : a > ties => trial[a] = "none"
  /\ parent = "leased" => trial[tie] = "none"
  /\ parent \in {"running", "awaiting_child"} => trial[tie] = "starting"

ChildThere ==
  /\ parent # "absent" => child # "absent"
  /\ parent = "awaiting_child" => attached

\* A supervisor works on attempts that were started, and records the end of one
\* only when the parent is satisfied, which it then stays.
WorkIsStarted ==
  \A s \in Servers, a \in Attempts :
    /\ work[s][a] # "none" => trial[a] # "none"
    /\ work[s][a] = "recording" => parent = "satisfied"

WcIInv == WcTyped /\ TiedParent /\ TiedAttempt /\ ChildThere /\ WorkIsStarted

\* The attempt a restart takes up is the one of the lease.
LEMMA LastTryIsTie ==
  ASSUME WcIInv, parent \in {"running", "awaiting_child"}
  PROVE  tie \in Attempts /\ LastTry = tie /\ trial[tie] = "starting"
<1>1. tie \in Attempts /\ tie = ties /\ ties \in Nat
  BY CompositionAssumption DEF WcIInv, WcTyped, TiedParent, Attempts
<1>2. trial[tie] = "starting" /\ \A b \in Attempts : trial[b] # "none" => b <= tie
  BY <1>1, CompositionAssumption DEF WcIInv, TiedAttempt, Attempts
<1>3. \A a \in Attempts : (trial[a] # "none" /\ \A b \in Attempts : trial[b] # "none" => b <= a)
                            => a = tie
  BY <1>1, <1>2, CompositionAssumption DEF Attempts
<1>. QED  BY <1>1, <1>2, <1>3 DEF LastTry

\* Steps that touch neither the lease nor an attempt.
LEMMA ParentSteps ==
  ASSUME WcIInv, \/ ensureChildInstance \/ instantiateTemplate \/ ChildEnds
                 \/ TieLapses \/ RenewTie
  PROVE  WcIInv'
BY DEF WcIInv, WcTyped, TiedParent, TiedAttempt, ChildThere, WorkIsStarted,
       ensureChildInstance, instantiateTemplate, ChildExists, ChildEnds, TieLapses, RenewTie

LEMMA ClaimStep ==
  ASSUME WcIInv, ClaimParent
  PROVE  WcIInv'
<1>1. /\ parent' = "leased" /\ ties' = ties + 1 /\ tie' = ties + 1 /\ ties < MaxTies
      /\ UNCHANGED <<trial, attached, child, work>> /\ parent \in {"pending", "lease_expired"}
  BY DEF ClaimParent
<1>2. ties \in Nat /\ MaxTies \in Nat
  BY CompositionAssumption DEF WcIInv, WcTyped
<1>3. WcTyped'
  BY <1>1, <1>2 DEF WcIInv, WcTyped
<1>4. TiedAttempt'
  BY <1>1, <1>2 DEF WcIInv, TiedAttempt, Attempts
<1>5. TiedParent' /\ ChildThere' /\ WorkIsStarted'
  BY <1>1, <1>2 DEF WcIInv, TiedParent, ChildThere, WorkIsStarted
<1>. QED  BY <1>3, <1>4, <1>5 DEF WcIInv

LEMMA StartStep ==
  ASSUME WcIInv, NEW s \in Servers, StartParent(s)
  PROVE  WcIInv'
<1>1. /\ parent = "leased" /\ parent' = "running"
      /\ trial' = [trial EXCEPT ![tie] = "starting"]
      /\ work' = [work EXCEPT ![s][tie] = "attaching"]
      /\ UNCHANGED <<tie, ties, attached, child>>
  BY DEF StartParent
<1>2. tie \in Attempts /\ tie = ties /\ ties \in Nat
  BY <1>1, CompositionAssumption DEF WcIInv, WcTyped, TiedParent, Attempts
<1>3. WcTyped'
  BY <1>1, <1>2 DEF WcIInv, WcTyped, WorkSteps, Trials
<1>4. TiedAttempt'
  BY <1>1, <1>2 DEF WcIInv, WcTyped, TiedAttempt, Attempts
<1>5. TiedParent' /\ ChildThere'
  BY <1>1 DEF WcIInv, TiedParent, ChildThere
<1>6. WorkIsStarted'
  <2>. SUFFICES ASSUME NEW t \in Servers, NEW a \in Attempts
                PROVE  /\ work'[t][a] # "none" => trial'[a] # "none"
                       /\ work'[t][a] = "recording" => parent' = "satisfied"
    BY DEF WorkIsStarted
  <2>1. (t = s /\ a = tie) \/ work'[t][a] = work[t][a]
    BY <1>1 DEF WcIInv, WcTyped
  <2>2. trial'[a] = IF a = tie THEN "starting" ELSE trial[a]
    BY <1>1 DEF WcIInv, WcTyped
  <2>3. t = s /\ a = tie => work'[t][a] = "attaching"
    BY <1>1 DEF WcIInv, WcTyped
  <2>. QED  BY <1>1, <2>1, <2>2, <2>3 DEF WcIInv, WorkIsStarted
<1>. QED  BY <1>3, <1>4, <1>5, <1>6 DEF WcIInv

\* A supervisor moves on with an attempt; what it may do to the parent.
LEMMA WorkMoves ==
  ASSUME WcIInv, NEW s \in Servers, NEW a \in Attempts, NEW w \in WorkSteps,
         work' = [work EXCEPT ![s][a] = w], w # "none" => trial[a] # "none",
         w = "recording" => parent' = "satisfied",
         parent = "satisfied" => parent' = "satisfied", trial' = trial
  PROVE  WorkIsStarted' /\ work' \in [Servers -> [Attempts -> WorkSteps]]
<1>0. work \in [Servers -> [Attempts -> WorkSteps]]
  BY DEF WcIInv, WcTyped
<1>1. \A t \in Servers, b \in Attempts :
         work'[t][b] = IF t = s /\ b = a THEN w ELSE work[t][b]
  BY <1>0
<1>2. WorkIsStarted'
  BY <1>1 DEF WcIInv, WorkIsStarted
<1>. QED  BY <1>0, <1>2

LEMMA ExecutorSteps ==
  ASSUME WcIInv, NEW s \in Servers, NEW a \in Attempts,
         \/ attachChild(s, a) \/ awaitChildTerminal(s, a) \/ WaitExpires(s, a)
         \/ resolveChildOutcome(s, a) \/ resumeAwaitingChild(s, a)
  PROVE  WcIInv'
<1>1. PICK w \in WorkSteps :
        /\ work' = [work EXCEPT ![s][a] = w]
        /\ w = "recording" => parent' = "satisfied"
  BY DEF attachChild, awaitChildTerminal, WaitExpires, resolveChildOutcome,
         resumeAwaitingChild, WorkSteps
<1>2. work[s][a] # "none" /\ UNCHANGED <<ties, trial, child>>
  BY DEF attachChild, awaitChildTerminal, WaitExpires, resolveChildOutcome, resumeAwaitingChild
<1>3. \/ UNCHANGED <<parent, tie, attached>>
      \/ /\ MayAttach(a) /\ parent' = "awaiting_child" /\ attached' = TRUE /\ tie' = tie
      \/ /\ parent \in {"awaiting_child", "satisfied"} /\ parent' = "satisfied"
         /\ tie' = 0 /\ attached' = attached
  BY DEF attachChild, awaitChildTerminal, WaitExpires, resolveChildOutcome,
         resumeAwaitingChild, Resolvable
<1>4. trial[a] # "none"
  BY <1>2 DEF WcIInv, WorkIsStarted
<1>5. WorkIsStarted' /\ work' \in [Servers -> [Attempts -> WorkSteps]]
  BY <1>1, <1>2, <1>3, <1>4, WorkMoves DEF MayAttach
<1>6. WcTyped'
  BY <1>2, <1>3, <1>5 DEF WcIInv, WcTyped
<1>7. TiedParent' /\ TiedAttempt'
  BY <1>2, <1>3, <1>4 DEF WcIInv, TiedParent, TiedAttempt, MayAttach
<1>8. ChildThere'
  BY <1>2, <1>3 DEF WcIInv, ChildThere, MayAttach
<1>. QED  BY <1>5, <1>6, <1>7, <1>8 DEF WcIInv

\* An attempt is closed as succeeded when the parent is satisfied.
LEMMA RecordStep ==
  ASSUME WcIInv, NEW s \in Servers, NEW a \in Attempts, RecordAttemptTerminated(s, a)
  PROVE  WcIInv'
<1>1. /\ work[s][a] = "recording" /\ UNCHANGED <<parent, tie, ties, attached, child>>
      /\ trial' = [trial EXCEPT ![a] = IF @ = "starting" THEN "succeeded" ELSE @]
      /\ work' = [work EXCEPT ![s][a] = "none"]
  BY DEF RecordAttemptTerminated
<1>2. parent = "satisfied" /\ trial[a] # "none"
  BY <1>1 DEF WcIInv, WorkIsStarted
<1>3. /\ trial' \in [Attempts -> Trials]
      /\ \A b \in Attempts : trial'[b] = "none" <=> trial[b] = "none"
  BY <1>1, <1>2 DEF WcIInv, WcTyped, Trials
<1>4. /\ work' \in [Servers -> [Attempts -> WorkSteps]]
      /\ \A t \in Servers, b \in Attempts :
           work'[t][b] = IF t = s /\ b = a THEN "none" ELSE work[t][b]
  BY <1>1 DEF WcIInv, WcTyped, WorkSteps
<1>5. WcTyped'
  BY <1>1, <1>3, <1>4 DEF WcIInv, WcTyped
<1>6. TiedParent' /\ TiedAttempt' /\ ChildThere'
  BY <1>1, <1>2, <1>3 DEF WcIInv, TiedParent, TiedAttempt, ChildThere
<1>7. WorkIsStarted'
  BY <1>1, <1>2, <1>3, <1>4 DEF WcIInv, WorkIsStarted
<1>. QED  BY <1>5, <1>6, <1>7 DEF WcIInv

\* What the sweep does to the lease, the parent and the attempts.
LEMMA SweptKeeps ==
  ASSUME WcIInv, Swept, UNCHANGED <<ties, attached, child>>
  PROVE  /\ ties' \in 0..MaxTies /\ tie' \in {0, ties'} /\ trial' \in [Attempts -> Trials]
         /\ TiedParent' /\ TiedAttempt' /\ ChildThere'
         /\ \A a \in Attempts : trial[a] # "none" => trial'[a] # "none"
         /\ parent = "satisfied" => parent' = "satisfied"
<1>1. CASE StaleTie
  <2>1. /\ parent' = "lease_expired" /\ tie' = 0 /\ parent # "awaiting_child"
        /\ trial' = [a \in Attempts |-> IF trial[a] = "starting" THEN "timed_out" ELSE trial[a]]
        /\ tie # 0
    BY <1>1 DEF Swept, StaleTie
  <2>2. trial' \in [Attempts -> Trials]
        /\ \A a \in Attempts : trial'[a] = "none" <=> trial[a] = "none"
    BY <2>1 DEF WcIInv, WcTyped, Trials
  <2>3. parent \in {"leased", "running", "awaiting_child"}
    BY <2>1 DEF WcIInv, TiedParent
  <2>. QED  BY <2>1, <2>2, <2>3 DEF WcIInv, WcTyped, TiedParent, TiedAttempt, ChildThere
<1>2. CASE ~StaleTie
  <2>1. parent' = parent /\ tie' = tie /\ trial' = [a \in Attempts |-> trial[a]]
    BY <1>2 DEF Swept
  <2>2. trial' = trial
    BY <2>1 DEF WcIInv, WcTyped
  <2>. QED  BY <2>1, <2>2 DEF WcIInv, WcTyped, TiedParent, TiedAttempt, ChildThere
<1>. QED  BY <1>1, <1>2

LEMMA SweepStep ==
  ASSUME WcIInv, SweepTies
  PROVE  WcIInv'
<1>1. Swept /\ UNCHANGED <<ties, attached, child, work>>
  BY DEF SweepTies
<1>. QED  BY <1>1, SweptKeeps DEF WcIInv, WcTyped, WorkIsStarted

LEMMA EndingSteps ==
  ASSUME WcIInv, CompleteParent \/ CancelParent
  PROVE  WcIInv'
BY DEF WcIInv, WcTyped, TiedParent, TiedAttempt, ChildThere, WorkIsStarted,
       CompleteParent, CancelParent

LEMMA StopStep ==
  ASSUME WcIInv, NEW s \in Servers, StopServer(s)
  PROVE  WcIInv'
<1>1. work' = [work EXCEPT ![s] = NoWork] /\ UNCHANGED <<parent, tie, ties, trial, attached, child>>
  BY DEF StopServer
<1>2. NoWork \in [Attempts -> WorkSteps] /\ \A a \in Attempts : NoWork[a] = "none"
  BY DEF NoWork, WorkSteps
<1>3. work' \in [Servers -> [Attempts -> WorkSteps]]
      /\ \A t \in Servers, a \in Attempts : work'[t][a] = "none" \/ work'[t][a] = work[t][a]
  BY <1>1, <1>2 DEF WcIInv, WcTyped
<1>4. WorkIsStarted'
  BY <1>1, <1>3 DEF WcIInv, WorkIsStarted
<1>. QED  BY <1>1, <1>3, <1>4 DEF WcIInv, WcTyped, TiedParent, TiedAttempt, ChildThere

\* A restart takes up the attempt of the lease.
LEMMA RestartStep ==
  ASSUME WcIInv, NEW s \in Servers, StartServer(s)
  PROVE  WcIInv'
<1>1. /\ Swept /\ UNCHANGED <<ties, attached, child>>
      /\ \/ work' = work
         \/ parent = "awaiting_child" /\ work' = [work EXCEPT ![s][LastTry] = "resuming"]
  BY DEF StartServer
<1>2. /\ \A a \in Attempts : trial[a] # "none" => trial'[a] # "none"
      /\ parent = "satisfied" => parent' = "satisfied"
  BY <1>1, SweptKeeps
<1>3. CASE work' = work
  BY <1>1, <1>2, <1>3, SweptKeeps DEF WcIInv, WcTyped, WorkIsStarted
<1>4. CASE parent = "awaiting_child" /\ work' = [work EXCEPT ![s][LastTry] = "resuming"]
  <2>1. LastTry \in Attempts /\ trial[LastTry] # "none"
    BY <1>4, LastTryIsTie
  <2>2. /\ work' \in [Servers -> [Attempts -> WorkSteps]]
        /\ \A t \in Servers, a \in Attempts :
             work'[t][a] = IF t = s /\ a = LastTry THEN "resuming" ELSE work[t][a]
    BY <1>4, <2>1 DEF WcIInv, WcTyped, WorkSteps
  <2>3. WorkIsStarted'
    BY <1>2, <2>1, <2>2 DEF WcIInv, WorkIsStarted
  <2>. QED  BY <1>1, <2>2, <2>3, SweptKeeps DEF WcIInv, WcTyped
<1>. QED  BY <1>1, <1>3, <1>4

\* In every reachable state of a composition a lease belongs to the last attempt,
\* which is open while the parent runs or awaits its child, and supervisors only
\* work on attempts that were started.
THEOREM CompositionInductive == WcInit /\ [][WcNext]_wcVars => []WcIInv
<1>1. WcInit => WcIInv
  BY CompositionAssumption
     DEF WcInit, WcIInv, WcTyped, TiedParent, TiedAttempt, ChildThere, WorkIsStarted,
         NoWork, Trials, WorkSteps, Attempts
<1>2. WcIInv /\ [WcNext]_wcVars => WcIInv'
  <2>. SUFFICES ASSUME WcIInv, [WcNext]_wcVars PROVE WcIInv'
    OBVIOUS
  <2>1. CASE UNCHANGED wcVars
    BY <2>1 DEF wcVars, WcIInv, WcTyped, TiedParent, TiedAttempt, ChildThere, WorkIsStarted
  <2>2. CASE \/ ensureChildInstance \/ instantiateTemplate \/ ChildEnds
             \/ TieLapses \/ RenewTie
    BY <2>2, ParentSteps
  <2>3. CASE ClaimParent \/ SweepTies \/ CompleteParent \/ CancelParent
    BY <2>3, ClaimStep, SweepStep, EndingSteps
  <2>4. ASSUME NEW s \in Servers, StartParent(s) \/ StopServer(s) \/ StartServer(s)
        PROVE  WcIInv'
    BY <2>4, StartStep, StopStep, RestartStep
  <2>5. ASSUME NEW s \in Servers, NEW a \in Attempts, Executes(s, a) \/ WaitExpires(s, a)
        PROVE  WcIInv'
    BY <2>5, ExecutorSteps, RecordStep DEF Executes
  <2>. QED  BY <2>1, <2>2, <2>3, <2>4, <2>5 DEF WcNext
<1>. QED  BY <1>1, <1>2, PTL

\* AwaitingIsResumable for any number of supervisors, leases, stops and waits:
\* what a restart needs to resume a parent is durable whenever it awaits its child.
THEOREM AlwaysResumable == WcFairSpec => []AwaitingIsResumable
<1>1. WcIInv => AwaitingIsResumable
  BY LastTryIsTie DEF AwaitingIsResumable, WcIInv, TiedParent, ChildThere
<1>. QED  BY <1>1, CompositionInductive, PTL DEF WcFairSpec

-----------------------------------------------------------------------------
(***************************************************************************)
(* The loop and team runners.                                              *)
(***************************************************************************)
Classes == {"ok", "retry", "fail", "cancelled", "timeout", "incomplete", "error"}
Steps == {"off", "attempt", "backoff", "require", "nudge", "nudged", "ended", "joined"}
Sessions == [pc : Steps, tries : Nat, nudges : Nat, class : Classes, said : Directives]

PrTyped ==
  /\ exec \in [Goroutines -> Sessions]
  /\ aborted \in BOOLEAN /\ broken \in BOOLEAN

\* A run goes on only as long as nothing went wrong.
UnbrokenGoes == verdict \in {"none", "ok"} => ~broken /\ ~aborted

PrIInv == PrTyped /\ UnbrokenGoes

\* What attempts come back with.
LEMMA ReturnsAreResults ==
  ASSUME NEW g \in Goroutines, NEW r \in Returns(g)
  PROVE  r.class \in Classes /\ r.said \in Directives
BY DEF Returns, Results, CancelClass, Classes

\* The fields of a phase's record may be replaced one by one.
LEMMA FieldByField ==
  ASSUME NEW e \in Sessions
  PROVE  /\ \A q \in Steps : [e EXCEPT !.pc = q] \in Sessions
         /\ \A q \in Steps, c \in Classes : [e EXCEPT !.pc = q, !.class = c] \in Sessions
         /\ \A c \in Classes, d \in Directives : [e EXCEPT !.class = c, !.said = d] \in Sessions
         /\ \A q \in Steps, n \in Nat : [e EXCEPT !.pc = q, !.nudges = n] \in Sessions
         /\ \A q \in Steps, n \in Nat, c \in Classes, d \in Directives :
              [e EXCEPT !.class = c, !.said = d, !.tries = n, !.pc = q] \in Sessions
BY DEF Sessions, Steps

\* A goroutine of a phase moves on: the run is not concerned.
LEMMA PhaseMoves ==
  ASSUME PrIInv, NEW g \in Goroutines, NEW e \in Sessions,
         exec' = [exec EXCEPT ![g] = e], UNCHANGED <<verdict, aborted, broken>>
  PROVE  PrIInv'
BY DEF PrIInv, PrTyped, UnbrokenGoes

LEMMA AttemptSteps ==
  ASSUME PrIInv, NEW g \in Goroutines, PhaseAttempt(g) \/ NestedRun(g) \/ NudgeReturns(g)
  PROVE  PrIInv'
<1>0. exec \in [Goroutines -> Sessions] /\ exec[g] \in Sessions
  BY DEF PrIInv, PrTyped
<1>1. UNCHANGED <<verdict, aborted, broken>>
  BY DEF PhaseAttempt, NestedRun, NudgeReturns, progress, marks
<1>2. CASE PhaseAttempt(g)
  <2>1. PICK r \in Returns(g) :
         exec' = [exec EXCEPT ![g] =
           [exec[g] EXCEPT !.class = r.class, !.said = Accumulated(exec[g], r), !.tries = @ + 1,
                     !.pc = IF r.class = "retry" /\ MayRetry(exec[g])
                              THEN "backoff" ELSE "require"]]
    BY <1>2 DEF PhaseAttempt
  <2>. DEFINE e == [exec[g] EXCEPT !.class = r.class, !.said = Accumulated(exec[g], r), !.tries = @ + 1,
                     !.pc = IF r.class = "retry" /\ MayRetry(exec[g])
                              THEN "backoff" ELSE "require"]
  <2>2. exec' = [exec EXCEPT ![g] = e]
    BY <1>0, <2>1
  <2>3. r.class \in Classes /\ Accumulated(exec[g], r) \in Directives
    BY <1>0, ReturnsAreResults DEF Accumulated, Sessions
  <2>4. e \in Sessions
    <3>. DEFINE n == exec[g].tries + 1
                q == IF r.class = "retry" /\ MayRetry(exec[g]) THEN "backoff" ELSE "require"
    <3>1. n \in Nat /\ q \in Steps
      BY <1>0 DEF Sessions, Steps
    <3>2. e = [exec[g] EXCEPT !.class = r.class, !.said = Accumulated(exec[g], r),
                              !.tries = n, !.pc = q]
      OBVIOUS
    <3>. HIDE DEF n, q, e
    <3>. QED  BY <1>0, <2>3, <3>1, <3>2, FieldByField
  <2>. HIDE DEF e
  <2>. QED  BY <1>1, <2>2, <2>4, PhaseMoves
<1>3. CASE NestedRun(g)
  <2>1. PICK r \in Returns(g) :
         exec' = [exec EXCEPT ![g] = [@ EXCEPT !.pc = "ended", !.class = r.class, !.said = r.said]]
    BY <1>3 DEF NestedRun
  <2>. DEFINE e == [exec[g] EXCEPT !.pc = "ended", !.class = r.class, !.said = r.said]
  <2>2. exec' = [exec EXCEPT ![g] = e]
    BY <1>0, <2>1
  <2>3. e \in Sessions
    BY <1>0, ReturnsAreResults DEF Sessions, Steps
  <2>. HIDE DEF e
  <2>. QED  BY <1>1, <2>2, <2>3, PhaseMoves
<1>4. CASE NudgeReturns(g)
  <2>1. PICK r \in Returns(g), missed \in BOOLEAN :
         exec' = [exec EXCEPT ![g] =
           IF missed /\ r.class = "ok" THEN [@ EXCEPT !.pc = "nudge"]
           ELSE [@ EXCEPT !.pc = "ended", !.class = r.class, !.said = r.said]]
    BY <1>4 DEF NudgeReturns
  <2>. DEFINE e == IF missed /\ r.class = "ok" THEN [exec[g] EXCEPT !.pc = "nudge"]
                   ELSE [exec[g] EXCEPT !.pc = "ended", !.class = r.class, !.said = r.said]
  <2>2. exec' = [exec EXCEPT ![g] = e]
    BY <1>0, <2>1
  <2>3. e \in Sessions
    BY <1>0, ReturnsAreResults DEF Sessions, Steps
  <2>. HIDE DEF e
  <2>. QED  BY <1>1, <2>2, <2>3, PhaseMoves
<1>. QED  BY <1>2, <1>3, <1>4

LEMMA WaitingSteps ==
  ASSUME PrIInv, NEW g \in Goroutines,
         AttemptErrors(g) \/ Backoff(g) \/ MissingRequiredFiles(g) \/ Nudge(g)
  PROVE  PrIInv'
<1>0. exec \in [Goroutines -> Sessions] /\ exec[g] \in Sessions
  BY DEF PrIInv, PrTyped
<1>1. UNCHANGED <<verdict, aborted, broken>>
  BY DEF AttemptErrors, Backoff, MissingRequiredFiles, Nudge, progress, marks
<1>2. exec' = [exec EXCEPT ![g] = exec'[g]]
  BY <1>0 DEF AttemptErrors, Backoff, MissingRequiredFiles, Nudge
<1>3. exec'[g] \in Sessions
  <2>1. CASE AttemptErrors(g)
    BY <1>0, <2>1 DEF AttemptErrors, Sessions, Steps, Classes, Directives
  <2>2. CASE Backoff(g)
    <3>. DEFINE c == IF clock = "deadline" THEN "timeout" ELSE exec[g].class
    <3>1. c \in Classes /\ {"attempt", "require"} \subseteq Steps
      BY <1>0 DEF Sessions, Classes, Steps
    <3>2. \/ exec'[g] = [exec[g] EXCEPT !.pc = "attempt"]
          \/ exec'[g] = [exec[g] EXCEPT !.pc = "require"]
          \/ exec'[g] = [exec[g] EXCEPT !.pc = "require", !.class = c]
      BY <1>0, <2>2 DEF Backoff
    <3>. HIDE DEF c
    <3>3. /\ [exec[g] EXCEPT !.pc = "attempt"] \in Sessions
          /\ [exec[g] EXCEPT !.pc = "require"] \in Sessions
      BY <1>0, <3>1, FieldByField
    <3>4. [exec[g] EXCEPT !.pc = "require", !.class = c] \in Sessions
      BY <1>0, <3>1, FieldByField
    <3>. QED  BY <3>2, <3>3, <3>4
  <2>3. CASE MissingRequiredFiles(g)
    BY <1>0, <2>3 DEF MissingRequiredFiles, Sessions, Steps
  <2>4. CASE Nudge(g)
    <3>. DEFINE d == IF runner = "loop" THEN exec[g].said ELSE "none"
                n == exec[g].nudges + 1
                i == [exec[g] EXCEPT !.class = "incomplete", !.said = d]
    <3>1. /\ CancelClass \in Classes /\ "incomplete" \in Classes /\ d \in Directives /\ n \in Nat
          /\ {"ended", "nudged"} \subseteq Steps
      BY <1>0 DEF CancelClass, Sessions, Classes, Steps, Directives
    <3>2. \/ exec'[g] = [i EXCEPT !.pc = "ended"]
          \/ exec'[g] = [exec[g] EXCEPT !.pc = "ended", !.class = CancelClass]
          \/ exec'[g] = [exec[g] EXCEPT !.pc = "nudged", !.nudges = n]
      BY <1>0, <2>4 DEF Nudge, Incomplete
    <3>. HIDE DEF d, n
    <3>3. i \in Sessions
      BY <1>0, <3>1, FieldByField
    <3>. HIDE DEF i
    <3>4. [i EXCEPT !.pc = "ended"] \in Sessions
      BY <3>1, <3>3, FieldByField
    <3>5. [exec[g] EXCEPT !.pc = "ended", !.class = CancelClass] \in Sessions
      BY <1>0, <3>1, FieldByField
    <3>6. [exec[g] EXCEPT !.pc = "nudged", !.nudges = n] \in Sessions
      BY <1>0, <3>1, FieldByField
    <3>. QED  BY <3>2, <3>4, <3>5, <3>6
  <2>. QED  BY <2>1, <2>2, <2>3, <2>4
<1>. QED  BY <1>1, <1>2, <1>3, PhaseMoves

LEMMA WaitingIsSession ==
  Waiting \in Sessions /\ Begun \in Sessions
BY DEF Waiting, Begun, Sessions, Steps, Classes, Directives

\* A sequence: its next phase, the end of one, the end of the sequence.
LEMMA SequenceSteps ==
  ASSUME PrIInv, StartPhase \/ PhaseEnds \/ StageEnds
  PROVE  PrIInv'
<1>0. exec \in [Goroutines -> Sessions] /\ "seq" \in Goroutines /\ exec["seq"] \in Sessions
  BY DEF PrIInv, PrTyped, Goroutines
<1>1. CASE StartPhase
  <2>1. exec' \in [Goroutines -> Sessions]
    BY <1>0, <1>1, WaitingIsSession DEF StartPhase
  <2>2. UNCHANGED <<aborted, broken>> /\ (verdict' = verdict \/ verdict = "none")
    BY <1>1 DEF StartPhase, marks, progress, Going
  <2>. QED  BY <2>1, <2>2 DEF PrIInv, PrTyped, UnbrokenGoes
<1>2. CASE PhaseEnds
  <2>. DEFINE e == exec["seq"]
  <2>1. exec' \in [Goroutines -> Sessions]
    BY <1>0, <1>2, WaitingIsSession DEF PhaseEnds
  <2>2. /\ aborted' = (aborted \/ e.said = "abort")
        /\ broken' = (broken \/ (e.class # "ok" /\ ~(InLoop /\ e.said = "exit")))
    BY <1>2 DEF PhaseEnds, Note
  <2>3. verdict = "none" /\ e.class \in Classes
    BY <1>0, <1>2 DEF PhaseEnds, Going, Sessions
  <2>4. \/ verdict' \notin {"none", "ok"}
        \/ e.said # "abort" /\ (e.class = "ok" \/ (InLoop /\ e.said = "exit"))
    BY <1>2, <2>3 DEF PhaseEnds, Settle, Aborts, Failed, CancelClass, Classes
  <2>. QED  BY <2>1, <2>2, <2>3, <2>4 DEF PrIInv, PrTyped, UnbrokenGoes
<1>3. CASE StageEnds
  <2>1. UNCHANGED <<aborted, broken, exec>> /\ verdict = "none"
    BY <1>3 DEF StageEnds, marks, Going
  <2>. QED  BY <2>1 DEF PrIInv, PrTyped, UnbrokenGoes
<1>. QED  BY <1>1, <1>2, <1>3

\* A team: its members start, end and are joined.
LEMMA TeamSteps ==
  ASSUME PrIInv, StartMembers \/ JoinMembers \/ \E m \in Members : MemberEnds(m)
  PROVE  PrIInv'
<1>0. exec \in [Goroutines -> Sessions]
  BY DEF PrIInv, PrTyped
<1>1. CASE StartMembers
  <2>1. exec' \in [Goroutines -> Sessions] /\ UNCHANGED <<verdict, aborted, broken>>
    BY <1>0, <1>1, WaitingIsSession DEF StartMembers, progress, marks
  <2>. QED  BY <2>1 DEF PrIInv, PrTyped, UnbrokenGoes
<1>2. ASSUME NEW m \in Members, MemberEnds(m) PROVE PrIInv'
  <2>1. exec' = [exec EXCEPT ![m].pc = "joined"] /\ UNCHANGED <<verdict, aborted, broken>>
        /\ m \in Goroutines
    BY <1>2 DEF MemberEnds, progress, Goroutines
  <2>2. exec' \in [Goroutines -> Sessions]
    BY <1>0, <2>1 DEF Sessions, Steps
  <2>. QED  BY <2>1, <2>2 DEF PrIInv, PrTyped, UnbrokenGoes
<1>3. CASE JoinMembers
  <2>. DEFINE es == {exec[m] : m \in Members}
  <2>1. exec' \in [Goroutines -> Sessions] /\ verdict = "none"
    BY <1>3, WaitingIsSession DEF JoinMembers, Going
  <2>2. /\ aborted' = (aborted \/ \E e \in es : e.said = "abort")
        /\ broken' = (broken \/ \E e \in es : e.class # "ok")
    BY <1>3 DEF JoinMembers, Note
  <2>3. \A e \in es : e.class \in Classes
    BY <1>0 DEF Sessions, Goroutines
  <2>4. \/ verdict' \notin {"none", "ok"}
        \/ \A e \in es : e.said # "abort" /\ e.class = "ok"
    BY <1>3, <2>3 DEF JoinMembers, Settle, Aborts, Failed, Classes
  <2>. HIDE DEF es
  <2>. QED  BY <2>1, <2>2, <2>4 DEF PrIInv, PrTyped, UnbrokenGoes
<1>. QED  BY <1>1, <1>2, <1>3

\* In every reachable state of a run, a run that goes on or has succeeded has
\* neither a failed nor an aborted phase behind it.
THEOREM RunnersInductive == PrSpec => []PrIInv
<1>1. PrInit => PrIInv
  BY WaitingIsSession DEF PrInit, PrIInv, PrTyped, UnbrokenGoes
<1>2. PrIInv /\ [PrNext]_prVars => PrIInv'
  <2>. SUFFICES ASSUME PrIInv, [PrNext]_prVars PROVE PrIInv'
    OBVIOUS
  <2>1. CASE UNCHANGED prVars
    BY <2>1 DEF prVars, PrIInv, PrTyped, UnbrokenGoes
  <2>2. ASSUME NEW g \in Goroutines, PhaseStep(g) \/ ProviderReturns(g) PROVE PrIInv'
    BY <2>2, AttemptSteps, WaitingSteps DEF PhaseStep, ProviderReturns
  <2>3. CASE RunnerStep
    BY <2>3, SequenceSteps, TeamSteps DEF RunnerStep
  <2>4. CASE ContextEnds
    BY <2>4 DEF ContextEnds, progress, marks, PrIInv, PrTyped, UnbrokenGoes
  <2>. QED  BY <2>1, <2>2, <2>3, <2>4 DEF PrNext
<1>. QED  BY <1>1, <1>2, PTL DEF PrSpec

\* SuccessIsEarned for any number of phases, rounds, members, retries and nudges.
THEOREM SuccessEarned == PrSpec => []SuccessIsEarned
<1>1. PrIInv => SuccessIsEarned
  BY DEF PrIInv, UnbrokenGoes, SuccessIsEarned
<1>. QED  BY <1>1, RunnersInductive, PTL
=============================================================================
