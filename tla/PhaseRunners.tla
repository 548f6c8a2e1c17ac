---------------------------- MODULE PhaseRunners ----------------------------
(***************************************************************************)
(* The loop runner and the team runner: pre phases, then either rounds of  *)
(* loop phases or all team members side by side, then post phases.  Each   *)
(* phase is attempted, retried, and nudged while files it must leave are   *)
(* missing.  A phase may say, whatever becomes of its attempt, that the    *)
(* run is to exit the loop or to abort.                                    *)
(*                                                                         *)
(* An attempt's result is its class (ok for exit code 0 and end_turn,      *)
(* retry for a retryable failure, fail for any other) and the directive of *)
(* its markers; labels, sessions, prompts and outputs are left out, as is  *)
(* the choice of the team members that a pre phase skips.                  *)
(***************************************************************************)
EXTENDS Naturals

CONSTANTS PrePhases, PostPhases,   \* number of pre and post phases
          Rounds, LoopPhases,      \* MaxIterations, number of phases in a round
          Members,                 \* team members
          MaxRetries, MaxNudges

ASSUME RunnerAssumption ==
  /\ {PrePhases, PostPhases, Rounds, LoopPhases, MaxRetries} \subseteq Nat
  /\ MaxNudges \in Nat \ {0} /\ "seq" \notin Members

VARIABLES
  runner,    \* "loop" or "team"
  clock,     \* the run's context: live, cancelled, or past its deadline
  stage,     \* pre, main, post
  at,        \* phases of the stage that are done
  round,     \* the loop's iteration
  exiting,   \* the loop saw an exit marker
  halted,    \* the team's own context was cancelled by an abort
  exec,      \* executePhase, by goroutine: "seq" or a team member
  verdict,   \* the RunResult
  aborted,   \* some phase ended with an abort
  broken     \* some phase ended badly, without asking to exit the loop

prVars == <<runner, clock, stage, at, round, exiting, halted, exec, verdict,
            aborted, broken>>
context == <<runner, clock>>
progress == <<stage, at, round, exiting, verdict>>
marks == <<halted, aborted, broken>>

Directives == {"none", "exit", "abort"}
Severity == [d \in Directives |-> CASE d = "none" -> 0 [] d = "exit" -> 2 [] d = "abort" -> 3]
Results == [class : {"ok", "retry", "fail"}, said : Directives]
Waiting == [pc |-> "off", tries |-> 0, nudges |-> 0, class |-> "ok", said |-> "none"]
Begun == [Waiting EXCEPT !.pc = "attempt"]
Goroutines == Members \cup {"seq"}

PrInit ==
  /\ runner \in {"loop", "team"} /\ clock = "live"
  /\ stage = "pre" /\ at = 0 /\ round = 1 /\ exiting = FALSE /\ verdict = "none"
  /\ halted = FALSE /\ aborted = FALSE /\ broken = FALSE
  /\ exec = [g \in Goroutines |-> Waiting]

\* Mutant: the members run under the run's context.
Dead_RunOnly(g) == clock # "live"

\* A team member runs under the team's context, every other phase under the run's.
Dead(g) == clock # "live" \/ (g \in Members /\ halted)
CancelClass == IF clock = "deadline" THEN "timeout" ELSE "cancelled"
\* What an attempt can come back with: a cancelled one says so, or won the race.
Returns(g) ==
  Results \cup (IF Dead(g) THEN [class : {CancelClass}, said : Directives] ELSE {})

-----------------------------------------------------------------------------
(* executePhase, runPhaseWithRetry and completePhaseRequirements. *)

\* A failed attempt's directive counts if it is the most severe so far; any
\* other attempt's replaces what was said.
Accumulated(e, r) ==
  IF r.class = "retry" /\ Severity[r.said] <= Severity[e.said] THEN e.said ELSE r.said

MayRetry(e) == e.tries < MaxRetries

PhaseAttempt(g) ==
  /\ exec[g].pc = "attempt"
  /\ \E r \in Returns(g) :
       exec' = [exec EXCEPT ![g] =
         [exec[g] EXCEPT !.class = r.class, !.said = Accumulated(exec[g], r), !.tries = @ + 1,
                         !.pc = IF r.class = "retry" /\ MayRetry(exec[g])
                                  THEN "backoff" ELSE "require"]]
  /\ UNCHANGED <<context, progress, marks>>

\* The attempt could not be made at all: the run fails with the error, a
\* member counts as failed, or as timed out past the deadline.
AttemptErrors(g) ==
  /\ exec[g].pc \in {"attempt", "nudge"}
  /\ exec' = [exec EXCEPT ![g] = [@ EXCEPT !.pc = "ended", !.said = "none",
                !.class = CASE g = "seq" -> "error"
                            [] g # "seq" /\ clock = "deadline" -> "timeout"
                            [] OTHER -> "fail"]]
  /\ UNCHANGED <<context, progress, marks>>

\* A phase that is a loop or a team of its own: no retry, no nudge; a blocked
\* nested run is an abort.
NestedRun(g) ==
  /\ exec[g].pc = "attempt" /\ exec[g].tries = 0
  /\ \E r \in Returns(g) :
       /\ r.said = IF r.class = "fail" THEN "abort" ELSE "none"
       /\ exec' = [exec EXCEPT ![g] = [@ EXCEPT !.pc = "ended", !.class = r.class, !.said = r.said]]
  /\ UNCHANGED <<context, progress, marks>>

\* The wait before a retry ends, cannot be honoured, or is cut off.
Backoff(g) ==
  /\ exec[g].pc = "backoff"
  /\ \/ exec' = [exec EXCEPT ![g].pc = "attempt"]
     \/ exec' = [exec EXCEPT ![g].pc = "require"]
     \/ /\ Dead(g)
        /\ exec' = [exec EXCEPT ![g] = [exec[g] EXCEPT !.pc = "require",
                      !.class = IF clock = "deadline" THEN "timeout" ELSE @]]
  /\ UNCHANGED <<context, progress, marks>>

\* The required files are looked at: only a clean phase is held to them.
MissingRequiredFiles(g) ==
  /\ exec[g].pc = "require"
  /\ \E missing \in BOOLEAN :
       exec' = [exec EXCEPT ![g].pc = IF missing /\ exec[g].class = "ok" THEN "nudge" ELSE "ended"]
  /\ UNCHANGED <<context, progress, marks>>

\* A loop phase keeps what it had said, a team phase says nothing any more.
Incomplete(e) ==
  [e EXCEPT !.class = "incomplete", !.said = IF runner = "loop" THEN e.said ELSE "none"]

\* The phase is asked again for the missing files, a bounded number of times.
\* A nudged attempt that is clean and complete, or fails, is the phase's result.
Nudge(g) ==
  /\ exec[g].pc = "nudge"
  /\ \/ /\ exec[g].nudges = MaxNudges
        /\ exec' = [exec EXCEPT ![g] = [Incomplete(exec[g]) EXCEPT !.pc = "ended"]]
     \/ /\ exec[g].nudges < MaxNudges /\ Dead(g)
        /\ exec' = [exec EXCEPT ![g] = [exec[g] EXCEPT !.pc = "ended", !.class = CancelClass]]
     \/ /\ exec[g].nudges < MaxNudges /\ ~Dead(g)
        /\ exec' = [exec EXCEPT ![g].pc = "nudged", ![g].nudges = @ + 1]
  /\ UNCHANGED <<context, progress, marks>>

NudgeReturns(g) ==
  /\ exec[g].pc = "nudged"
  /\ \E r \in Returns(g), missing \in BOOLEAN :
       exec' = [exec EXCEPT ![g] =
         IF missing /\ r.class = "ok" THEN [@ EXCEPT !.pc = "nudge"]
         ELSE [@ EXCEPT !.pc = "ended", !.class = r.class, !.said = r.said]]
  /\ UNCHANGED <<context, progress, marks>>

-----------------------------------------------------------------------------
(* The runners. *)

Going == verdict = "none"
InLoop == runner = "loop" /\ stage = "main"
InTeam == runner = "team" /\ stage = "main"
StageLength == CASE stage = "pre" -> PrePhases [] stage = "post" -> PostPhases [] OTHER -> LoopPhases
StageDone == at >= StageLength
Settle(v) == verdict' = v /\ UNCHANGED <<stage, at, round, exiting>>

\* The next phase of a sequence, unless the context is dead: the loop asks
\* before each round, the other sequences before each phase.
StartPhase ==
  /\ Going /\ ~InTeam /\ ~StageDone /\ exec["seq"].pc = "off"
  /\ \/ /\ clock = "live" \/ (InLoop /\ at > 0)
        /\ exec' = [exec EXCEPT !["seq"] = Begun]
        /\ UNCHANGED progress
     \/ /\ clock # "live" /\ ~(InLoop /\ at > 0)
        /\ Settle(CancelClass) /\ UNCHANGED exec
  /\ UNCHANGED <<context, marks>>

Failed(e) == e.class # "ok"

\* Mutant: a phase that succeeded cannot abort.
Aborts_Failed(e) == e.said = "abort" /\ e.class # "ok"

Aborts(e) == e.said = "abort"

\* What a finished phase leaves behind for the properties.
Note(es, exits) ==
  /\ aborted' = (aborted \/ \E e \in es : e.said = "abort")
  /\ broken' = (broken \/ \E e \in es : e.class # "ok" /\ ~(exits /\ e.said = "exit"))

\* A phase of a sequence has ended.  An error comes first, then a dead
\* context, an abort, an exit marker of the loop, and last the phase's class.
PhaseEnds ==
  LET e == exec["seq"]
  IN /\ Going /\ e.pc = "ended"
     /\ exec' = [exec EXCEPT !["seq"] = Waiting]
     /\ Note({e}, InLoop)
     /\ CASE e.class = "error" -> Settle("error")
          [] e.class # "error" /\ clock # "live" -> Settle(CancelClass)
          [] e.class # "error" /\ clock = "live" /\ Aborts(e) -> Settle("blocked")
          [] e.class # "error" /\ clock = "live" /\ ~Aborts(e) /\ e.said = "exit" /\ InLoop ->
               /\ stage' = "post" /\ at' = 0 /\ exiting' = TRUE
               /\ UNCHANGED <<round, verdict>>
          [] clock = "live" /\ ~Aborts(e) /\ ~(e.said = "exit" /\ InLoop)
               /\ e.class # "error" /\ Failed(e) -> Settle(e.class)
          [] OTHER -> at' = at + 1 /\ UNCHANGED <<stage, round, exiting, verdict>>
     /\ UNCHANGED <<context, halted>>

\* A sequence is done: another round, the next stage, or the end of the run.
StageEnds ==
  /\ Going /\ ~InTeam /\ StageDone
  /\ CASE stage = "pre" -> stage' = "main" /\ at' = 0 /\ UNCHANGED <<round, exiting, verdict>>
       [] stage = "main" /\ round < Rounds /\ LoopPhases > 0 ->
            round' = round + 1 /\ at' = 0 /\ UNCHANGED <<stage, exiting, verdict>>
       [] stage = "main" /\ (round = Rounds \/ LoopPhases = 0) ->
            stage' = "post" /\ at' = 0 /\ UNCHANGED <<round, exiting, verdict>>
       [] stage = "post" -> Settle("ok")
  /\ UNCHANGED <<context, marks, exec>>

\* All members start at once, under a context of their own.
StartMembers ==
  /\ Going /\ InTeam /\ \A m \in Members : exec[m].pc = "off"
  /\ exec' = [g \in Goroutines |-> IF g \in Members THEN Begun ELSE exec[g]]
  /\ UNCHANGED <<context, progress, marks>>

\* A member has ended; the first abort cancels the others.
MemberEnds(m) ==
  /\ Going /\ exec[m].pc = "ended"
  /\ halted' = (halted \/ Aborts(exec[m]))
  /\ exec' = [exec EXCEPT ![m].pc = "joined"]
  /\ UNCHANGED <<context, progress, aborted, broken>>

\* wg.Wait: an abort outranks a failure.
JoinMembers ==
  LET es == {exec[m] : m \in Members}
  IN /\ Going /\ InTeam /\ \A m \in Members : exec[m].pc = "joined"
     /\ Note(es, FALSE)
     /\ exec' = [g \in Goroutines |-> Waiting]
     /\ \/ /\ \E e \in es : Aborts(e)
           /\ Settle("blocked")
        \/ /\ \A e \in es : ~Aborts(e)
           /\ \E e \in es : Failed(e) /\ Settle(e.class)
        \/ /\ \A e \in es : ~Aborts(e) /\ ~Failed(e)
           /\ stage' = "post" /\ at' = 0 /\ UNCHANGED <<round, exiting, verdict>>
     /\ UNCHANGED <<context, halted>>

\* The run is cancelled or its deadline passes.
ContextEnds ==
  /\ Going /\ clock = "live" /\ clock' \in {"cancelled", "deadline"}
  /\ UNCHANGED <<runner, progress, marks, exec>>

PhaseStep(g) == Backoff(g) \/ MissingRequiredFiles(g) \/ Nudge(g)
ProviderReturns(g) == PhaseAttempt(g) \/ AttemptErrors(g) \/ NestedRun(g) \/ NudgeReturns(g)
RunnerStep ==
  \/ StartPhase \/ PhaseEnds \/ StageEnds \/ StartMembers \/ JoinMembers
  \/ \E m \in Members : MemberEnds(m)

PrNext ==
  \/ \E g \in Goroutines : PhaseStep(g) \/ ProviderReturns(g)
  \/ RunnerStep \/ ContextEnds

PrSpec == PrInit /\ [][PrNext]_prVars

-----------------------------------------------------------------------------
(* A run reports success only if no phase failed, none aborted and, past   *)
(* an abort or a failure, none was started; the one exception is a loop    *)
(* phase that asked to exit the loop, whose own failure is not looked at.  *)
SuccessIsEarned == verdict = "ok" => ~broken /\ ~aborted

(* A run whose context died, or whose team saw an abort, comes to its end: *)
(* every member is joined, although members run side by side and each may  *)
(* be in an attempt, in a backoff or being nudged.                         *)
StoppedRunEnds == (clock # "live" \/ halted) ~> verdict # "none"
=============================================================================
