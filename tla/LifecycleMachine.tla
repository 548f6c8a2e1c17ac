-------------------------- MODULE LifecycleMachine --------------------------
(***************************************************************************)
(* The pure lifecycle machine of a child runtime: the closed state, what   *)
(* validateLifecycleState asks of it, and next(state, signal) as a guard   *)
(* (Legal) and a result (After).  A signal carries the class of the child, *)
(* which never changes, so that the class is a field of the state only.    *)
(***************************************************************************)
EXTENDS Naturals

Gap == {"starting", "idle"}      \* no attempt is live
Execs == Gap \cup {"reserved", "running", "parked", "parkedEnding", "ended"}
States ==
  [exec : Execs, attempts : Nat, shutdown : BOOLEAN,
   writer : {"open", "closing", "closed"},
   completion : {"open", "admissionClosed", "published"},
   class : {"direct", "workflow"},
   probe : {"none", "terminal", "retry"}]

\* Signals of a turn, of parking and its end, and of teardown.
TurnSignals ==
  {"published", "attemptPreparing", "attemptStarted", "attemptStartFailed",
   "attemptSettled", "workflowFinalized", "attemptReturned", "outcomeEnds",
   "probeTerminal", "probeRetry", "continueTerminal", "continueRetry",
   "successPresented"}
ParkSignals ==
  {"parkRequested", "promptDequeued", "localSlotAcquired", "parkTimedOut",
   "parkWaitEnded", "idleContextEnded", "runEnded"}
EndSignals ==
  {"spawnRolledBack", "shutdownRequested", "writerCloseBegun", "writerCloseFinished",
   "publishedAfterTeardown", "publishedAfterRollback", "fault"}
Signals == TurnSignals \cup ParkSignals \cup EndSignals

NewState(class) ==
  [exec |-> "reserved", attempts |-> 0, shutdown |-> FALSE, writer |-> "open",
   completion |-> "open", class |-> class, probe |-> "none"]

isParked(st) == st.exec \in {"parked", "parkedEnding"}
isCompleted(st) == st.completion # "open"
isWriterClosing(st) == st.writer # "open"

\* validateLifecycleState.
Valid(st) ==
  /\ st.attempts > 0 <=> st.exec = "running"
  /\ st.completion # "open" => st.attempts = 0
  /\ st.completion = "admissionClosed" =>
       st.exec \in {"parked", "idle", "parkedEnding", "ended"}
  /\ st.completion = "published" => st.exec = "ended"
  /\ st.exec = "reserved" => st.completion = "open"
  /\ st.class = "direct" => st.attempts <= 1
  /\ st.probe # "none" => st.exec \in Gap /\ st.completion = "open"

-----------------------------------------------------------------------------
requireOpen(st) == st.completion = "open" /\ st.exec \notin {"ended", "parkedEnding"}
Unpublished(st) == st.completion # "published"
BetweenTurns(st) == requireOpen(st) /\ st.class = "direct" /\ st.exec \in Gap
MayPrepare(st) ==
  /\ requireOpen(st)
  /\ st.exec \in Gap \/ (st.exec = "running" /\ st.class = "workflow")

SettleLegal(st) ==
  /\ requireOpen(st) /\ st.exec = "running" /\ st.attempts > 0
  /\ st.class = "direct" => st.attempts = 1

\* The sources that next accepts.
TurnLegal(st, sig) ==
  CASE sig = "published" -> st.exec = "reserved"
    [] sig \in {"attemptPreparing", "attemptStarted", "attemptStartFailed"} ->
         MayPrepare(st)
    [] sig = "attemptSettled" -> SettleLegal(st)
    [] sig = "workflowFinalized" ->
         requireOpen(st) /\ st.class = "workflow" /\ st.exec \in Gap \cup {"running"}
    [] sig = "attemptReturned" -> BetweenTurns(st)
    [] sig \in {"outcomeEnds", "probeTerminal", "probeRetry"} ->
         BetweenTurns(st) /\ st.probe = "none"
    [] sig = "continueTerminal" -> BetweenTurns(st) /\ st.probe = "terminal"
    [] sig = "continueRetry" -> BetweenTurns(st) /\ st.probe = "retry"
    [] sig = "successPresented" -> requireOpen(st) /\ st.exec \in Gap

ParkLegal(st, sig) ==
  CASE sig = "parkRequested" -> BetweenTurns(st)
    [] sig \in {"promptDequeued", "localSlotAcquired", "parkTimedOut"} ->
         requireOpen(st) /\ st.exec = "parked"
    [] sig = "parkWaitEnded" -> Unpublished(st) /\ st.exec = "parked"
    [] sig = "idleContextEnded" -> Unpublished(st) /\ st.exec \in Gap \cup {"parked"}
    [] sig = "runEnded" ->
         Unpublished(st) /\ st.attempts = 0
           /\ st.exec \in Gap \cup {"parked", "parkedEnding", "ended"}

EndLegal(st, sig) ==
  CASE sig = "spawnRolledBack" ->
         st.completion = "open" /\ st.exec \in {"reserved", "starting"}
    [] sig \in {"shutdownRequested", "writerCloseBegun"} -> TRUE
    [] sig = "writerCloseFinished" -> st.writer = "closing"
    [] sig = "publishedAfterRollback" ->
         \/ st.completion = "published"
         \/ st.completion = "open" /\ st.attempts = 0 /\ st.exec \in {"reserved", "starting"}
    [] sig = "publishedAfterTeardown" ->
         \/ st.completion = "published"
         \/ /\ st.attempts = 0 /\ st.exec \in {"ended", "parkedEnding"}
            /\ st.shutdown /\ isWriterClosing(st)
    [] sig = "fault" -> Unpublished(st)

\* While a prompt is probed, no turn starts and the child neither parks nor ends.
Legal(st, sig) ==
  /\ st.probe # "none" =>
       sig \notin {"attemptPreparing", "attemptStarted", "parkRequested", "idleContextEnded"}
  /\ CASE sig \in TurnSignals -> TurnLegal(st, sig)
       [] sig \in ParkSignals -> ParkLegal(st, sig)
       [] sig \in EndSignals -> EndLegal(st, sig)

Parking(st) == [st EXCEPT !.exec = IF st.exec = "parked" THEN "parkedEnding"
                                   ELSE IF st.exec = "parkedEnding" THEN @ ELSE "ended"]

\* Mutant: the first of several attempts to settle makes the machine idle.
SettleOne_Idle(st) == [st EXCEPT !.attempts = @ - 1, !.exec = "idle"]

SettleOne(st) ==
  [st EXCEPT !.attempts = @ - 1, !.exec = IF st.attempts = 1 THEN "idle" ELSE @]

\* The state next returns for a legal signal.
AfterTurn(st, sig) ==
  CASE sig = "published" -> [st EXCEPT !.exec = "starting"]
    [] sig = "attemptStarted" -> [st EXCEPT !.attempts = @ + 1, !.exec = "running"]
    [] sig = "attemptStartFailed" ->
         [st EXCEPT !.exec = IF @ = "starting" THEN "idle" ELSE @]
    [] sig = "attemptSettled" -> SettleOne(st)
    [] sig = "workflowFinalized" -> [st EXCEPT !.attempts = 0, !.exec = "idle"]
    [] sig = "probeTerminal" -> [st EXCEPT !.probe = "terminal"]
    [] sig = "probeRetry" -> [st EXCEPT !.probe = "retry"]
    [] sig \in {"continueTerminal", "continueRetry"} -> [st EXCEPT !.probe = "none"]
    [] OTHER -> st

AfterPark(st, sig) ==
  CASE sig = "parkRequested" -> [st EXCEPT !.exec = "parked"]
    [] sig \in {"localSlotAcquired", "parkWaitEnded"} -> [st EXCEPT !.exec = "idle"]
    [] sig = "parkTimedOut" -> [st EXCEPT !.completion = "admissionClosed"]
    [] sig = "runEnded" -> Parking(st)
    [] OTHER -> st

AfterEnd(st, sig) ==
  CASE sig = "shutdownRequested" -> [st EXCEPT !.shutdown = TRUE]
    [] sig = "writerCloseBegun" ->
         [st EXCEPT !.writer = IF @ = "open" THEN "closing" ELSE @]
    [] sig = "writerCloseFinished" -> [st EXCEPT !.writer = "closed"]
    [] sig \in {"publishedAfterRollback", "publishedAfterTeardown"} ->
         [st EXCEPT !.exec = "ended", !.completion = "published"]
    [] sig = "fault" -> [Parking(st) EXCEPT !.probe = "none", !.attempts = 0]
    [] OTHER -> st

After(st, sig) ==
  CASE sig \in TurnSignals -> AfterTurn(st, sig)
    [] sig \in ParkSignals -> AfterPark(st, sig)
    [] sig \in EndSignals -> AfterEnd(st, sig)

\* next commits a transition only when its result is valid too.
Accepts(st, sig) == Legal(st, sig) /\ Valid(After(st, sig))

\* The signals whose effects wake the callers of RuntimeWaitTurn.
Settles(st, sig) ==
  \/ sig = "attemptSettled" /\ st.attempts = 1
  \/ sig \in {"workflowFinalized", "fault"}
  \/ sig \in {"publishedAfterRollback", "publishedAfterTeardown"} /\ Unpublished(st)
=============================================================================
