------------------------- MODULE ChildRuntimesProofs -------------------------
(***************************************************************************)
(* The child runtimes of a supervisor, for any number of children, phases, *)
(* callers, slots, tokens, retries and prompts (ChildRuntimes): no machine *)
(* is ever sent a signal it refuses, no turn runs unadmitted, what was     *)
(* admitted is honored, and nothing is written or awaited after the end.   *)
(*                                                                         *)
(* All four rest on one table: where the goroutine of a child is decides   *)
(* the state of its machine, up to what other threads may change.          *)
(***************************************************************************)
EXTENDS ChildRuntimes, FiniteSetTheorems, TLAPS

-----------------------------------------------------------------------------
(***************************************************************************)
(* The table.                                                              *)
(***************************************************************************)
Unborn == {"unspawned", "reserved", "refused"}
Between == {"returned", "outcome", "probe", "resume", "finish", "retryProbe",
            "backoff", "token", "park"}
Asleep == {"parked", "slot", "unpark"}
Teardown == {"down", "warm", "writer", "drain", "ending", "publish", "done"}
Shut == Teardown \ {"down"}
Places == Unborn \cup {"spawning", "rolling", "rolledBack", "attempt", "session", "turn",
                       "phases", "idleEnd"} \cup Between \cup Asleep \cup Teardown

ExecAt(st, a) ==
  /\ a \in Unborn => st.exec = "reserved" /\ ~st.shutdown
  /\ a \in {"spawning", "rolling"} => st.exec = "starting"
  /\ a \in {"attempt", "session"} => st.exec \in Gap
  /\ a = "turn" => st.exec = "running"
  /\ a \in Between => st.exec = "idle"
  /\ a \in Asleep => st.exec = "parked"
  /\ a = "idleEnd" => st.exec \in {"idle", "parked"}
  /\ a \in {"down", "warm", "writer", "drain", "ending"} => st.exec \in Gap \cup {"parked"}
  /\ a = "publish" => st.exec \in {"ended", "parkedEnding"}
  /\ a = "phases" => st.exec \in Gap \cup {"running"}

ProbeAt(st, a) ==
  st.probe = CASE a \in {"probe", "resume", "finish"} -> "terminal"
               [] a = "retryProbe" -> "retry"
               [] OTHER -> "none"

EndAt(st, a) ==
  /\ a \in {"done", "rolledBack"} <=> st.completion = "published"
  /\ st.completion = "admissionClosed" => a \in {"unpark", "idleEnd"} \cup Teardown
  /\ st.writer = CASE a = "drain" -> "closing"
                   [] a \in {"ending", "publish", "done"} -> "closed"
                   [] OTHER -> "open"
  /\ a \in Shut => st.shutdown

\* Teams have phases and no turns of their own, and never park.
TeamAt(c, st, a) ==
  /\ Team(c) => /\ a \in Unborn \cup {"spawning", "rolling", "rolledBack", "phases"} \cup Teardown
                /\ ~isParked(st)
  /\ a = "phases" => Team(c)

Chart(c, st, a) == ExecAt(st, a) /\ ProbeAt(st, a) /\ EndAt(st, a) /\ TeamAt(c, st, a)

ActivePhases(c) == {p \in Phases : phaseAt[c][p] = "active"}
PhasesCounted(c) ==
  /\ at[c] \in Unborn \cup {"spawning"} => ActivePhases(c) = {}
  /\ at[c] = "phases" => lc[c].attempts = Cardinality(ActivePhases(c))

\* The tree token: held from the reservation to the end of a turn, by a team to
\* its end; the reservation.
TokenAt(c) ==
  /\ at[c] \in {"reserved", "spawning", "rolling", "attempt", "session", "turn", "returned", "phases"}
       => c \in token
  /\ at[c] \in (Between \ {"returned"}) \cup Asleep \cup {"done"} => c \notin token
  /\ ~Team(c) /\ at[c] \in {"idleEnd"} \cup Teardown => c \notin token
  /\ c \in held <=> at[c] = "reserved"

\* Prompts and resumes.
PromptAt(c) ==
  /\ lc[c].completion = "admissionClosed" => queue[c] = 0 /\ c \notin resumed
  /\ at[c] = "parked" /\ c \in resumed => queue[c] > 0
  /\ at[c] \in Shut \ {"warm"} /\ c \in resumed => c \in sentinel
  /\ c \in answering => lc[c].writer # "closed"

ChildOK(c) ==
  /\ lc[c] \in States /\ Valid(lc[c]) /\ lc[c].class = Class(c)
  /\ at[c] \in Places
  /\ Chart(c, lc[c], at[c]) /\ PhasesCounted(c) /\ TokenAt(c) /\ PromptAt(c)

Active(c) == Counts(c) /\ ~Ending(c)
ActiveSet == {c \in Children : Active(c)}

\* The slots: a runtime that may run a turn, or a reservation, for each.
SlotsOK == Cardinality(ActiveSet) + Cardinality(held) <= MaxRuntimes

WaitsOK == \A w \in Callers : waits[w] # Nobody => waits[w] \in Children
                                                   /\ lc[waits[w]].completion # "published"

RtTyped ==
  /\ lc \in [Children -> States] /\ at \in [Children -> Places]
  /\ phaseAt \in [Children -> [Phases -> {"todo", "prepared", "active", "done"}]]
  /\ queue \in [Children -> Nat] /\ held \subseteq Children /\ answering \subseteq Children
  /\ waits \in [Callers -> Children \cup {Nobody}]

RtIInv ==
  /\ RtTyped /\ illegal = {} /\ SlotsOK /\ WaitsOK
  /\ \A c \in Children : ChildOK(c)

-----------------------------------------------------------------------------
(***************************************************************************)
(* The machine: which signals it accepts where, and what they do.          *)
(***************************************************************************)
\* Signals that are only checked: the state stays as it is.
LEMMA CheckedSignals ==
  ASSUME NEW st \in States, Valid(st)
  PROVE  /\ MayPrepare(st) /\ st.probe = "none" =>
              Accepts(st, "attemptPreparing") /\ After(st, "attemptPreparing") = st
         /\ BetweenTurns(st) => Accepts(st, "attemptReturned") /\ After(st, "attemptReturned") = st
         /\ BetweenTurns(st) /\ st.probe = "none" =>
              Accepts(st, "outcomeEnds") /\ After(st, "outcomeEnds") = st
         /\ requireOpen(st) /\ st.exec = "parked" =>
              Accepts(st, "promptDequeued") /\ After(st, "promptDequeued") = st
         /\ Unpublished(st) /\ st.exec \in Gap \cup {"parked"} /\ st.probe = "none" =>
              Accepts(st, "idleContextEnded") /\ After(st, "idleContextEnded") = st
         /\ st.completion = "open" /\ st.exec = "starting" =>
              Accepts(st, "spawnRolledBack") /\ After(st, "spawnRolledBack") = st
BY DEF Accepts, Legal, After, AfterTurn, AfterPark, AfterEnd, TurnLegal, ParkLegal, EndLegal,
       TurnSignals, ParkSignals, EndSignals

\* Signals of a turn that change the state: when they are legal, what they do.
LEMMA TurnEffects ==
  ASSUME NEW st \in States
  PROVE  /\ st.exec = "reserved" /\ st.probe = "none" => Legal(st, "published")
         /\ After(st, "published") = [st EXCEPT !.exec = "starting"]
         /\ MayPrepare(st) /\ st.probe = "none" =>
              Legal(st, "attemptStarted") /\ Legal(st, "attemptStartFailed")
         /\ After(st, "attemptStarted") =
              [st EXCEPT !.attempts = st.attempts + 1, !.exec = "running"]
         /\ st.exec = "starting" =>
              After(st, "attemptStartFailed") = [st EXCEPT !.exec = "idle"]
         /\ st.exec # "starting" => After(st, "attemptStartFailed") = [st EXCEPT !.exec = st.exec]
         /\ SettleLegal(st) => Legal(st, "attemptSettled")
         /\ st.attempts = 1 => After(st, "attemptSettled") =
              [st EXCEPT !.attempts = st.attempts - 1, !.exec = "idle"]
         /\ st.attempts # 1 => After(st, "attemptSettled") =
              [st EXCEPT !.attempts = st.attempts - 1, !.exec = st.exec]
         /\ requireOpen(st) /\ st.class = "workflow" /\ st.exec \in Gap \cup {"running"} =>
              Legal(st, "workflowFinalized")
         /\ After(st, "workflowFinalized") = [st EXCEPT !.attempts = 0, !.exec = "idle"]
BY DEF Legal, After, AfterTurn, TurnLegal, TurnSignals, ParkSignals, EndSignals, SettleOne, MayPrepare, SettleLegal

\* The probes for a prompt.
LEMMA ProbeEffects ==
  ASSUME NEW st \in States
  PROVE  /\ BetweenTurns(st) /\ st.probe = "none" =>
              Legal(st, "probeTerminal") /\ Legal(st, "probeRetry")
         /\ After(st, "probeTerminal") = [st EXCEPT !.probe = "terminal"]
         /\ After(st, "probeRetry") = [st EXCEPT !.probe = "retry"]
         /\ BetweenTurns(st) /\ st.probe = "terminal" => Legal(st, "continueTerminal")
         /\ BetweenTurns(st) /\ st.probe = "retry" => Legal(st, "continueRetry")
         /\ After(st, "continueTerminal") = [st EXCEPT !.probe = "none"]
         /\ After(st, "continueRetry") = [st EXCEPT !.probe = "none"]
BY DEF Legal, After, AfterTurn, TurnLegal, TurnSignals, ParkSignals, EndSignals

\* Parking and its end.
LEMMA ParkEffects ==
  ASSUME NEW st \in States
  PROVE  /\ BetweenTurns(st) /\ st.probe = "none" => Legal(st, "parkRequested")
         /\ After(st, "parkRequested") = [st EXCEPT !.exec = "parked"]
         /\ requireOpen(st) /\ st.exec = "parked" =>
              Legal(st, "localSlotAcquired") /\ Legal(st, "parkTimedOut")
         /\ After(st, "localSlotAcquired") = [st EXCEPT !.exec = "idle"]
         /\ After(st, "parkTimedOut") = [st EXCEPT !.completion = "admissionClosed"]
         /\ Unpublished(st) /\ st.exec = "parked" => Legal(st, "parkWaitEnded")
         /\ After(st, "parkWaitEnded") = [st EXCEPT !.exec = "idle"]
         /\ Unpublished(st) /\ st.attempts = 0 /\ st.exec \in Gap \cup {"parked"} =>
              Legal(st, "runEnded")
         /\ st.exec = "parked" => After(st, "runEnded") = [st EXCEPT !.exec = "parkedEnding"]
         /\ st.exec \in Gap => After(st, "runEnded") = [st EXCEPT !.exec = "ended"]
BY DEF Legal, After, AfterPark, ParkLegal, TurnSignals, ParkSignals, EndSignals, Parking, Gap

\* Teardown.
LEMMA EndEffects ==
  ASSUME NEW st \in States
  PROVE  /\ Legal(st, "shutdownRequested") /\ Legal(st, "writerCloseBegun")
         /\ After(st, "shutdownRequested") = [st EXCEPT !.shutdown = TRUE]
         /\ st.writer = "open" =>
              After(st, "writerCloseBegun") = [st EXCEPT !.writer = "closing"]
         /\ st.writer = "closing" => Legal(st, "writerCloseFinished")
         /\ After(st, "writerCloseFinished") = [st EXCEPT !.writer = "closed"]
         /\ st.completion = "open" /\ st.attempts = 0 /\ st.exec = "starting" =>
              Legal(st, "publishedAfterRollback")
         /\ st.attempts = 0 /\ st.exec \in {"ended", "parkedEnding"} /\ st.shutdown
              /\ st.writer # "open" => Legal(st, "publishedAfterTeardown")
         /\ After(st, "publishedAfterRollback") =
              [st EXCEPT !.exec = "ended", !.completion = "published"]
         /\ After(st, "publishedAfterTeardown") =
              [st EXCEPT !.exec = "ended", !.completion = "published"]
BY DEF Legal, After, AfterEnd, EndLegal, TurnSignals, ParkSignals, EndSignals, isWriterClosing

\* The fields of a state that a signal replaces.
LEMMA ExecField ==
  ASSUME NEW st \in States, NEW x \in Execs
  PROVE  LET t == [st EXCEPT !.exec = x]
         IN /\ t \in States /\ t.exec = x /\ t.attempts = st.attempts /\ t.shutdown = st.shutdown
            /\ t.writer = st.writer /\ t.completion = st.completion /\ t.class = st.class
            /\ t.probe = st.probe
BY DEF States

LEMMA ProbeField ==
  ASSUME NEW st \in States, NEW x \in {"none", "terminal", "retry"}
  PROVE  LET t == [st EXCEPT !.probe = x]
         IN /\ t \in States /\ t.exec = st.exec /\ t.attempts = st.attempts
            /\ t.shutdown = st.shutdown /\ t.writer = st.writer
            /\ t.completion = st.completion /\ t.class = st.class /\ t.probe = x
BY DEF States

LEMMA WriterField ==
  ASSUME NEW st \in States, NEW x \in {"closing", "closed"}
  PROVE  LET t == [st EXCEPT !.writer = x]
         IN /\ t \in States /\ t.exec = st.exec /\ t.attempts = st.attempts
            /\ t.shutdown = st.shutdown /\ t.writer = x
            /\ t.completion = st.completion /\ t.class = st.class /\ t.probe = st.probe
BY DEF States

LEMMA ShutdownField ==
  ASSUME NEW st \in States
  PROVE  LET t == [st EXCEPT !.shutdown = TRUE]
         IN /\ t \in States /\ t.exec = st.exec /\ t.attempts = st.attempts
            /\ t.shutdown /\ t.writer = st.writer
            /\ t.completion = st.completion /\ t.class = st.class /\ t.probe = st.probe
BY DEF States

LEMMA ClosedField ==
  ASSUME NEW st \in States
  PROVE  LET t == [st EXCEPT !.completion = "admissionClosed"]
         IN /\ t \in States /\ t.exec = st.exec /\ t.attempts = st.attempts
            /\ t.shutdown = st.shutdown /\ t.writer = st.writer
            /\ t.completion = "admissionClosed" /\ t.class = st.class /\ t.probe = st.probe
BY DEF States

LEMMA EndedFields ==
  ASSUME NEW st \in States
  PROVE  LET t == [st EXCEPT !.exec = "ended", !.completion = "published"]
         IN /\ t \in States /\ t.exec = "ended" /\ t.attempts = st.attempts
            /\ t.shutdown = st.shutdown /\ t.writer = st.writer
            /\ t.completion = "published" /\ t.class = st.class /\ t.probe = st.probe
BY DEF States, Execs

-----------------------------------------------------------------------------
(***************************************************************************)
(* A step of one child.                                                    *)
(***************************************************************************)
\* The other children are left alone.
Local(c) ==
  \A d \in Children \ {c} :
    /\ lc'[d] = lc[d] /\ at'[d] = at[d] /\ phaseAt'[d] = phaseAt[d] /\ queue'[d] = queue[d]
    /\ d \in token' <=> d \in token
    /\ d \in held' <=> d \in held
    /\ d \in resumed' <=> d \in resumed
    /\ d \in sentinel' <=> d \in sentinel
    /\ d \in answering' <=> d \in answering

LEMMA OthersOK ==
  ASSUME RtIInv, NEW c \in Children, Local(c), kind' = kind, NEW d \in Children, d # c
  PROVE  ChildOK(d)' /\ (Active(d)' <=> Active(d))
<1>1. /\ lc'[d] = lc[d] /\ at'[d] = at[d] /\ phaseAt'[d] = phaseAt[d] /\ queue'[d] = queue[d]
      /\ d \in token' <=> d \in token
      /\ d \in held' <=> d \in held
      /\ d \in resumed' <=> d \in resumed
      /\ d \in sentinel' <=> d \in sentinel
      /\ d \in answering' <=> d \in answering
  BY DEF Local
<1>2. ChildOK(d)
  BY DEF RtIInv
<1>3. (lc[d] \in States /\ Valid(lc[d]) /\ lc[d].class = Class(d) /\ at[d] \in Places)'
  BY <1>1, <1>2 DEF ChildOK, Valid, Class, Team
<1>4. Chart(d, lc[d], at[d])'
  BY <1>1, <1>2 DEF ChildOK, Chart, ExecAt, ProbeAt, EndAt, TeamAt, Team, isParked
<1>5. PhasesCounted(d)'
  BY <1>1, <1>2 DEF ChildOK, PhasesCounted, ActivePhases
<1>6. TokenAt(d)' /\ PromptAt(d)'
  BY <1>1, <1>2 DEF ChildOK, TokenAt, PromptAt, Team
<1>7. Active(d)' <=> Active(d)
  BY <1>1 DEF Active, Counts, Registered, Reachable, isCompleted, isParked, Ending
<1>. QED  BY <1>3, <1>4, <1>5, <1>6, <1>7 DEF ChildOK

\* The slots are kept by a step after which nobody new is active.
LEMMA SlotsKept ==
  ASSUME RtIInv, NEW c \in Children, Local(c), kind' = kind, held' = held,
         Active(c)' => Active(c)
  PROVE  SlotsOK'
<1>1. ActiveSet' \subseteq ActiveSet
  BY OthersOK DEF ActiveSet
<1>2. IsFiniteSet(ActiveSet)
  BY RuntimeAssumption, FS_Subset DEF ActiveSet
<1>3. Cardinality(ActiveSet') <= Cardinality(ActiveSet) /\ Cardinality(ActiveSet') \in Nat
      /\ Cardinality(ActiveSet) \in Nat
  BY <1>1, <1>2, FS_Subset, FS_CardinalityType
<1>4. Cardinality(held) \in Nat
  BY RuntimeAssumption, FS_Subset, FS_CardinalityType DEF RtIInv, RtTyped
<1>. QED  BY <1>3, <1>4, RuntimeAssumption DEF RtIInv, SlotsOK

\* The goroutine of a child, or a request to it, moves it to state t at place a.
Moves(c, t, a) ==
  /\ lc' = [lc EXCEPT ![c] = t] /\ at' = [at EXCEPT ![c] = a]
  /\ kind' = kind /\ illegal' = illegal
  /\ \A w \in Callers : waits'[w] \in {waits[w], Nobody}
  /\ t.completion = "published" => \A w \in Callers : waits'[w] # c \/ waits'[w] = Nobody
  /\ waits' \in [Callers -> Children \cup {Nobody}]
  /\ \A d \in Children \ {c} :
       /\ phaseAt'[d] = phaseAt[d] /\ queue'[d] = queue[d]
       /\ d \in token' <=> d \in token
       /\ d \in held' <=> d \in held
       /\ d \in resumed' <=> d \in resumed
       /\ d \in sentinel' <=> d \in sentinel
       /\ d \in answering' <=> d \in answering
  /\ phaseAt' \in [Children -> [Phases -> {"todo", "prepared", "active", "done"}]]
  /\ queue' \in [Children -> Nat] /\ held' \subseteq Children /\ answering' \subseteq Children

\* It is where the table has it, with its phases, token and prompts in order.
Fits(c, t, a) ==
  /\ t \in States /\ Valid(t) /\ t.class = Class(c) /\ a \in Places
  /\ Chart(c, t, a) /\ PhasesCounted(c)' /\ TokenAt(c)' /\ PromptAt(c)'

\* Children at these places, with such a machine, use a slot.
ActiveAt(st, a) ==
  /\ a \notin Unborn \cup {"rolling", "rolledBack", "idleEnd"} \cup (Teardown \ {"done"})
  /\ st.completion = "open" /\ ~isParked(st)

LEMMA MoveKeeps ==
  ASSUME RtIInv, NEW c \in Children, NEW t, NEW a, Moves(c, t, a), Fits(c, t, a),
         SlotsOK' \/ (held' = held /\ (ActiveAt(t, a) => ActiveAt(lc[c], at[c])))
  PROVE  RtIInv'
<1>1. Local(c) /\ lc'[c] = t /\ at'[c] = a
  BY DEF Moves, Local, RtIInv, RtTyped
<1>2. RtTyped'
  BY DEF Moves, RtIInv, RtTyped, Fits
<1>3. illegal' = {} /\ kind' = kind
  BY DEF Moves, RtIInv
<1>4. SlotsOK'
  <2>1. (Active(c) <=> ActiveAt(lc[c], at[c])) /\ (Active(c)' <=> ActiveAt(t, a))
    BY <1>1 DEF Active, ActiveAt, Counts, Registered, Reachable, isCompleted, isParked, Ending,
                Unborn, Teardown
  <2>. QED  BY <1>1, <1>3, <2>1, SlotsKept
<1>5. WaitsOK'
  <2>. SUFFICES ASSUME NEW w \in Callers, waits'[w] # Nobody
                PROVE  waits'[w] \in Children /\ lc'[waits'[w]].completion # "published"
    BY DEF WaitsOK
  <2>1. waits'[w] = waits[w] /\ waits'[w] \in Children
    BY DEF Moves, RtIInv, RtTyped
  <2>2. lc[waits[w]].completion # "published"
    BY <2>1 DEF RtIInv, WaitsOK
  <2>3. CASE waits'[w] = c
    BY <1>1, <2>3 DEF Moves
  <2>4. CASE waits'[w] # c
    BY <1>1, <2>1, <2>2, <2>4 DEF Local
  <2>. QED  BY <2>1, <2>3, <2>4
<1>6. ChildOK(c)'
  BY <1>1, <1>3 DEF Fits, ChildOK, Chart, TeamAt, Class, Team
<1>7. \A d \in Children : ChildOK(d)'
  BY <1>1, <1>3, <1>6, OthersOK
<1>. QED  BY <1>2, <1>3, <1>4, <1>5, <1>7 DEF RtIInv

\* A signal that the machine accepts.
LEMMA ApplyMoves ==
  ASSUME RtIInv, NEW c \in Children, NEW sig, Apply(c, sig), Accepts(lc[c], sig),
         After(lc[c], sig).completion = "published" =>
           (lc[c].completion = "published" \/ Settles(lc[c], sig))
  PROVE  /\ lc' = [lc EXCEPT ![c] = After(lc[c], sig)] /\ illegal' = illegal
         /\ \A w \in Callers : waits'[w] \in {waits[w], Nobody}
         /\ After(lc[c], sig).completion = "published" =>
              \A w \in Callers : waits'[w] # c \/ waits'[w] = Nobody
         /\ waits' \in [Callers -> Children \cup {Nobody}]
<1>. DEFINE t == After(lc[c], sig)
            s == Settles(lc[c], sig)
<1>1. /\ lc' = [lc EXCEPT ![c] = t] /\ illegal' = illegal
      /\ waits' = [w \in Callers |-> IF waits[w] = c /\ s THEN Nobody ELSE waits[w]]
  BY DEF Apply
<1>2. t.completion = "published" => (lc[c].completion = "published" \/ s)
  OBVIOUS
<1>. HIDE DEF t, s
<1>3. waits \in [Callers -> Children \cup {Nobody}] /\ WaitsOK
  BY DEF RtIInv, RtTyped
<1>4. /\ \A w \in Callers : waits'[w] \in {waits[w], Nobody}
      /\ waits' \in [Callers -> Children \cup {Nobody}]
  BY <1>1, <1>3
<1>5. ASSUME t.completion = "published", NEW w \in Callers PROVE waits'[w] # c \/ waits'[w] = Nobody
  BY <1>1, <1>2, <1>3, <1>5 DEF WaitsOK
<1>. QED  BY <1>1, <1>4, <1>5 DEF t

LEMMA QuietMoves ==
  ASSUME RtIInv, Quiet, NEW c \in Children
  PROVE  /\ lc' = [lc EXCEPT ![c] = lc[c]] /\ illegal' = illegal
         /\ \A w \in Callers : waits'[w] \in {waits[w], Nobody}
         /\ lc[c].completion = "published" =>
              \A w \in Callers : waits'[w] # c \/ waits'[w] = Nobody
         /\ waits' \in [Callers -> Children \cup {Nobody}]
BY DEF RtIInv, RtTyped, WaitsOK, Quiet

-----------------------------------------------------------------------------
(***************************************************************************)
(* The goroutine of a child, up to its turns.                              *)
(***************************************************************************)
USE DEF Unborn, Between, Asleep, Teardown, Shut, Places

\* What the table says of a child.
LEMMA TableFacts ==
  ASSUME RtIInv, NEW c \in Children
  PROVE  /\ lc[c] \in States /\ Valid(lc[c]) /\ lc[c].class = Class(c)
         /\ Chart(c, lc[c], at[c]) /\ PhasesCounted(c) /\ TokenAt(c) /\ PromptAt(c)
         /\ at[c] \in Places
         /\ lc[c].completion \in {"open", "admissionClosed", "published"}
         /\ lc[c].exec \in Execs /\ lc[c].attempts \in Nat
         /\ lc[c].exec # "running" => lc[c].attempts = 0
<1>1. ChildOK(c)
  BY DEF RtIInv
<1>2. lc[c] \in States /\ Valid(lc[c])
  BY <1>1 DEF ChildOK
<1>3. /\ lc[c].completion \in {"open", "admissionClosed", "published"}
      /\ lc[c].attempts \in Nat /\ lc[c].exec \in Execs
  BY <1>2 DEF States
<1>4. lc[c].exec # "running" => lc[c].attempts = 0
  BY <1>2, <1>3 DEF Valid
<1>. QED  BY <1>1, <1>3, <1>4 DEF ChildOK

LEMMA PrepareStep ==
  ASSUME RtIInv, NEW c \in Children, Prepare(c)
  PROVE  RtIInv'
<1>. DEFINE st == lc[c]
<1>1. /\ at[c] = "attempt" /\ st.exec \in Gap /\ st.completion = "open" /\ st.probe = "none"
      /\ MayPrepare(st)
  BY TableFacts DEF Prepare, Chart, ExecAt, ProbeAt, EndAt, MayPrepare, requireOpen, Gap
<1>2. Accepts(st, "attemptPreparing") /\ After(st, "attemptPreparing") = st
  BY <1>1, TableFacts, CheckedSignals
<1>3. Moves(c, st, "session")
  BY <1>1, <1>2, ApplyMoves DEF Prepare, Goto, Moves, RtIInv, RtTyped
<1>4. at'[c] = "session" /\ lc'[c] = st /\ UNCHANGED <<phaseAt, token, held, queue, resumed, sentinel, answering>>
  BY <1>3 DEF Prepare, Moves, RtIInv, RtTyped
<1>5. Fits(c, st, "session")
  BY <1>1, <1>4, TableFacts DEF Fits, Chart, ExecAt, ProbeAt, EndAt, TeamAt, PhasesCounted,
       TokenAt, PromptAt, Team, Prepare, Goto
<1>. QED  BY <1>1, <1>3, <1>4, <1>5, MoveKeeps DEF ActiveAt

\* The token is there, or the wait for it is over.
LEMMA TokenStep ==
  ASSUME RtIInv, NEW c \in Children, AcquireToken(c)
  PROVE  RtIInv'
<1>. DEFINE st == lc[c]
<1>1. at[c] = "token" /\ Quiet
      /\ UNCHANGED <<kind, phaseAt, held, queue, resumed, sentinel, answering>>
  BY DEF AcquireToken, Goto
<1>2. PICK a \in {"attempt", "idleEnd", "down"} :
        /\ at' = [at EXCEPT ![c] = a]
        /\ a = "attempt" => token' = token \cup {c}
        /\ a # "attempt" => token' = token
  BY DEF AcquireToken, Goto
<1>3. Moves(c, st, a)
  BY <1>1, <1>2, QuietMoves DEF Moves, RtIInv, RtTyped
<1>4. at'[c] = a /\ lc'[c] = st
  BY <1>3 DEF Moves, RtIInv, RtTyped
<1>5. Fits(c, st, a)
  BY <1>1, <1>2, <1>4, TableFacts DEF Fits, Chart, ExecAt, ProbeAt, EndAt, TeamAt,
       PhasesCounted, TokenAt, PromptAt, Team, Gap
<1>. QED  BY <1>1, <1>3, <1>5, MoveKeeps DEF ActiveAt

\* A start that fails: the machine is idle again.
LEMMA StartFails ==
  ASSUME RtIInv, NEW c \in Children, at[c] = "session", Apply(c, "attemptStartFailed"),
         Goto(c, "returned"), UNCHANGED <<phaseAt, token, held, queue, resumed, sentinel, answering>>
  PROVE  RtIInv'
<1>. DEFINE st == lc[c]
            t == [st EXCEPT !.exec = "idle"]
<1>1. st.exec \in Gap /\ st.completion = "open" /\ st.probe = "none" /\ MayPrepare(st)
  BY TableFacts DEF Chart, ExecAt, ProbeAt, EndAt, MayPrepare, requireOpen, Gap
<1>2. Legal(st, "attemptStartFailed") /\ After(st, "attemptStartFailed") = t
  <2>1. st \in States
    BY TableFacts
  <2>2. st.exec = "starting" \/ (st.exec # "starting" /\ st.exec = "idle")
    BY <1>1 DEF Gap
  <2>. QED  BY <1>1, <2>1, <2>2, TurnEffects
<1>3. /\ t \in States /\ t.exec = "idle" /\ t.attempts = 0 /\ t.shutdown = st.shutdown
      /\ t.writer = st.writer /\ t.completion = "open" /\ t.class = st.class /\ t.probe = "none"
  <2>1. st \in States /\ "idle" \in Execs /\ st.attempts = 0
    BY <1>1, TableFacts DEF Execs, Gap
  <2>. QED  BY <1>1, <2>1, ExecField
<1>. HIDE DEF t
<1>4. Valid(t)
  BY <1>1, <1>3, TableFacts DEF Valid, Gap
<1>5. Moves(c, t, "returned")
  BY <1>2, <1>3, <1>4, ApplyMoves DEF Accepts, Goto, Moves, RtIInv, RtTyped
<1>6. at'[c] = "returned" /\ lc'[c] = t
  BY <1>5 DEF Moves, RtIInv, RtTyped
<1>7. Fits(c, t, "returned")
  BY <1>3, <1>4, <1>6, TableFacts DEF Fits, Chart, ExecAt, ProbeAt, EndAt, TeamAt,
       PhasesCounted, TokenAt, PromptAt, Team, Goto
<1>. QED  BY <1>1, <1>5, <1>7, MoveKeeps DEF ActiveAt, Gap, isParked

\* The turn starts.
LEMMA TurnStarts ==
  ASSUME RtIInv, NEW c \in Children, at[c] = "session", Apply(c, "attemptStarted"),
         Goto(c, "turn"), UNCHANGED <<phaseAt, token, held, queue, resumed, sentinel, answering>>
  PROVE  RtIInv'
<1>. DEFINE st == lc[c]
            t == [st EXCEPT !.attempts = 1, !.exec = "running"]
<1>1. st.exec \in Gap /\ st.completion = "open" /\ st.probe = "none" /\ MayPrepare(st)
  BY TableFacts DEF Chart, ExecAt, ProbeAt, EndAt, MayPrepare, requireOpen, Gap
<1>2. Legal(st, "attemptStarted") /\ After(st, "attemptStarted") = t
  <2>1. st \in States /\ st.attempts = 0
    BY <1>1, TableFacts DEF Gap
  <2>2. /\ Legal(st, "attemptStarted")
        /\ After(st, "attemptStarted") = [st EXCEPT !.attempts = st.attempts + 1, !.exec = "running"]
    BY <1>1, <2>1, TurnEffects
  <2>. QED  BY <2>1, <2>2
<1>3. /\ t \in States /\ t.exec = "running" /\ t.attempts = 1 /\ t.shutdown = st.shutdown
      /\ t.writer = st.writer /\ t.completion = "open" /\ t.class = st.class /\ t.probe = "none"
  <2>1. st \in States /\ "running" \in Execs /\ 1 \in Nat
    BY TableFacts DEF Execs
  <2>2. /\ t \in States /\ t.exec = "running" /\ t.attempts = 1 /\ t.shutdown = st.shutdown
        /\ t.writer = st.writer /\ t.completion = st.completion /\ t.class = st.class
        /\ t.probe = st.probe
    BY <2>1 DEF States
  <2>. QED  BY <1>1, <2>2
<1>. HIDE DEF t
<1>4. Valid(t)
  BY <1>1, <1>3, TableFacts DEF Valid, Gap
<1>5. Moves(c, t, "turn")
  BY <1>2, <1>3, <1>4, ApplyMoves DEF Accepts, Goto, Moves, RtIInv, RtTyped
<1>6. at'[c] = "turn" /\ lc'[c] = t
  BY <1>5 DEF Moves, RtIInv, RtTyped
<1>7. Fits(c, t, "turn")
  BY <1>3, <1>4, <1>6, TableFacts DEF Fits, Chart, ExecAt, ProbeAt, EndAt, TeamAt,
       PhasesCounted, TokenAt, PromptAt, Team, Goto, isParked
<1>. QED  BY <1>1, <1>5, <1>7, MoveKeeps DEF ActiveAt, Gap, isParked

\* The turn ends.
LEMMA SettleStep ==
  ASSUME RtIInv, NEW c \in Children, Settle(c)
  PROVE  RtIInv'
<1>. DEFINE st == lc[c]
            t == [st EXCEPT !.attempts = 0, !.exec = "idle"]
<1>0. /\ at[c] = "turn" /\ Apply(c, "attemptSettled") /\ Goto(c, "returned")
      /\ UNCHANGED <<phaseAt, token, held, queue, resumed, sentinel, answering>>
  BY DEF Settle
<1>1. st.exec = "running" /\ st.completion = "open" /\ st.probe = "none" /\ st.class = "direct"
  BY <1>0, TableFacts DEF Chart, ExecAt, ProbeAt, EndAt, TeamAt, Class
<1>2. st.attempts = 1
  BY <1>1, TableFacts DEF Valid
<1>3. Legal(st, "attemptSettled") /\ After(st, "attemptSettled") = t
  <2>1. st \in States /\ SettleLegal(st)
    BY <1>1, <1>2, TableFacts DEF SettleLegal, requireOpen
  <2>2. /\ Legal(st, "attemptSettled")
        /\ After(st, "attemptSettled") = [st EXCEPT !.attempts = st.attempts - 1, !.exec = "idle"]
    BY <1>2, <2>1, TurnEffects
  <2>. QED  BY <1>2, <2>2
<1>4. /\ t \in States /\ t.exec = "idle" /\ t.attempts = 0 /\ t.shutdown = st.shutdown
      /\ t.writer = st.writer /\ t.completion = "open" /\ t.class = st.class /\ t.probe = "none"
  <2>1. st \in States /\ "idle" \in Execs /\ 0 \in Nat
    BY TableFacts DEF Execs, Gap
  <2>2. /\ t \in States /\ t.exec = "idle" /\ t.attempts = 0 /\ t.shutdown = st.shutdown
        /\ t.writer = st.writer /\ t.completion = st.completion /\ t.class = st.class
        /\ t.probe = st.probe
    BY <2>1 DEF States
  <2>. QED  BY <1>1, <2>2
<1>. HIDE DEF t
<1>5. Valid(t)
  BY <1>4, TableFacts DEF Valid, Gap
<1>6. Moves(c, t, "returned")
  BY <1>0, <1>3, <1>4, <1>5, ApplyMoves DEF Accepts, Goto, Moves, RtIInv, RtTyped
<1>7. at'[c] = "returned" /\ lc'[c] = t
  BY <1>6 DEF Moves, RtIInv, RtTyped
<1>8. Fits(c, t, "returned")
  BY <1>0, <1>4, <1>5, <1>7, TableFacts DEF Fits, Chart, ExecAt, ProbeAt, EndAt, TeamAt,
       PhasesCounted, TokenAt, PromptAt, Team, Goto, isParked
<1>. QED  BY <1>0, <1>1, <1>6, <1>8, MoveKeeps DEF ActiveAt, isParked

\* The token goes back.
LEMMA ReturnStep ==
  ASSUME RtIInv, NEW c \in Children, Return(c)
  PROVE  RtIInv'
<1>. DEFINE st == lc[c]
<1>0. /\ at[c] = "returned" /\ Apply(c, "attemptReturned") /\ Goto(c, "outcome")
      /\ token' = token \ {c}
      /\ UNCHANGED <<phaseAt, held, queue, resumed, sentinel, answering>>
  BY DEF Return
<1>1. st.exec = "idle" /\ st.completion = "open" /\ st.probe = "none" /\ BetweenTurns(st)
  BY <1>0, TableFacts DEF Chart, ExecAt, ProbeAt, EndAt, TeamAt, Class, BetweenTurns, requireOpen, Gap
<1>2. Accepts(st, "attemptReturned") /\ After(st, "attemptReturned") = st
  BY <1>1, TableFacts, CheckedSignals
<1>3. Moves(c, st, "outcome")
  BY <1>0, <1>1, <1>2, ApplyMoves DEF Goto, Moves, RtIInv, RtTyped
<1>4. at'[c] = "outcome" /\ lc'[c] = st
  BY <1>3 DEF Moves, RtIInv, RtTyped
<1>5. Fits(c, st, "outcome")
  BY <1>0, <1>4, TableFacts DEF Fits, Chart, ExecAt, ProbeAt, EndAt, TeamAt,
       PhasesCounted, TokenAt, PromptAt, Team, Goto
<1>. QED  BY <1>0, <1>3, <1>5, MoveKeeps DEF ActiveAt

-----------------------------------------------------------------------------
(***************************************************************************)
(* Steps that leave the machine as it is.                                  *)
(***************************************************************************)
\* What a step leaves to the other children.
Frame(c) ==
  /\ kind' = kind
  /\ \A d \in Children \ {c} :
       /\ phaseAt'[d] = phaseAt[d] /\ queue'[d] = queue[d]
       /\ d \in token' <=> d \in token
       /\ d \in held' <=> d \in held
       /\ d \in resumed' <=> d \in resumed
       /\ d \in sentinel' <=> d \in sentinel
       /\ d \in answering' <=> d \in answering
  /\ phaseAt' \in [Children -> [Phases -> {"todo", "prepared", "active", "done"}]]
  /\ queue' \in [Children -> Nat] /\ held' \subseteq Children /\ answering' \subseteq Children

Checked(c, sig) == Apply(c, sig) /\ Accepts(lc[c], sig) /\ After(lc[c], sig) = lc[c]

LEMMA Stays ==
  ASSUME RtIInv, NEW c \in Children, NEW a \in Places,
         Quiet \/ \E sig \in Signals : Checked(c, sig),
         at' = [at EXCEPT ![c] = a], Frame(c), Chart(c, lc[c], a),
         at'[c] = a /\ lc'[c] = lc[c] => PhasesCounted(c)' /\ TokenAt(c)' /\ PromptAt(c)',
         SlotsOK' \/ (held' = held /\ (ActiveAt(lc[c], a) => ActiveAt(lc[c], at[c])))
  PROVE  RtIInv'
<1>. DEFINE st == lc[c]
<1>1. /\ lc' = [lc EXCEPT ![c] = st] /\ illegal' = illegal
      /\ \A w \in Callers : waits'[w] \in {waits[w], Nobody}
      /\ st.completion = "published" => \A w \in Callers : waits'[w] # c \/ waits'[w] = Nobody
      /\ waits' \in [Callers -> Children \cup {Nobody}]
  <2>1. CASE Quiet
    BY <2>1, QuietMoves
  <2>2. CASE \E sig \in Signals : Checked(c, sig)
    <3>. PICK sig \in Signals : Checked(c, sig)
      BY <2>2
    <3>. QED  BY ApplyMoves DEF Checked
  <2>. QED  BY <2>1, <2>2
<1>2. Moves(c, st, a)
  BY <1>1 DEF Moves, Frame
<1>3. at'[c] = a /\ lc'[c] = st
  BY <1>1 DEF RtIInv, RtTyped
<1>4. Fits(c, st, a)
  BY <1>3, TableFacts DEF Fits
<1>. QED  BY <1>2, <1>4, MoveKeeps

\* The probe for a prompt, the backoff and the end of a park.
LEMMA WaitSteps ==
  ASSUME RtIInv, NEW c \in Children, TerminalProbe(c) \/ Backoff(c) \/ ParkCancelled(c)
  PROVE  RtIInv'
<1>1. Quiet /\ Frame(c) /\ held' = held
  BY DEF TerminalProbe, Backoff, ParkCancelled, CanDequeue, Dequeue, Goto, Frame, RtIInv, RtTyped
<1>2. PICK a \in {"resume", "finish", "token", "idleEnd", "unpark"} :
        /\ at' = [at EXCEPT ![c] = a]
        /\ \/ at[c] = "probe" /\ a \in {"resume", "finish"}
           \/ at[c] = "backoff" /\ a \in {"token", "idleEnd"} /\ queue'[c] = queue[c]
           \/ at[c] = "parked" /\ a = "unpark" /\ queue'[c] = queue[c]
  BY DEF TerminalProbe, Backoff, ParkCancelled, Goto
<1>3. UNCHANGED <<kind, phaseAt, token, held, resumed, sentinel, answering>>
  BY DEF TerminalProbe, Backoff, ParkCancelled, Goto
<1>4. Chart(c, lc[c], a) /\ (ActiveAt(lc[c], a) => ActiveAt(lc[c], at[c]))
  BY <1>2, TableFacts DEF Chart, ExecAt, ProbeAt, EndAt, TeamAt, ActiveAt, isParked
<1>5. ASSUME at'[c] = a, lc'[c] = lc[c] PROVE PhasesCounted(c)' /\ TokenAt(c)' /\ PromptAt(c)'
  BY <1>2, <1>3, <1>5, TableFacts DEF Chart, EndAt, PhasesCounted, TokenAt, PromptAt, Team, TeamAt
<1>. QED  BY <1>1, <1>2, <1>4, <1>5, Stays

\* A resume that finds no slot, and the end of a resume that never started.
LEMMA EndSteps ==
  ASSUME RtIInv, NEW c \in Children,
         \/ FinishWarm(c)
         \/ AcquireSlot(c) /\ Quiet /\ at'[c] \in {"down", "idleEnd"}
  PROVE  RtIInv'
<1>1. Quiet /\ Frame(c) /\ held' = held
  BY DEF FinishWarm, TeardownStep, AcquireSlot, Goto, Frame, RtIInv, RtTyped
<1>2. UNCHANGED <<kind, phaseAt, token, held, resumed, queue, answering>>
  BY DEF FinishWarm, TeardownStep, AcquireSlot, Goto
<1>3. PICK a \in {"down", "idleEnd", "writer"} :
        /\ at' = [at EXCEPT ![c] = a]
        /\ \/ at[c] = "slot" /\ a \in {"down", "idleEnd"}
           \/ at[c] = "warm" /\ a = "writer" /\ (c \in resumed => c \in sentinel')
  BY DEF FinishWarm, TeardownStep, Unstarted, AcquireSlot, Goto, RtIInv, RtTyped
<1>4. Chart(c, lc[c], a) /\ (ActiveAt(lc[c], a) => ActiveAt(lc[c], at[c]))
  BY <1>3, TableFacts DEF Chart, ExecAt, ProbeAt, EndAt, TeamAt, ActiveAt, isParked
<1>5. ASSUME at'[c] = a, lc'[c] = lc[c] PROVE PhasesCounted(c)' /\ TokenAt(c)' /\ PromptAt(c)'
  BY <1>2, <1>3, <1>5, TableFacts DEF Chart, EndAt, PhasesCounted, TokenAt, PromptAt, Team, TeamAt
<1>. QED  BY <1>1, <1>3, <1>4, <1>5, Stays

\* The goroutine starts: nothing of the team runs yet.
LEMMA LaunchStep ==
  ASSUME RtIInv, NEW c \in Children, at[c] = "spawning", Quiet,
         Goto(c, IF Team(c) THEN "phases" ELSE "attempt"),
         UNCHANGED <<phaseAt, token, held, queue, resumed, sentinel, answering>>
  PROVE  RtIInv'
<1>. DEFINE a == IF Team(c) THEN "phases" ELSE "attempt"
<1>1. Frame(c) /\ at' = [at EXCEPT ![c] = a]
  BY DEF Frame, Goto, RtIInv, RtTyped
<1>2. lc[c].exec = "starting" /\ lc[c].attempts = 0 /\ ActivePhases(c) = {}
  BY TableFacts DEF Chart, ExecAt, PhasesCounted
<1>3. Chart(c, lc[c], a) /\ (ActiveAt(lc[c], a) => ActiveAt(lc[c], at[c])) /\ a \in Places
  BY <1>2, TableFacts DEF Chart, ExecAt, ProbeAt, EndAt, TeamAt, ActiveAt, isParked, Gap
<1>4. ASSUME at'[c] = a, lc'[c] = lc[c] PROVE PhasesCounted(c)' /\ TokenAt(c)' /\ PromptAt(c)'
  <2>1. ActivePhases(c)' = {}
    BY <1>2 DEF ActivePhases
  <2>2. PhasesCounted(c)'
    BY <1>2, <1>4, <2>1, FS_EmptySet DEF PhasesCounted
  <2>3. TokenAt(c)' /\ PromptAt(c)'
    BY <1>2, <1>4, TableFacts DEF TokenAt, PromptAt, Team, Goto, Chart, EndAt
  <2>. QED  BY <2>2, <2>3
<1>. QED  BY <1>1, <1>3, <1>4, Stays

\* The outcome ends the run, with its sentinel.
LEMMA OutcomeEnds ==
  ASSUME RtIInv, NEW c \in Children, at[c] = "outcome", Apply(c, "outcomeEnds"),
         NEW a \in {"park", "down"}, Goto(c, a), sentinel' = sentinel \cup {c},
         UNCHANGED <<phaseAt, token, held, queue, resumed, answering>>
  PROVE  RtIInv'
<1>1. BetweenTurns(lc[c]) /\ lc[c].probe = "none"
  BY TableFacts DEF Chart, ExecAt, ProbeAt, EndAt, TeamAt, Class, BetweenTurns, requireOpen, Gap
<1>2. Checked(c, "outcomeEnds") /\ "outcomeEnds" \in Signals
  BY <1>1, TableFacts, CheckedSignals DEF Checked, Signals, TurnSignals
<1>3. Frame(c) /\ at' = [at EXCEPT ![c] = a]
  BY DEF Frame, Goto, RtIInv, RtTyped
<1>4. Chart(c, lc[c], a) /\ (ActiveAt(lc[c], a) => ActiveAt(lc[c], at[c]))
  BY TableFacts DEF Chart, ExecAt, ProbeAt, EndAt, TeamAt, ActiveAt, isParked, Gap
<1>5. ASSUME at'[c] = a, lc'[c] = lc[c] PROVE PhasesCounted(c)' /\ TokenAt(c)' /\ PromptAt(c)'
  BY <1>5, TableFacts DEF PhasesCounted, TokenAt, PromptAt, Team, Goto, Chart, EndAt, TeamAt
<1>. QED  BY <1>2, <1>3, <1>4, <1>5, Stays

\* The context died while the child was idle or parked.
LEMMA IdleEndStep ==
  ASSUME RtIInv, NEW c \in Children, IdleEnd(c)
  PROVE  RtIInv'
<1>1. /\ at[c] = "idleEnd" /\ Apply(c, "idleContextEnded") /\ at' = [at EXCEPT ![c] = "down"]
      /\ sentinel' = sentinel \cup {c}
      /\ UNCHANGED <<kind, phaseAt, token, held, queue, resumed, answering>>
  BY DEF IdleEnd, Goto
<1>2. Unpublished(lc[c]) /\ lc[c].exec \in Gap \cup {"parked"} /\ lc[c].probe = "none"
  BY <1>1, TableFacts DEF Chart, ExecAt, ProbeAt, EndAt, Unpublished, Gap
<1>3. Checked(c, "idleContextEnded") /\ "idleContextEnded" \in Signals
  BY <1>1, <1>2, TableFacts, CheckedSignals DEF Checked, Signals, ParkSignals
<1>4. Frame(c)
  BY <1>1 DEF Frame, RtIInv, RtTyped
<1>5. Chart(c, lc[c], "down") /\ ~ActiveAt(lc[c], "down")
  BY <1>1, TableFacts DEF Chart, ExecAt, ProbeAt, EndAt, TeamAt, ActiveAt, isParked, Gap
<1>6. ASSUME at'[c] = "down", lc'[c] = lc[c] PROVE PhasesCounted(c)' /\ TokenAt(c)' /\ PromptAt(c)'
  BY <1>1, <1>6, TableFacts DEF PhasesCounted, TokenAt, PromptAt, Team, Chart, EndAt, TeamAt
<1>. QED  BY <1>1, <1>3, <1>4, <1>5, <1>6, Stays

\* A start that fails rolls the registration back.
LEMMA StartRolledBack ==
  ASSUME RtIInv, NEW c \in Children, at[c] = "spawning", Apply(c, "spawnRolledBack"),
         Goto(c, "rolling"), UNCHANGED <<phaseAt, token, held, queue, resumed, sentinel, answering>>
  PROVE  RtIInv'
<1>1. lc[c].completion = "open" /\ lc[c].exec = "starting"
  BY TableFacts DEF Chart, ExecAt, EndAt
<1>2. Checked(c, "spawnRolledBack") /\ "spawnRolledBack" \in Signals
  BY <1>1, TableFacts, CheckedSignals DEF Checked, Signals, EndSignals
<1>3. Frame(c) /\ at' = [at EXCEPT ![c] = "rolling"]
  BY DEF Frame, Goto, RtIInv, RtTyped
<1>4. Chart(c, lc[c], "rolling") /\ ~ActiveAt(lc[c], "rolling")
  BY TableFacts DEF Chart, ExecAt, ProbeAt, EndAt, TeamAt, ActiveAt, isParked, Gap
<1>5. ASSUME at'[c] = "rolling", lc'[c] = lc[c] PROVE PhasesCounted(c)' /\ TokenAt(c)' /\ PromptAt(c)'
  BY <1>5, TableFacts DEF PhasesCounted, TokenAt, PromptAt, Team, Goto, Chart, EndAt, TeamAt
<1>. QED  BY <1>2, <1>3, <1>4, <1>5, Stays

\* A parked child takes a prompt, also when the timeout raced it.
LEMMA PromptTaken ==
  ASSUME RtIInv, NEW c \in Children, at[c] = "parked", queue[c] > 0, Dequeue(c),
         Apply(c, "promptDequeued"), Goto(c, "slot"),
         UNCHANGED <<phaseAt, token, held, resumed, sentinel, answering>>
  PROVE  RtIInv'
<1>1. requireOpen(lc[c]) /\ lc[c].exec = "parked" /\ lc[c].completion = "open"
  BY TableFacts DEF Chart, ExecAt, EndAt, requireOpen
<1>2. Checked(c, "promptDequeued") /\ "promptDequeued" \in Signals
  BY <1>1, TableFacts, CheckedSignals DEF Checked, Signals, ParkSignals
<1>3. Frame(c) /\ at' = [at EXCEPT ![c] = "slot"]
  BY DEF Frame, Goto, Dequeue, RtIInv, RtTyped
<1>4. Chart(c, lc[c], "slot") /\ ~ActiveAt(lc[c], "slot")
  BY <1>1, TableFacts DEF Chart, ExecAt, ProbeAt, EndAt, TeamAt, ActiveAt, isParked, Gap
<1>5. ASSUME at'[c] = "slot", lc'[c] = lc[c] PROVE PhasesCounted(c)' /\ TokenAt(c)' /\ PromptAt(c)'
  BY <1>1, <1>5, TableFacts DEF PhasesCounted, TokenAt, PromptAt, Team, Goto, Chart, EndAt, TeamAt
<1>. QED  BY <1>2, <1>3, <1>4, <1>5, Stays

-----------------------------------------------------------------------------
(***************************************************************************)
(* Steps that change the machine.                                          *)
(***************************************************************************)
LEMMA Becomes ==
  ASSUME RtIInv, NEW c \in Children, NEW a \in Places, NEW t \in States, NEW sig,
         Apply(c, sig), Legal(lc[c], sig), After(lc[c], sig) = t, Valid(t),
         t.class = lc[c].class,
         t.completion = "published" => (lc[c].completion = "published" \/ Settles(lc[c], sig)),
         at' = [at EXCEPT ![c] = a], Frame(c), Chart(c, t, a),
         at'[c] = a /\ lc'[c] = t => PhasesCounted(c)' /\ TokenAt(c)' /\ PromptAt(c)',
         SlotsOK' \/ (held' = held /\ (ActiveAt(t, a) => ActiveAt(lc[c], at[c])))
  PROVE  RtIInv'
<1>1. /\ lc' = [lc EXCEPT ![c] = t] /\ illegal' = illegal
      /\ \A w \in Callers : waits'[w] \in {waits[w], Nobody}
      /\ t.completion = "published" => \A w \in Callers : waits'[w] # c \/ waits'[w] = Nobody
      /\ waits' \in [Callers -> Children \cup {Nobody}]
  BY ApplyMoves DEF Accepts
<1>2. Moves(c, t, a)
  BY <1>1 DEF Moves, Frame
<1>3. at'[c] = a /\ lc'[c] = t
  BY <1>1 DEF RtIInv, RtTyped
<1>4. Fits(c, t, a)
  BY <1>3, TableFacts DEF Fits
<1>. QED  BY <1>2, <1>4, MoveKeeps

\* complete at the rollback boundary.
LEMMA RollBackStep ==
  ASSUME RtIInv, NEW c \in Children, RollBack(c)
  PROVE  RtIInv'
<1>. DEFINE st == lc[c]
            t == [st EXCEPT !.exec = "ended", !.completion = "published"]
<1>1. /\ at[c] = "rolling" /\ Apply(c, "publishedAfterRollback")
      /\ at' = [at EXCEPT ![c] = "rolledBack"] /\ token' = token \ {c}
      /\ UNCHANGED <<kind, phaseAt, held, queue, resumed, sentinel, answering>>
  BY DEF RollBack, Goto
<1>2. st \in States /\ st.completion = "open" /\ st.exec = "starting" /\ st.attempts = 0
      /\ st.probe = "none" /\ Unpublished(st) /\ st.writer = "open"
  BY <1>1, TableFacts DEF Chart, ExecAt, ProbeAt, EndAt, Unpublished
<1>3. Legal(st, "publishedAfterRollback") /\ After(st, "publishedAfterRollback") = t
      /\ Settles(st, "publishedAfterRollback")
  BY <1>2, EndEffects DEF Settles
<1>4. /\ t \in States /\ t.exec = "ended" /\ t.attempts = 0 /\ t.shutdown = st.shutdown
      /\ t.writer = "open" /\ t.completion = "published" /\ t.class = st.class /\ t.probe = "none"
  BY <1>2, EndedFields
<1>. HIDE DEF t
<1>5. Valid(t)
  BY <1>4, TableFacts DEF Valid
<1>6. Frame(c)
  BY <1>1 DEF Frame, RtIInv, RtTyped
<1>7. Chart(c, t, "rolledBack") /\ ~ActiveAt(t, "rolledBack")
  BY <1>1, <1>4, TableFacts DEF Chart, ExecAt, ProbeAt, EndAt, TeamAt, ActiveAt, isParked
<1>8. ASSUME at'[c] = "rolledBack", lc'[c] = t PROVE PhasesCounted(c)' /\ TokenAt(c)' /\ PromptAt(c)'
  BY <1>1, <1>2, <1>4, <1>8, TableFacts DEF PhasesCounted, TokenAt, PromptAt, Team
<1>. QED  BY <1>1, <1>3, <1>4, <1>5, <1>6, <1>7, <1>8, Becomes

\* A probe begins.
LEMMA ProbeBegins ==
  ASSUME RtIInv, NEW c \in Children, at[c] = "outcome", NEW a,
         \/ Apply(c, "probeTerminal") /\ a = "probe"
         \/ Apply(c, "probeRetry") /\ a = "retryProbe",
         Goto(c, a), UNCHANGED <<phaseAt, token, held, queue, resumed, sentinel, answering>>
  PROVE  RtIInv'
<1>. DEFINE st == lc[c]
            x == IF a = "probe" THEN "terminal" ELSE "retry"
            sig == IF a = "probe" THEN "probeTerminal" ELSE "probeRetry"
            t == [st EXCEPT !.probe = x]
<1>0. a \in {"probe", "retryProbe"} /\ Apply(c, sig)
  OBVIOUS
<1>1. /\ BetweenTurns(st) /\ st.probe = "none" /\ st.exec = "idle" /\ st.completion = "open"
      /\ st \in States /\ st.attempts = 0
  BY TableFacts DEF Chart, ExecAt, ProbeAt, EndAt, TeamAt, Class, BetweenTurns, requireOpen, Gap
<1>2. Legal(st, sig) /\ After(st, sig) = t
  BY <1>0, <1>1, ProbeEffects
<1>3. x \in {"none", "terminal", "retry"}
  OBVIOUS
<1>4. /\ t \in States /\ t.exec = "idle" /\ t.attempts = 0 /\ t.shutdown = st.shutdown
      /\ t.writer = st.writer /\ t.completion = "open" /\ t.class = st.class /\ t.probe = x
  <2>. HIDE DEF x
  <2>. QED  BY <1>1, <1>3, ProbeField
<1>. HIDE DEF t, sig
<1>5. Valid(t)
  BY <1>4, TableFacts DEF Valid, Gap
<1>6. Frame(c) /\ at' = [at EXCEPT ![c] = a] /\ a \in Places
  BY <1>0 DEF Frame, Goto, RtIInv, RtTyped
<1>7. Chart(c, t, a) /\ (ActiveAt(t, a) => ActiveAt(st, at[c]))
  BY <1>0, <1>1, <1>4, TableFacts DEF Chart, ExecAt, ProbeAt, EndAt, TeamAt, ActiveAt, isParked
<1>8. ASSUME at'[c] = a, lc'[c] = t PROVE PhasesCounted(c)' /\ TokenAt(c)' /\ PromptAt(c)'
  BY <1>0, <1>1, <1>4, <1>8, TableFacts DEF PhasesCounted, TokenAt, PromptAt, Team, Goto
<1>. QED  BY <1>0, <1>2, <1>4, <1>5, <1>6, <1>7, <1>8, Becomes

\* A probe ends: another turn, a backoff, or the end of the run.
LEMMA ProbeEnds ==
  ASSUME RtIInv, NEW c \in Children, TerminalContinuation(c) \/ RetryProbe(c)
  PROVE  RtIInv'
<1>. DEFINE st == lc[c]
            sig == IF at[c] = "retryProbe" THEN "continueRetry" ELSE "continueTerminal"
            t == [st EXCEPT !.probe = "none"]
<1>0. /\ at[c] \in {"resume", "finish", "retryProbe"} /\ Apply(c, sig)
      /\ UNCHANGED <<kind, phaseAt, token, held, resumed, answering>>
      /\ \A d \in Children \ {c} : d \in sentinel' <=> d \in sentinel
  BY DEF TerminalContinuation, RetryProbe, Goto
<1>1. PICK a \in {"token", "down", "idleEnd", "backoff"} : at' = [at EXCEPT ![c] = a]
  BY DEF TerminalContinuation, RetryProbe, Goto
<1>2. /\ BetweenTurns(st) /\ st.exec = "idle" /\ st.completion = "open"
      /\ st \in States /\ st.attempts = 0
      /\ st.probe = (IF at[c] = "retryProbe" THEN "retry" ELSE "terminal")
  BY <1>0, TableFacts DEF Chart, ExecAt, ProbeAt, EndAt, TeamAt, Class, BetweenTurns, requireOpen, Gap
<1>3. Legal(st, sig) /\ After(st, sig) = t
  BY <1>2, ProbeEffects
<1>4. /\ t \in States /\ t.exec = "idle" /\ t.attempts = 0 /\ t.shutdown = st.shutdown
      /\ t.writer = st.writer /\ t.completion = "open" /\ t.class = st.class /\ t.probe = "none"
  BY <1>2, ProbeField
<1>. HIDE DEF t, sig
<1>5. Valid(t)
  BY <1>4, TableFacts DEF Valid, Gap
<1>6. Frame(c)
  <2>1. /\ queue' \in [Children -> Nat]
        /\ \A d \in Children \ {c} : queue'[d] = queue[d]
    BY DEF TerminalContinuation, RetryProbe, CanDequeue, Dequeue, RtIInv, RtTyped
  <2>. QED  BY <1>0, <2>1 DEF Frame, RtIInv, RtTyped
<1>7. Chart(c, t, a) /\ (ActiveAt(t, a) => ActiveAt(st, at[c]))
  BY <1>0, <1>2, <1>4, TableFacts DEF Chart, ExecAt, ProbeAt, EndAt, TeamAt, ActiveAt, isParked, Gap
<1>8. ASSUME at'[c] = a, lc'[c] = t PROVE PhasesCounted(c)' /\ TokenAt(c)' /\ PromptAt(c)'
  BY <1>0, <1>2, <1>4, <1>8, TableFacts DEF PhasesCounted, TokenAt, PromptAt, Team
<1>. QED  BY <1>0, <1>1, <1>3, <1>4, <1>5, <1>6, <1>7, <1>8, Becomes

\* The child parks, and its resume is over.
LEMMA ParkStep ==
  ASSUME RtIInv, NEW c \in Children, Park(c)
  PROVE  RtIInv'
<1>. DEFINE st == lc[c]
            t == [st EXCEPT !.exec = "parked"]
<1>1. /\ at[c] = "park" /\ Apply(c, "parkRequested") /\ at' = [at EXCEPT ![c] = "parked"]
      /\ resumed' = resumed \ {c}
      /\ UNCHANGED <<kind, phaseAt, token, held, queue, sentinel, answering>>
  BY DEF Park, Goto
<1>2. /\ BetweenTurns(st) /\ st.probe = "none" /\ st.exec = "idle" /\ st.completion = "open"
      /\ st \in States /\ st.attempts = 0
  BY <1>1, TableFacts DEF Chart, ExecAt, ProbeAt, EndAt, TeamAt, Class, BetweenTurns, requireOpen, Gap
<1>3. Legal(st, "parkRequested") /\ After(st, "parkRequested") = t
  BY <1>2, ParkEffects
<1>4. /\ t \in States /\ t.exec = "parked" /\ t.attempts = 0 /\ t.shutdown = st.shutdown
      /\ t.writer = st.writer /\ t.completion = "open" /\ t.class = st.class /\ t.probe = "none"
  <2>1. "parked" \in Execs
    BY DEF Execs
  <2>. QED  BY <1>2, <2>1, ExecField
<1>. HIDE DEF t
<1>5. Valid(t)
  BY <1>4, TableFacts DEF Valid
<1>6. Frame(c)
  BY <1>1 DEF Frame, RtIInv, RtTyped
<1>7. Chart(c, t, "parked") /\ ~ActiveAt(t, "parked")
  BY <1>1, <1>2, <1>4, TableFacts DEF Chart, ExecAt, ProbeAt, EndAt, TeamAt, ActiveAt, isParked
<1>8. ASSUME at'[c] = "parked", lc'[c] = t PROVE PhasesCounted(c)' /\ TokenAt(c)' /\ PromptAt(c)'
  BY <1>1, <1>2, <1>4, <1>8, TableFacts DEF PhasesCounted, TokenAt, PromptAt, Team
<1>. QED  BY <1>1, <1>3, <1>4, <1>5, <1>6, <1>7, <1>8, Becomes

\* The park timeout closes admission: no prompt is queued and no resume admitted.
LEMMA ParkTimedOut ==
  ASSUME RtIInv, NEW c \in Children, at[c] = "parked", ~TimeoutTakes(c),
         Apply(c, "parkTimedOut"), Goto(c, "unpark"),
         UNCHANGED <<phaseAt, token, held, queue, resumed, sentinel, answering>>
  PROVE  RtIInv'
<1>. DEFINE st == lc[c]
            t == [st EXCEPT !.completion = "admissionClosed"]
<1>1. /\ requireOpen(st) /\ st.probe = "none" /\ st.exec = "parked" /\ st.completion = "open"
      /\ st \in States /\ st.attempts = 0
  BY TableFacts DEF Chart, ExecAt, ProbeAt, EndAt, requireOpen
<1>2. queue[c] = 0 /\ c \notin resumed
  BY TableFacts DEF TimeoutTakes, PromptAt, RtIInv, RtTyped
<1>3. Legal(st, "parkTimedOut") /\ After(st, "parkTimedOut") = t
  BY <1>1, ParkEffects
<1>4. /\ t \in States /\ t.exec = "parked" /\ t.attempts = 0 /\ t.shutdown = st.shutdown
      /\ t.writer = st.writer /\ t.completion = "admissionClosed" /\ t.class = st.class
      /\ t.probe = "none"
  BY <1>1, ClosedField
<1>. HIDE DEF t
<1>5. Valid(t)
  BY <1>4, TableFacts DEF Valid
<1>6. Frame(c) /\ at' = [at EXCEPT ![c] = "unpark"]
  BY DEF Frame, Goto, RtIInv, RtTyped
<1>7. Chart(c, t, "unpark") /\ ~ActiveAt(t, "unpark")
  BY <1>1, <1>4, TableFacts DEF Chart, ExecAt, ProbeAt, EndAt, TeamAt, ActiveAt, isParked
<1>8. ASSUME at'[c] = "unpark", lc'[c] = t PROVE PhasesCounted(c)' /\ TokenAt(c)' /\ PromptAt(c)'
  BY <1>1, <1>2, <1>4, <1>8, TableFacts DEF PhasesCounted, TokenAt, PromptAt, Team, Goto
<1>. QED  BY <1>3, <1>4, <1>5, <1>6, <1>7, <1>8, Becomes

\* The park ends without a turn: the child counts again, and ends.
LEMMA UnparkStep ==
  ASSUME RtIInv, NEW c \in Children, Unpark(c)
  PROVE  RtIInv'
<1>. DEFINE st == lc[c]
            t == [st EXCEPT !.exec = "idle"]
<1>1. /\ at[c] = "unpark" /\ Apply(c, "parkWaitEnded")
      /\ UNCHANGED <<kind, phaseAt, token, held, queue, resumed, sentinel, answering>>
  BY DEF Unpark, Goto
<1>2. PICK a \in {"down", "idleEnd"} : at' = [at EXCEPT ![c] = a]
  BY DEF Unpark, Goto
<1>3. /\ Unpublished(st) /\ st.probe = "none" /\ st.exec = "parked"
      /\ st \in States /\ st.attempts = 0
  BY <1>1, TableFacts DEF Chart, ExecAt, ProbeAt, EndAt, Unpublished
<1>4. Legal(st, "parkWaitEnded") /\ After(st, "parkWaitEnded") = t
  BY <1>3, ParkEffects
<1>5. /\ t \in States /\ t.exec = "idle" /\ t.attempts = 0 /\ t.shutdown = st.shutdown
      /\ t.writer = st.writer /\ t.completion = st.completion /\ t.class = st.class
      /\ t.probe = "none"
  <2>1. "idle" \in Execs
    BY DEF Execs, Gap
  <2>. QED  BY <1>3, <2>1, ExecField
<1>. HIDE DEF t
<1>6. Valid(t)
  BY <1>3, <1>5, TableFacts DEF Valid, Unpublished
<1>7. Frame(c)
  BY <1>1 DEF Frame, RtIInv, RtTyped
<1>8. Chart(c, t, a) /\ ~ActiveAt(t, a)
  BY <1>1, <1>3, <1>5, TableFacts DEF Chart, ExecAt, ProbeAt, EndAt, TeamAt, ActiveAt, isParked, Gap
<1>9. ASSUME at'[c] = a, lc'[c] = t PROVE PhasesCounted(c)' /\ TokenAt(c)' /\ PromptAt(c)'
  BY <1>1, <1>3, <1>5, <1>9, TableFacts DEF PhasesCounted, TokenAt, PromptAt, Team
<1>. QED  BY <1>1, <1>2, <1>3, <1>4, <1>5, <1>6, <1>7, <1>8, <1>9, Becomes DEF Unpublished

\* Shutdown is requested: by teardown, which goes on, or by somebody else.
LEMMA ShutdownStep ==
  ASSUME RtIInv, NEW c \in Children, NEW a \in Places, at[c] \notin Unborn,
         a = at[c] \/ (at[c] = "down" /\ a = "warm"),
         Apply(c, "shutdownRequested"), at' = [at EXCEPT ![c] = a],
         UNCHANGED <<kind, phaseAt, token, held, queue, resumed, sentinel, answering>>
  PROVE  RtIInv'
<1>. DEFINE st == lc[c]
            t == [st EXCEPT !.shutdown = TRUE]
<1>1. st \in States /\ Valid(st)
  BY TableFacts
<1>2. Legal(st, "shutdownRequested") /\ After(st, "shutdownRequested") = t
  BY <1>1, EndEffects
<1>3. /\ t \in States /\ t.exec = st.exec /\ t.attempts = st.attempts /\ t.shutdown
      /\ t.writer = st.writer /\ t.completion = st.completion /\ t.class = st.class
      /\ t.probe = st.probe
  BY <1>1, ShutdownField
<1>. HIDE DEF t
<1>4. Valid(t)
  BY <1>1, <1>3 DEF Valid
<1>5. Frame(c)
  BY DEF Frame, RtIInv, RtTyped
<1>6. Chart(c, t, a) /\ (ActiveAt(t, a) => ActiveAt(st, at[c]))
  BY <1>3, TableFacts DEF Chart, ExecAt, ProbeAt, EndAt, TeamAt, ActiveAt, isParked
<1>7. ASSUME at'[c] = a, lc'[c] = t PROVE PhasesCounted(c)' /\ TokenAt(c)' /\ PromptAt(c)'
  BY <1>3, <1>7, TableFacts DEF PhasesCounted, ActivePhases, TokenAt, PromptAt, Team
<1>. QED  BY <1>2, <1>3, <1>4, <1>5, <1>6, <1>7, Becomes

\* The writer closes, once the answers it admitted are written.
LEMMA WriterStep ==
  ASSUME RtIInv, NEW c \in Children, CloseWriter(c) \/ FinishWriter(c)
  PROVE  RtIInv'
<1>. DEFINE st == lc[c]
            b == at[c] = "writer"
            a == IF b THEN "drain" ELSE "ending"
            x == IF b THEN "closing" ELSE "closed"
            sig == IF b THEN "writerCloseBegun" ELSE "writerCloseFinished"
            t == [st EXCEPT !.writer = x]
<1>1. /\ at[c] \in {"writer", "drain"} /\ Apply(c, sig) /\ at' = [at EXCEPT ![c] = a]
      /\ UNCHANGED <<kind, phaseAt, token, held, queue, resumed, sentinel, answering>>
      /\ ~b => c \notin answering
  BY DEF CloseWriter, FinishWriter, TeardownStep, Drained, Goto
<1>2. st \in States /\ Valid(st) /\ st.writer = (IF b THEN "open" ELSE "closing")
      /\ st.completion # "published" /\ st.probe = "none"
  BY <1>1, TableFacts DEF Chart, EndAt, ProbeAt
<1>3. Legal(st, sig) /\ After(st, sig) = t
  BY <1>2, EndEffects
<1>4. x \in {"closing", "closed"}
  OBVIOUS
<1>5. /\ t \in States /\ t.exec = st.exec /\ t.attempts = st.attempts /\ t.shutdown = st.shutdown
      /\ t.writer = x /\ t.completion = st.completion /\ t.class = st.class
      /\ t.probe = st.probe
  <2>. HIDE DEF x
  <2>. QED  BY <1>2, <1>4, WriterField
<1>. HIDE DEF t, sig
<1>6. Valid(t)
  BY <1>2, <1>5 DEF Valid
<1>7. Frame(c) /\ a \in Places
  BY <1>1 DEF Frame, RtIInv, RtTyped
<1>8. Chart(c, t, a) /\ ~ActiveAt(t, a)
  BY <1>1, <1>2, <1>5, TableFacts DEF Chart, ExecAt, ProbeAt, EndAt, TeamAt, ActiveAt, isParked
<1>9. ASSUME at'[c] = a, lc'[c] = t PROVE PhasesCounted(c)' /\ TokenAt(c)' /\ PromptAt(c)'
  BY <1>1, <1>2, <1>5, <1>9, TableFacts DEF PhasesCounted, TokenAt, PromptAt, Team
<1>. QED  BY <1>1, <1>2, <1>3, <1>5, <1>6, <1>7, <1>8, <1>9, Becomes

\* finishRunEnded.
LEMMA EndRunStep ==
  ASSUME RtIInv, NEW c \in Children, EndRun(c)
  PROVE  RtIInv'
<1>. DEFINE st == lc[c]
            x == IF st.exec = "parked" THEN "parkedEnding" ELSE "ended"
            t == [st EXCEPT !.exec = x]
<1>1. /\ at[c] = "ending" /\ Apply(c, "runEnded") /\ at' = [at EXCEPT ![c] = "publish"]
      /\ UNCHANGED <<kind, phaseAt, token, held, queue, resumed, sentinel, answering>>
  BY DEF EndRun, TeardownStep, Goto
<1>2. /\ st \in States /\ Valid(st) /\ st.exec \in Gap \cup {"parked"} /\ st.attempts = 0
      /\ st.completion # "published" /\ Unpublished(st) /\ st.probe = "none"
  BY <1>1, TableFacts DEF Chart, ExecAt, ProbeAt, EndAt, Unpublished, Gap
<1>3. Legal(st, "runEnded") /\ After(st, "runEnded") = t
  <2>1. st.exec = "parked" \/ (st.exec \in Gap /\ st.exec # "parked")
    BY <1>2 DEF Gap
  <2>. QED  BY <1>2, <2>1, ParkEffects
<1>4. x \in Execs /\ x \in {"parkedEnding", "ended"} /\ (x = "parkedEnding" => st.exec = "parked")
  BY DEF Execs
<1>. HIDE DEF x
<1>5. /\ t \in States /\ t.exec = x /\ t.attempts = 0 /\ t.shutdown = st.shutdown
      /\ t.writer = st.writer /\ t.completion = st.completion /\ t.class = st.class
      /\ t.probe = "none"
  BY <1>2, <1>4, ExecField
<1>. HIDE DEF t
<1>6. Valid(t)
  BY <1>2, <1>4, <1>5 DEF Valid
<1>7. Frame(c)
  BY <1>1 DEF Frame, RtIInv, RtTyped
<1>8. Chart(c, t, "publish") /\ ~ActiveAt(t, "publish")
  BY <1>1, <1>2, <1>4, <1>5, TableFacts DEF Chart, ExecAt, ProbeAt, EndAt, TeamAt, ActiveAt, isParked
<1>9. ASSUME at'[c] = "publish", lc'[c] = t PROVE PhasesCounted(c)' /\ TokenAt(c)' /\ PromptAt(c)'
  BY <1>1, <1>2, <1>5, <1>9, TableFacts DEF PhasesCounted, TokenAt, PromptAt, Team
<1>. QED  BY <1>1, <1>2, <1>3, <1>5, <1>6, <1>7, <1>8, <1>9, Becomes

\* complete: the token goes back, and the waiting callers are woken.
LEMMA PublishStep ==
  ASSUME RtIInv, NEW c \in Children, Publish(c)
  PROVE  RtIInv'
<1>. DEFINE st == lc[c]
            t == [st EXCEPT !.exec = "ended", !.completion = "published"]
<1>1. /\ at[c] = "publish" /\ Apply(c, "publishedAfterTeardown")
      /\ at' = [at EXCEPT ![c] = "done"] /\ token' = token \ {c}
      /\ UNCHANGED <<kind, phaseAt, held, queue, resumed, sentinel, answering>>
  BY DEF Publish, TeardownStep, Goto
<1>2. /\ st \in States /\ st.exec \in {"ended", "parkedEnding"} /\ st.attempts = 0
      /\ Unpublished(st) /\ st.probe = "none" /\ st.shutdown /\ st.writer = "closed"
  BY <1>1, TableFacts DEF Chart, ExecAt, ProbeAt, EndAt, Unpublished
<1>3. /\ Legal(st, "publishedAfterTeardown") /\ After(st, "publishedAfterTeardown") = t
      /\ Settles(st, "publishedAfterTeardown")
  BY <1>2, EndEffects DEF Settles
<1>4. /\ t \in States /\ t.exec = "ended" /\ t.attempts = 0 /\ t.shutdown /\ t.writer = "closed"
      /\ t.completion = "published" /\ t.class = st.class /\ t.probe = "none"
  BY <1>2, EndedFields
<1>. HIDE DEF t
<1>5. Valid(t)
  BY <1>4, TableFacts DEF Valid
<1>6. Frame(c)
  BY <1>1 DEF Frame, RtIInv, RtTyped
<1>7. Chart(c, t, "done") /\ ~ActiveAt(t, "done")
  BY <1>1, <1>4, TableFacts DEF Chart, ExecAt, ProbeAt, EndAt, TeamAt, ActiveAt, isParked
<1>8. ASSUME at'[c] = "done", lc'[c] = t PROVE PhasesCounted(c)' /\ TokenAt(c)' /\ PromptAt(c)'
  BY <1>1, <1>2, <1>4, <1>8, TableFacts DEF PhasesCounted, TokenAt, PromptAt, Team
<1>. QED  BY <1>1, <1>3, <1>4, <1>5, <1>6, <1>7, <1>8, Becomes

-----------------------------------------------------------------------------
(***************************************************************************)
(* Admission: the steps after which one more child, or one reservation     *)
(* more, uses a slot.                                                      *)
(***************************************************************************)
LEMMA SlotFacts ==
  ASSUME RtIInv
  PROVE  /\ IsFiniteSet(ActiveSet) /\ IsFiniteSet(held)
         /\ Cardinality(ActiveSet) \in Nat /\ Cardinality(held) \in Nat
         /\ Cardinality(ActiveSet) + Cardinality(held) <= MaxRuntimes
         /\ SlotFree => Cardinality(ActiveSet) + Cardinality(held) < MaxRuntimes
<1>. DEFINE K == {c \in Children : Counts(c)}
<1>1. IsFiniteSet(ActiveSet) /\ IsFiniteSet(held) /\ IsFiniteSet(K) /\ ActiveSet \subseteq K
  BY RuntimeAssumption, FS_Subset DEF ActiveSet, Active, RtIInv, RtTyped
<1>2. /\ Cardinality(ActiveSet) \in Nat /\ Cardinality(held) \in Nat /\ Cardinality(K) \in Nat
      /\ Cardinality(ActiveSet) <= Cardinality(K)
  BY <1>1, FS_Subset, FS_CardinalityType
<1>3. SlotFree => Cardinality(K) + Cardinality(held) < MaxRuntimes
  BY DEF SlotFree
<1>4. Cardinality(ActiveSet) + Cardinality(held) <= MaxRuntimes
  BY DEF RtIInv, SlotsOK
<1>. HIDE DEF K
<1>. QED  BY <1>1, <1>2, <1>3, <1>4, RuntimeAssumption

\* A step of one child that is not active before it.
LEMMA SlotsAfter ==
  ASSUME RtIInv, NEW c \in Children, NEW t, NEW a, Frame(c), ~ActiveAt(lc[c], at[c]),
         lc' = [lc EXCEPT ![c] = t], at' = [at EXCEPT ![c] = a]
  PROVE  /\ Cardinality(ActiveSet') \in Nat
         /\ ActiveAt(t, a) => Cardinality(ActiveSet') <= Cardinality(ActiveSet) + 1
         /\ ~ActiveAt(t, a) => Cardinality(ActiveSet') <= Cardinality(ActiveSet)
<1>1. Local(c) /\ lc'[c] = t /\ at'[c] = a /\ kind' = kind
  BY DEF Frame, Local, RtIInv, RtTyped
<1>2. Active(c)' <=> ActiveAt(t, a)
  BY <1>1 DEF Active, ActiveAt, Counts, Registered, Reachable, isCompleted, isParked, Ending
<1>3. \A d \in Children : d # c => (Active(d)' <=> Active(d))
  BY <1>1, OthersOK
<1>4. ActiveSet' \subseteq ActiveSet \cup {c} /\ (~ActiveAt(t, a) => ActiveSet' \subseteq ActiveSet)
  BY <1>2, <1>3 DEF ActiveSet
<1>5. /\ IsFiniteSet(ActiveSet \cup {c})
      /\ Cardinality(ActiveSet \cup {c}) <= Cardinality(ActiveSet) + 1
      /\ Cardinality(ActiveSet \cup {c}) \in Nat /\ Cardinality(ActiveSet) \in Nat
  <2>. DEFINE A == ActiveSet
  <2>1. IsFiniteSet(A) /\ Cardinality(A) \in Nat
    BY SlotFacts
  <2>. HIDE DEF A
  <2>2. /\ IsFiniteSet(A \cup {c})
        /\ Cardinality(A \cup {c}) = IF c \in A THEN Cardinality(A) ELSE Cardinality(A) + 1
    BY <2>1, FS_AddElement
  <2>3. Cardinality(A \cup {c}) <= Cardinality(A) + 1 /\ Cardinality(A \cup {c}) \in Nat
    BY <2>1, <2>2
  <2>. QED  BY <2>1, <2>2, <2>3 DEF A
<1>6. Cardinality(ActiveSet') <= Cardinality(ActiveSet \cup {c}) /\ Cardinality(ActiveSet') \in Nat
  BY <1>4, <1>5, FS_Subset, FS_CardinalityType
<1>7. ~ActiveAt(t, a) => Cardinality(ActiveSet') <= Cardinality(ActiveSet)
  BY <1>4, SlotFacts, FS_Subset
<1>. QED  BY <1>5, <1>6, <1>7

\* A reservation takes a token and a slot.
LEMMA ReserveStep ==
  ASSUME RtIInv, NEW c \in Children, Reserve(c)
  PROVE  RtIInv'
<1>1. /\ at[c] = "unspawned" /\ SlotFree /\ Quiet /\ at' = [at EXCEPT ![c] = "reserved"]
      /\ token' = token \cup {c} /\ held' = held \cup {c}
      /\ UNCHANGED <<kind, phaseAt, queue, resumed, sentinel, answering>>
  BY DEF Reserve, Goto
<1>2. Frame(c)
  BY <1>1 DEF Frame, RtIInv, RtTyped
<1>3. Chart(c, lc[c], "reserved") /\ ~ActiveAt(lc[c], "reserved") /\ ~ActiveAt(lc[c], at[c])
  BY <1>1, TableFacts DEF Chart, ExecAt, ProbeAt, EndAt, TeamAt, ActiveAt
<1>4. ASSUME at'[c] = "reserved", lc'[c] = lc[c] PROVE PhasesCounted(c)' /\ TokenAt(c)' /\ PromptAt(c)'
  BY <1>1, <1>4, TableFacts DEF PhasesCounted, ActivePhases, TokenAt, PromptAt, Team
<1>5. SlotsOK'
  <2>1. lc' = [lc EXCEPT ![c] = lc[c]]
    BY <1>1, QuietMoves
  <2>2. Cardinality(ActiveSet') <= Cardinality(ActiveSet) /\ Cardinality(ActiveSet') \in Nat
    BY <1>1, <1>2, <1>3, <2>1, SlotsAfter
  <2>3. c \notin held
    BY <1>1, TableFacts DEF TokenAt
  <2>4. Cardinality(held') = Cardinality(held) + 1
    BY <1>1, <2>3, SlotFacts, FS_AddElement
  <2>. QED  BY <1>1, <2>2, <2>4, SlotFacts, RuntimeAssumption DEF SlotsOK
<1>. QED  BY <1>1, <1>2, <1>3, <1>4, <1>5, Stays

\* The child is registered: its reservation becomes the slot it uses.
LEMMA RegisterStep ==
  ASSUME RtIInv, NEW c \in Children, at[c] = "reserved", held' = held \ {c},
         Apply(c, "published"), Goto(c, "spawning"),
         UNCHANGED <<phaseAt, token, queue, resumed, sentinel, answering>>
  PROVE  RtIInv'
<1>. DEFINE st == lc[c]
            t == [st EXCEPT !.exec = "starting"]
<1>1. /\ st \in States /\ st.exec = "reserved" /\ st.probe = "none" /\ st.completion = "open"
      /\ st.attempts = 0
  BY TableFacts DEF Chart, ExecAt, ProbeAt, EndAt
<1>2. Legal(st, "published") /\ After(st, "published") = t
  BY <1>1, TurnEffects
<1>3. /\ t \in States /\ t.exec = "starting" /\ t.attempts = 0 /\ t.shutdown = st.shutdown
      /\ t.writer = st.writer /\ t.completion = "open" /\ t.class = st.class /\ t.probe = "none"
  <2>1. "starting" \in Execs
    BY DEF Execs, Gap
  <2>. QED  BY <1>1, <2>1, ExecField
<1>. HIDE DEF t
<1>4. Valid(t)
  BY <1>3, TableFacts DEF Valid
<1>5. Frame(c) /\ at' = [at EXCEPT ![c] = "spawning"]
  BY DEF Frame, Goto, RtIInv, RtTyped
<1>6. Chart(c, t, "spawning")
  BY <1>1, <1>3, TableFacts DEF Chart, ExecAt, ProbeAt, EndAt, TeamAt, isParked
<1>7. ASSUME at'[c] = "spawning", lc'[c] = t PROVE PhasesCounted(c)' /\ TokenAt(c)' /\ PromptAt(c)'
  <2>1. PhasesCounted(c)'
    BY <1>1, <1>3, <1>7, TableFacts DEF PhasesCounted, ActivePhases, Team, Goto
  <2>2. TokenAt(c)'
    BY <1>1, <1>3, <1>7, TableFacts DEF TokenAt, Team, Goto
  <2>3. PromptAt(c)'
    BY <1>1, <1>3, <1>7, TableFacts DEF PromptAt, Team, Goto
  <2>. QED  BY <2>1, <2>2, <2>3
<1>8. SlotsOK'
  <2>1. lc' = [lc EXCEPT ![c] = t]
    BY <1>2, <1>4 DEF Apply, Accepts
  <2>2. ~ActiveAt(st, at[c])
    BY DEF ActiveAt
  <2>3. Cardinality(ActiveSet') <= Cardinality(ActiveSet) + 1 /\ Cardinality(ActiveSet') \in Nat
    <3>1. /\ Cardinality(ActiveSet') \in Nat
          /\ ActiveAt(t, "spawning") => Cardinality(ActiveSet') <= Cardinality(ActiveSet) + 1
          /\ ~ActiveAt(t, "spawning") => Cardinality(ActiveSet') <= Cardinality(ActiveSet)
      BY <1>5, <2>1, <2>2, SlotsAfter
    <3>. QED  BY <3>1, SlotFacts
  <2>4. c \in held
    BY TableFacts DEF TokenAt
  <2>5. Cardinality(held') = Cardinality(held) - 1
    BY <2>4, SlotFacts, FS_RemoveElement
  <2>. QED  BY <2>3, <2>5, SlotFacts, RuntimeAssumption DEF SlotsOK
<1>. QED  BY <1>2, <1>3, <1>4, <1>5, <1>6, <1>7, <1>8, Becomes

\* The registration is refused, and the reservation goes back.
LEMMA RefuseStep ==
  ASSUME RtIInv, NEW c \in Children, at[c] = "reserved", held' = held \ {c}, token' = token \ {c},
         Quiet, Goto(c, "refused"), UNCHANGED <<phaseAt, queue, resumed, sentinel, answering>>
  PROVE  RtIInv'
<1>1. Frame(c) /\ at' = [at EXCEPT ![c] = "refused"]
  BY DEF Frame, Goto, RtIInv, RtTyped
<1>2. Chart(c, lc[c], "refused") /\ ~ActiveAt(lc[c], "refused") /\ ~ActiveAt(lc[c], at[c])
  BY TableFacts DEF Chart, ExecAt, ProbeAt, EndAt, TeamAt, ActiveAt
<1>3. ASSUME at'[c] = "refused", lc'[c] = lc[c] PROVE PhasesCounted(c)' /\ TokenAt(c)' /\ PromptAt(c)'
  BY <1>3, TableFacts DEF PhasesCounted, ActivePhases, TokenAt, PromptAt, Team
<1>4. SlotsOK'
  <2>1. lc' = [lc EXCEPT ![c] = lc[c]]
    BY QuietMoves
  <2>2. Cardinality(ActiveSet') <= Cardinality(ActiveSet) /\ Cardinality(ActiveSet') \in Nat
    BY <1>1, <1>2, <2>1, SlotsAfter
  <2>3. c \in held
    BY TableFacts DEF TokenAt
  <2>4. Cardinality(held') = Cardinality(held) - 1
    BY <2>3, SlotFacts, FS_RemoveElement
  <2>. QED  BY <2>2, <2>4, SlotFacts, RuntimeAssumption DEF SlotsOK
<1>. QED  BY <1>1, <1>2, <1>3, <1>4, Stays

\* A parked child resumes: it takes a slot under the lock that spawns take theirs.
LEMMA ResumeStep ==
  ASSUME RtIInv, NEW c \in Children, at[c] = "slot", SlotFree,
         Apply(c, "localSlotAcquired"), Goto(c, "token"),
         UNCHANGED <<phaseAt, token, held, queue, resumed, sentinel, answering>>
  PROVE  RtIInv'
<1>. DEFINE st == lc[c]
            t == [st EXCEPT !.exec = "idle"]
<1>1. /\ st \in States /\ st.exec = "parked" /\ st.probe = "none" /\ st.completion = "open"
      /\ st.attempts = 0 /\ requireOpen(st)
  BY TableFacts DEF Chart, ExecAt, ProbeAt, EndAt, requireOpen
<1>2. Legal(st, "localSlotAcquired") /\ After(st, "localSlotAcquired") = t
  BY <1>1, ParkEffects
<1>3. /\ t \in States /\ t.exec = "idle" /\ t.attempts = 0 /\ t.shutdown = st.shutdown
      /\ t.writer = st.writer /\ t.completion = "open" /\ t.class = st.class /\ t.probe = "none"
  <2>1. "idle" \in Execs
    BY DEF Execs, Gap
  <2>. QED  BY <1>1, <2>1, ExecField
<1>. HIDE DEF t
<1>4. Valid(t)
  BY <1>3, TableFacts DEF Valid
<1>5. Frame(c) /\ at' = [at EXCEPT ![c] = "token"]
  BY DEF Frame, Goto, RtIInv, RtTyped
<1>6. Chart(c, t, "token")
  BY <1>1, <1>3, TableFacts DEF Chart, ExecAt, ProbeAt, EndAt, TeamAt, isParked
<1>7. ASSUME at'[c] = "token", lc'[c] = t PROVE PhasesCounted(c)' /\ TokenAt(c)' /\ PromptAt(c)'
  BY <1>1, <1>3, <1>7, TableFacts DEF PhasesCounted, TokenAt, PromptAt, Team, Goto
<1>8. SlotsOK'
  <2>1. lc' = [lc EXCEPT ![c] = t]
    BY <1>2, <1>4 DEF Apply, Accepts
  <2>2. ~ActiveAt(st, at[c])
    BY <1>1 DEF ActiveAt, isParked
  <2>3. Cardinality(ActiveSet') <= Cardinality(ActiveSet) + 1 /\ Cardinality(ActiveSet') \in Nat
    <3>1. /\ Cardinality(ActiveSet') \in Nat
          /\ ActiveAt(t, "token") => Cardinality(ActiveSet') <= Cardinality(ActiveSet) + 1
          /\ ~ActiveAt(t, "token") => Cardinality(ActiveSet') <= Cardinality(ActiveSet)
      BY <1>5, <2>1, <2>2, SlotsAfter
    <3>. QED  BY <3>1, SlotFacts
  <2>. QED  BY <2>3, SlotFacts, RuntimeAssumption DEF SlotsOK
<1>. QED  BY <1>2, <1>3, <1>4, <1>5, <1>6, <1>7, <1>8, Becomes

-----------------------------------------------------------------------------
(***************************************************************************)
(* The phases of a team: the machine counts the ones that are active.      *)
(***************************************************************************)
LEMMA PhaseFacts ==
  ASSUME RtIInv, NEW c \in Children, at[c] = "phases"
  PROVE  /\ lc[c] \in States /\ Valid(lc[c]) /\ lc[c].class = "workflow" /\ Team(c)
         /\ lc[c].completion = "open" /\ lc[c].probe = "none"
         /\ lc[c].exec \in Gap \cup {"running"} /\ requireOpen(lc[c]) /\ MayPrepare(lc[c])
         /\ lc[c].attempts \in Nat /\ lc[c].attempts = Cardinality(ActivePhases(c))
         /\ lc[c].attempts > 0 <=> lc[c].exec = "running"
         /\ IsFiniteSet(ActivePhases(c)) /\ Cardinality(ActivePhases(c)) \in Nat
<1>1. IsFiniteSet(ActivePhases(c)) /\ Cardinality(ActivePhases(c)) \in Nat
  BY RuntimeAssumption, FS_Subset, FS_CardinalityType DEF ActivePhases
<1>2. /\ lc[c] \in States /\ Valid(lc[c]) /\ lc[c].class = "workflow" /\ Team(c)
      /\ lc[c].completion = "open" /\ lc[c].probe = "none"
      /\ lc[c].exec \in Gap \cup {"running"} /\ lc[c].attempts \in Nat
  BY TableFacts DEF Chart, ExecAt, ProbeAt, EndAt, TeamAt, Class
<1>3. lc[c].attempts = Cardinality(ActivePhases(c))
  BY TableFacts DEF PhasesCounted
<1>4. requireOpen(lc[c]) /\ MayPrepare(lc[c])
  BY <1>2 DEF requireOpen, MayPrepare, Gap
<1>. QED  BY <1>1, <1>2, <1>3, <1>4 DEF Valid

\* A phase moves on: the set of the active ones, and the rest of the team.
LEMMA PhaseMoves ==
  ASSUME RtIInv, NEW c \in Children, NEW p \in Phases, at[c] = "phases",
         NEW l \in {"todo", "prepared", "active", "done"}, GotoPhase(c, p, l), OfPhase
  PROVE  /\ Frame(c) /\ held' = held /\ at' = [at EXCEPT ![c] = "phases"] /\ at'[c] = "phases"
         /\ ActivePhases(c)' = IF l = "active" THEN ActivePhases(c) \cup {p} ELSE ActivePhases(c) \ {p}
         /\ \A st \in States : /\ lc'[c] = st /\ st.completion = "open" /\ st.writer = lc[c].writer
                               => TokenAt(c)' /\ PromptAt(c)'
<1>1. /\ phaseAt \in [Children -> [Phases -> {"todo", "prepared", "active", "done"}]]
      /\ phaseAt' = [phaseAt EXCEPT ![c][p] = l] /\ at \in [Children -> Places]
      /\ queue \in [Children -> Nat] /\ held \subseteq Children /\ answering \subseteq Children
  BY DEF GotoPhase, RtIInv, RtTyped
<1>2. UNCHANGED <<kind, at, token, held, queue, resumed, sentinel, answering>>
  BY DEF OfPhase
<1>3. Frame(c) /\ held' = held /\ at' = [at EXCEPT ![c] = "phases"] /\ at'[c] = "phases"
  BY <1>1, <1>2 DEF Frame
<1>4. \A q \in Phases : phaseAt'[c][q] = IF q = p THEN l ELSE phaseAt[c][q]
  BY <1>1
<1>5. ActivePhases(c)' = IF l = "active" THEN ActivePhases(c) \cup {p} ELSE ActivePhases(c) \ {p}
  BY <1>4 DEF ActivePhases
<1>6. ASSUME NEW st \in States, lc'[c] = st, st.completion = "open", st.writer = lc[c].writer
      PROVE  TokenAt(c)' /\ PromptAt(c)'
  BY <1>2, <1>3, <1>6, TableFacts DEF TokenAt, PromptAt, Team
<1>. QED  BY <1>3, <1>5, <1>6

LEMMA PreparePhaseStep ==
  ASSUME RtIInv, NEW c \in Children, NEW p \in Phases, PreparePhase(c, p)
  PROVE  RtIInv'
<1>1. at[c] = "phases" /\ phaseAt[c][p] = "todo" /\ OfPhase
  BY DEF PreparePhase, InPhase
<1>2. PICK l \in {"prepared", "done"} : GotoPhase(c, p, l)
  BY DEF PreparePhase
<1>3. Quiet \/ \E sig \in Signals : Checked(c, sig)
  <2>1. CASE Apply(c, "attemptPreparing")
    <3>1. Checked(c, "attemptPreparing") /\ "attemptPreparing" \in Signals
      BY <1>1, <2>1, PhaseFacts, CheckedSignals DEF Checked, Signals, TurnSignals
    <3>. QED  BY <3>1
  <2>. QED  BY <2>1 DEF PreparePhase
<1>4. /\ Frame(c) /\ held' = held /\ at' = [at EXCEPT ![c] = "phases"]
      /\ ActivePhases(c)' = ActivePhases(c)
  BY <1>1, <1>2, PhaseMoves DEF ActivePhases
<1>5. ASSUME lc'[c] = lc[c], at'[c] = "phases"
      PROVE  PhasesCounted(c)' /\ TokenAt(c)' /\ PromptAt(c)'
  <2>1. TokenAt(c)' /\ PromptAt(c)'
    BY <1>1, <1>2, <1>5, PhaseMoves, PhaseFacts
  <2>. QED  BY <1>1, <1>4, <1>5, <2>1, PhaseFacts DEF PhasesCounted
<1>6. Chart(c, lc[c], "phases") /\ "phases" \in Places
  BY <1>1, TableFacts
<1>. QED  BY <1>1, <1>3, <1>4, <1>5, <1>6, Stays

\* A phase that cannot start.
LEMMA PhaseFails ==
  ASSUME RtIInv, NEW c \in Children, NEW p \in Phases, InPhase(c, p, "prepared"),
         Apply(c, "attemptStartFailed"), GotoPhase(c, p, "done"), OfPhase
  PROVE  RtIInv'
<1>. DEFINE st == lc[c]
            x == IF st.exec = "starting" THEN "idle" ELSE st.exec
            t == [st EXCEPT !.exec = x]
<1>1. at[c] = "phases" /\ phaseAt[c][p] = "prepared"
  BY DEF InPhase
<1>2. /\ st \in States /\ Valid(st) /\ MayPrepare(st) /\ st.probe = "none" /\ st.completion = "open"
      /\ st.exec \in Gap \cup {"running"}
  BY <1>1, PhaseFacts
<1>3. Legal(st, "attemptStartFailed") /\ After(st, "attemptStartFailed") = t
  BY <1>2, TurnEffects
<1>4. x \in Execs /\ x \in {"idle", "running"} /\ (x = "running" <=> st.exec = "running")
  BY <1>2 DEF Execs, Gap
<1>. HIDE DEF x
<1>5. /\ t \in States /\ t.exec = x /\ t.attempts = st.attempts /\ t.shutdown = st.shutdown
      /\ t.writer = st.writer /\ t.completion = "open" /\ t.class = st.class /\ t.probe = "none"
  BY <1>2, <1>4, ExecField
<1>. HIDE DEF t
<1>6. Valid(t)
  BY <1>2, <1>4, <1>5 DEF Valid
<1>7. /\ Frame(c) /\ held' = held /\ at' = [at EXCEPT ![c] = "phases"]
      /\ ActivePhases(c)' = ActivePhases(c)
  BY <1>1, PhaseMoves DEF ActivePhases
<1>8. ASSUME lc'[c] = t, at'[c] = "phases"
      PROVE  PhasesCounted(c)' /\ TokenAt(c)' /\ PromptAt(c)'
  <2>1. TokenAt(c)' /\ PromptAt(c)'
    BY <1>1, <1>5, <1>8, PhaseMoves
  <2>. QED  BY <1>1, <1>5, <1>7, <1>8, <2>1, PhaseFacts DEF PhasesCounted
<1>9. Chart(c, t, "phases") /\ (ActiveAt(t, "phases") => ActiveAt(st, at[c]))
  BY <1>1, <1>2, <1>4, <1>5, TableFacts DEF Chart, ExecAt, ProbeAt, EndAt, TeamAt, ActiveAt, isParked, Gap
<1>. QED  BY <1>3, <1>5, <1>6, <1>7, <1>8, <1>9, Becomes

\* A phase becomes active.
LEMMA PhaseStarts ==
  ASSUME RtIInv, NEW c \in Children, NEW p \in Phases, InPhase(c, p, "prepared"),
         Apply(c, "attemptStarted"), GotoPhase(c, p, "active"), OfPhase
  PROVE  RtIInv'
<1>. DEFINE st == lc[c]
            n == st.attempts + 1
            t == [st EXCEPT !.attempts = n, !.exec = "running"]
<1>1. at[c] = "phases" /\ phaseAt[c][p] = "prepared"
  BY DEF InPhase
<1>2. /\ st \in States /\ Valid(st) /\ MayPrepare(st) /\ st.probe = "none" /\ st.completion = "open"
      /\ st.class = "workflow" /\ st.exec \in Gap \cup {"running"} /\ st.attempts \in Nat
  BY <1>1, PhaseFacts
<1>3. Legal(st, "attemptStarted") /\ After(st, "attemptStarted") = t
  BY <1>2, TurnEffects
<1>4. n \in Nat /\ n > 0 /\ "running" \in Execs
  BY <1>2 DEF Execs
<1>5. /\ Frame(c) /\ held' = held /\ at' = [at EXCEPT ![c] = "phases"]
      /\ ActivePhases(c)' = ActivePhases(c) \cup {p} /\ p \notin ActivePhases(c)
  BY <1>1, PhaseMoves DEF ActivePhases
<1>6. Cardinality(ActivePhases(c)') = n
  BY <1>1, <1>5, PhaseFacts, FS_AddElement
<1>. HIDE DEF n
<1>7. /\ t \in States /\ t.exec = "running" /\ t.attempts = n /\ t.shutdown = st.shutdown
      /\ t.writer = st.writer /\ t.completion = "open" /\ t.class = "workflow" /\ t.probe = "none"
  <2>1. /\ t \in States /\ t.exec = "running" /\ t.attempts = n /\ t.shutdown = st.shutdown
        /\ t.writer = st.writer /\ t.completion = st.completion /\ t.class = st.class
        /\ t.probe = st.probe
    BY <1>2, <1>4 DEF States
  <2>. QED  BY <1>2, <2>1
<1>. HIDE DEF t
<1>8. Valid(t)
  BY <1>4, <1>7 DEF Valid
<1>9. ASSUME lc'[c] = t, at'[c] = "phases"
      PROVE  PhasesCounted(c)' /\ TokenAt(c)' /\ PromptAt(c)'
  <2>1. TokenAt(c)' /\ PromptAt(c)'
    BY <1>1, <1>7, <1>9, PhaseMoves
  <2>. QED  BY <1>6, <1>7, <1>9, <2>1 DEF PhasesCounted
<1>10. Chart(c, t, "phases") /\ (ActiveAt(t, "phases") => ActiveAt(st, at[c]))
  BY <1>1, <1>2, <1>7, TableFacts DEF Chart, ExecAt, ProbeAt, EndAt, TeamAt, ActiveAt, isParked, Gap
<1>. QED  BY <1>2, <1>3, <1>5, <1>7, <1>8, <1>9, <1>10, Becomes

\* A phase ends: the machine is idle only after the last one.
LEMMA EndPhaseStep ==
  ASSUME RtIInv, NEW c \in Children, NEW p \in Phases, EndPhase(c, p)
  PROVE  RtIInv'
<1>. DEFINE st == lc[c]
            n == st.attempts - 1
            x == IF st.attempts = 1 THEN "idle" ELSE "running"
            t == [st EXCEPT !.attempts = n, !.exec = x]
<1>1. at[c] = "phases" /\ phaseAt[c][p] = "active" /\ Apply(c, "attemptSettled") /\ OfPhase
  BY DEF EndPhase, InPhase
<1>2. PICK l \in {"done", "todo"} : GotoPhase(c, p, l)
  BY DEF EndPhase
<1>3. /\ Frame(c) /\ held' = held /\ at' = [at EXCEPT ![c] = "phases"]
      /\ ActivePhases(c)' = ActivePhases(c) \ {p} /\ p \in ActivePhases(c)
  BY <1>1, <1>2, PhaseMoves DEF ActivePhases
<1>4. /\ st \in States /\ Valid(st) /\ requireOpen(st) /\ st.probe = "none" /\ st.completion = "open"
      /\ st.class = "workflow" /\ st.attempts \in Nat /\ st.attempts = Cardinality(ActivePhases(c))
  BY <1>1, PhaseFacts
<1>5. n \in Nat /\ Cardinality(ActivePhases(c)') = n /\ st.exec = "running" /\ st.attempts > 0
  <2>1. Cardinality(ActivePhases(c)') = Cardinality(ActivePhases(c)) - 1
        /\ Cardinality(ActivePhases(c)') \in Nat
    BY <1>1, <1>3, PhaseFacts, FS_RemoveElement, FS_CardinalityType
  <2>2. n \in Nat /\ Cardinality(ActivePhases(c)') = n /\ st.attempts > 0
    BY <1>4, <2>1
  <2>. QED  BY <1>1, <2>2, PhaseFacts
<1>6. Legal(st, "attemptSettled") /\ After(st, "attemptSettled") = t
  <2>1. SettleLegal(st)
    BY <1>4, <1>5 DEF SettleLegal
  <2>. QED  BY <1>4, <1>5, <2>1, TurnEffects
<1>7. x \in Execs /\ (x = "running" <=> n > 0) /\ x \in {"idle", "running"}
  BY <1>4, <1>5 DEF Execs, Gap
<1>. HIDE DEF n, x
<1>8. /\ t \in States /\ t.exec = x /\ t.attempts = n /\ t.shutdown = st.shutdown
      /\ t.writer = st.writer /\ t.completion = "open" /\ t.class = "workflow" /\ t.probe = "none"
  <2>1. /\ t \in States /\ t.exec = x /\ t.attempts = n /\ t.shutdown = st.shutdown
        /\ t.writer = st.writer /\ t.completion = st.completion /\ t.class = st.class
        /\ t.probe = st.probe
    BY <1>4, <1>5, <1>7 DEF States
  <2>. QED  BY <1>4, <2>1
<1>. HIDE DEF t
<1>9. Valid(t)
  BY <1>7, <1>8 DEF Valid
<1>10. ASSUME lc'[c] = t, at'[c] = "phases"
      PROVE  PhasesCounted(c)' /\ TokenAt(c)' /\ PromptAt(c)'
  <2>1. TokenAt(c)' /\ PromptAt(c)'
    BY <1>1, <1>2, <1>8, <1>10, PhaseMoves
  <2>. QED  BY <1>5, <1>8, <1>10, <2>1 DEF PhasesCounted
<1>11. Chart(c, t, "phases") /\ (ActiveAt(t, "phases") => ActiveAt(st, at[c]))
  BY <1>1, <1>4, <1>5, <1>7, <1>8, TableFacts DEF Chart, ExecAt, ProbeAt, EndAt, TeamAt, ActiveAt, isParked, Gap
<1>. QED  BY <1>1, <1>3, <1>4, <1>6, <1>8, <1>9, <1>10, <1>11, Becomes

\* The runner joins its phases: none is active, and the machine is idle.
LEMMA JoinStep ==
  ASSUME RtIInv, NEW c \in Children, JoinPhases(c)
  PROVE  RtIInv'
<1>. DEFINE st == lc[c]
            t == [st EXCEPT !.attempts = 0, !.exec = "idle"]
<1>1. /\ at[c] = "phases" /\ at' = [at EXCEPT ![c] = "down"] /\ sentinel' = sentinel \cup {c}
      /\ UNCHANGED <<kind, phaseAt, token, held, queue, resumed, answering>>
      /\ \A p \in Phases : phaseAt[c][p] = "done"
  BY DEF JoinPhases, Goto
<1>2. ActivePhases(c) = {}
  BY <1>1 DEF ActivePhases
<1>3. /\ st \in States /\ Valid(st) /\ requireOpen(st) /\ st.probe = "none" /\ st.completion = "open"
      /\ st.class = "workflow" /\ st.attempts = 0 /\ st.exec \in Gap
  BY <1>1, <1>2, PhaseFacts, FS_EmptySet
<1>4. Frame(c)
  BY <1>1 DEF Frame, RtIInv, RtTyped
<1>5. \A s \in States : s.writer = st.writer /\ s.completion = "open" /\ lc'[c] = s /\ at'[c] = "down"
                        => PhasesCounted(c)' /\ TokenAt(c)' /\ PromptAt(c)'
  BY <1>1, TableFacts, PhaseFacts DEF PhasesCounted, TokenAt, PromptAt, Team
<1>6. CASE Quiet
  <2>1. Chart(c, st, "down") /\ ~ActiveAt(st, "down")
    BY <1>1, <1>3, TableFacts DEF Chart, ExecAt, ProbeAt, EndAt, TeamAt, ActiveAt
  <2>. QED  BY <1>1, <1>3, <1>4, <1>5, <1>6, <2>1, Stays
<1>7. CASE Apply(c, "workflowFinalized")
  <2>1. Legal(st, "workflowFinalized") /\ After(st, "workflowFinalized") = t
    BY <1>3, TurnEffects
  <2>2. "idle" \in Execs /\ 0 \in Nat
    BY DEF Execs, Gap
  <2>3. /\ t \in States /\ t.exec = "idle" /\ t.attempts = 0 /\ t.shutdown = st.shutdown
        /\ t.writer = st.writer /\ t.completion = "open" /\ t.class = st.class /\ t.probe = "none"
    <3>1. /\ t \in States /\ t.exec = "idle" /\ t.attempts = 0 /\ t.shutdown = st.shutdown
          /\ t.writer = st.writer /\ t.completion = st.completion /\ t.class = st.class
          /\ t.probe = st.probe
      BY <1>3, <2>2 DEF States
    <3>. QED  BY <1>3, <3>1
  <2>. HIDE DEF t
  <2>4. Valid(t)
    BY <2>3 DEF Valid
  <2>5. Chart(c, t, "down") /\ ~ActiveAt(t, "down")
    BY <1>1, <1>3, <2>3, TableFacts DEF Chart, ExecAt, ProbeAt, EndAt, TeamAt, ActiveAt, isParked, Gap
  <2>. QED  BY <1>1, <1>4, <1>5, <1>7, <2>1, <2>3, <2>4, <2>5, Becomes
<1>. QED  BY <1>6, <1>7 DEF JoinPhases

-----------------------------------------------------------------------------
(***************************************************************************)
(* Requests, timers and answers of other threads.                          *)
(***************************************************************************)
\* A prompt, a resume, or an answer: the machine and the goroutine stay.
LEMMA RequestStep ==
  ASSUME RtIInv, NEW c \in Children,
         \/ RuntimePrompt(c) \/ RuntimeInterruptAndPrompt(c) \/ WarmResume(c)
         \/ BeginAnswer(c) \/ FinishAnswer(c)
  PROVE  RtIInv'
<1>1. Quiet /\ UNCHANGED <<kind, at, phaseAt, token, held>>
  BY DEF RuntimePrompt, RuntimeInterruptAndPrompt, WarmResume, BeginAnswer, FinishAnswer, External
<1>2. at[c] \in Places /\ queue[c] \in Nat
  BY TableFacts DEF RtIInv, RtTyped
<1>3. Frame(c) /\ at' = [at EXCEPT ![c] = at[c]]
  <2>1. /\ queue' \in [Children -> Nat]
        /\ \A d \in Children \ {c} : queue'[d] = queue[d]
    BY DEF RuntimePrompt, RuntimeInterruptAndPrompt, WarmResume, BeginAnswer, FinishAnswer, RtIInv, RtTyped
  <2>2. \A d \in Children \ {c} : /\ d \in resumed' <=> d \in resumed
                                  /\ d \in sentinel' <=> d \in sentinel
                                  /\ d \in answering' <=> d \in answering
    BY DEF RuntimePrompt, RuntimeInterruptAndPrompt, WarmResume, BeginAnswer, FinishAnswer
  <2>3. answering' \subseteq Children
    BY DEF RuntimePrompt, RuntimeInterruptAndPrompt, WarmResume, BeginAnswer, FinishAnswer, RtIInv, RtTyped
  <2>. QED  BY <1>1, <2>1, <2>2, <2>3 DEF Frame, RtIInv, RtTyped
<1>4. ASSUME lc'[c] = lc[c] PROVE PromptAt(c)'
  <2>1. CASE RuntimePrompt(c) \/ RuntimeInterruptAndPrompt(c)
    <3>1. /\ queue'[c] > 0 /\ lc[c].completion = "open"
          /\ UNCHANGED <<resumed, sentinel, answering>>
      BY <1>2, <2>1 DEF RuntimePrompt, RuntimeInterruptAndPrompt, isCompleted, RtIInv, RtTyped
    <3>. QED  BY <1>1, <1>4, <3>1, TableFacts DEF PromptAt
  <2>2. CASE WarmResume(c)
    <3>1. /\ queue'[c] = 1 /\ lc[c].completion = "open" /\ ~lc[c].shutdown
          /\ UNCHANGED answering
      BY <2>2 DEF WarmResume, Admitted, isCompleted, RtIInv, RtTyped
    <3>2. at[c] \notin Shut
      BY <3>1, TableFacts DEF Chart, EndAt
    <3>. QED  BY <1>1, <1>4, <3>1, <3>2, TableFacts DEF PromptAt
  <2>3. CASE BeginAnswer(c) \/ FinishAnswer(c)
    <3>1. /\ c \in answering' => c \in answering \/ lc[c].writer = "open"
          /\ UNCHANGED <<queue, resumed, sentinel>>
      BY <2>3 DEF BeginAnswer, FinishAnswer, Admitted, isWriterClosing
    <3>. QED  BY <1>1, <1>4, <3>1, TableFacts DEF PromptAt
  <2>. QED  BY <2>1, <2>2, <2>3
<1>5. ASSUME lc'[c] = lc[c] PROVE PhasesCounted(c)' /\ TokenAt(c)'
  BY <1>1, <1>5, TableFacts DEF PhasesCounted, ActivePhases, TokenAt, Team
<1>6. Chart(c, lc[c], at[c])
  BY TableFacts
<1>. QED  BY <1>1, <1>2, <1>3, <1>4, <1>5, <1>6, Stays

\* A step after which only callers, contexts and the like differ.
LEMMA Untouched ==
  ASSUME RtIInv, WaitsOK', waits' \in [Callers -> Children \cup {Nobody}],
         UNCHANGED <<kind, lc, at, phaseAt, token, held, queue, resumed, sentinel, answering, illegal>>
  PROVE  RtIInv'
<1>1. RtTyped' /\ illegal' = {}
  BY DEF RtIInv, RtTyped
<1>2. SlotsOK'
  BY DEF RtIInv, SlotsOK, ActiveSet, Active, Counts, Registered, Reachable, Ending
<1>3. ASSUME NEW c \in Children PROVE ChildOK(c)'
  <2>1. ChildOK(c)
    BY DEF RtIInv
  <2>2. (lc[c] \in States /\ Valid(lc[c]) /\ lc[c].class = Class(c) /\ at[c] \in Places)'
    BY <2>1 DEF ChildOK, Class, Team
  <2>3. Chart(c, lc[c], at[c])'
    BY <2>1 DEF ChildOK, Chart, TeamAt, Team
  <2>4. PhasesCounted(c)' /\ TokenAt(c)' /\ PromptAt(c)'
    BY <2>1 DEF ChildOK, PhasesCounted, ActivePhases, TokenAt, PromptAt, Team
  <2>. QED  BY <2>2, <2>3, <2>4 DEF ChildOK
<1>. QED  BY <1>1, <1>2, <1>3 DEF RtIInv

LEMMA CallerStep ==
  ASSUME RtIInv, NEW w \in Callers,
         WaitTimeout(w) \/ \E c \in Children : RuntimeWaitTurn(w, c)
  PROVE  RtIInv'
<1>1. UNCHANGED <<kind, lc, at, phaseAt, token, held, queue, resumed, sentinel, answering, illegal>>
  BY DEF WaitTimeout, RuntimeWaitTurn, External
<1>2. PICK x \in Children \cup {Nobody} :
        /\ waits' = [waits EXCEPT ![w] = x]
        /\ x # Nobody => x \in Children /\ lc[x].completion # "published"
  BY DEF WaitTimeout, RuntimeWaitTurn, isCompleted
<1>3. waits' \in [Callers -> Children \cup {Nobody}] /\ WaitsOK'
  BY <1>1, <1>2 DEF WaitsOK, RtIInv, RtTyped
<1>. QED  BY <1>1, <1>3, Untouched

LEMMA TimerStep ==
  ASSUME RtIInv,
         \/ \E c \in Children : CancelContext(c) \/ Deadline(c)
         \/ BeginSupervisorShutdown
         \/ UNCHANGED rtVars
  PROVE  RtIInv'
<1>1. UNCHANGED <<kind, lc, at, phaseAt, token, held, queue, resumed, sentinel, answering, illegal, waits>>
  BY DEF CancelContext, Deadline, BeginSupervisorShutdown, External, Quiet, rtVars
<1>2. waits' \in [Callers -> Children \cup {Nobody}] /\ WaitsOK'
  BY <1>1 DEF WaitsOK, RtIInv, RtTyped
<1>. QED  BY <1>1, <1>2, Untouched

-----------------------------------------------------------------------------
(***************************************************************************)
(* All steps.                                                              *)
(***************************************************************************)
LEMMA GoroutineStep ==
  ASSUME RtIInv, NEW c \in Children, Goroutine(c)
  PROVE  RtIInv'
<1>1. CASE Register(c)
  <2>1. CASE Apply(c, "published") /\ Goto(c, "spawning") /\ UNCHANGED token
    BY <1>1, <2>1, RegisterStep DEF Register
  <2>2. CASE token' = token \ {c} /\ Goto(c, "refused") /\ Quiet
    BY <1>1, <2>2, RefuseStep DEF Register
  <2>. QED  BY <1>1, <2>1, <2>2 DEF Register
<1>2. CASE Launch(c)
  <2>1. CASE Goto(c, IF Team(c) THEN "phases" ELSE "attempt") /\ Quiet
    BY <1>2, <2>1, LaunchStep DEF Launch
  <2>2. CASE Apply(c, "spawnRolledBack") /\ Goto(c, "rolling")
    BY <1>2, <2>2, StartRolledBack DEF Launch
  <2>. QED  BY <1>2, <2>1, <2>2 DEF Launch
<1>3. CASE StartSession(c)
  <2>1. CASE Apply(c, "attemptStartFailed") /\ Goto(c, "returned")
    BY <1>3, <2>1, StartFails DEF StartSession
  <2>2. CASE Apply(c, "attemptStarted") /\ Goto(c, "turn")
    BY <1>3, <2>2, TurnStarts DEF StartSession
  <2>. QED  BY <1>3, <2>1, <2>2 DEF StartSession
<1>4. CASE Outcome(c)
  <2>1. /\ at[c] = "outcome"
        /\ UNCHANGED <<phaseAt, token, held, queue, resumed, answering>>
    BY <1>4 DEF Outcome
  <2>2. CASE \E a \in {"park", "down"} :
               Apply(c, "outcomeEnds") /\ sentinel' = sentinel \cup {c} /\ Goto(c, a)
    BY <2>1, <2>2, OutcomeEnds
  <2>3. CASE /\ UNCHANGED sentinel
             /\ \/ Apply(c, "probeTerminal") /\ Goto(c, "probe")
                \/ Apply(c, "probeRetry") /\ Goto(c, "retryProbe")
    BY <2>1, <2>3, ProbeBegins
  <2>. QED  BY <1>4, <2>2, <2>3 DEF Outcome
<1>5. CASE TakePrompt(c)
  BY <1>5, PromptTaken DEF TakePrompt, CanDequeue
<1>6. CASE AcquireSlot(c)
  <2>1. CASE SlotFree /\ Apply(c, "localSlotAcquired") /\ Goto(c, "token")
    BY <1>6, <2>1, ResumeStep DEF AcquireSlot
  <2>2. CASE Quiet /\ \E a \in {"down", "idleEnd"} : Goto(c, a)
    <3>1. at'[c] \in {"down", "idleEnd"}
      BY <2>2 DEF Goto, RtIInv, RtTyped
    <3>. QED  BY <1>6, <2>2, <3>1, EndSteps
  <2>. QED  BY <1>6, <2>1, <2>2 DEF AcquireSlot, ResumeNeeds
<1>7. CASE BeginShutdown(c)
  <2>1. /\ at[c] = "down" /\ Apply(c, "shutdownRequested") /\ at' = [at EXCEPT ![c] = "warm"]
        /\ UNCHANGED <<kind, phaseAt, token, held, queue, resumed, sentinel, answering>>
    BY <1>7 DEF BeginShutdown, TeardownStep, Goto
  <2>. QED  BY <2>1, ShutdownStep
<1>. QED  BY <1>1, <1>2, <1>3, <1>4, <1>5, <1>6, <1>7, RollBackStep, TokenStep, PrepareStep,
            ReturnStep, WaitSteps, ProbeEnds, ParkStep, UnparkStep, IdleEndStep, JoinStep,
            EndSteps, WriterStep, EndRunStep, PublishStep DEF Goroutine

LEMMA StepKeeps ==
  ASSUME RtIInv, [RtNext]_rtVars
  PROVE  RtIInv'
<1>1. ASSUME NEW c \in Children, ParkTimeout(c) PROVE RtIInv'
  <2>1. CASE TimeoutTakes(c) /\ Dequeue(c) /\ Apply(c, "promptDequeued") /\ Goto(c, "slot")
    BY <1>1, <2>1, PromptTaken DEF ParkTimeout, TimeoutTakes
  <2>2. CASE ~TimeoutTakes(c) /\ Apply(c, "parkTimedOut") /\ Goto(c, "unpark") /\ UNCHANGED queue
    BY <1>1, <2>2, ParkTimedOut DEF ParkTimeout
  <2>. QED  BY <1>1, <2>1, <2>2 DEF ParkTimeout
<1>2. ASSUME NEW c \in Children, NEW p \in Phases, StartPhase(c, p) PROVE RtIInv'
  BY <1>2, PhaseFails, PhaseStarts DEF StartPhase
<1>3. ASSUME NEW c \in Children, RequestShutdown(c) PROVE RtIInv'
  <2>1. /\ at[c] \notin Unborn /\ Apply(c, "shutdownRequested") /\ at' = [at EXCEPT ![c] = at[c]]
        /\ UNCHANGED <<kind, phaseAt, token, held, queue, resumed, sentinel, answering>>
    BY <1>3 DEF RequestShutdown, Reachable, External, RtIInv, RtTyped
  <2>2. at[c] \in Places
    BY TableFacts
  <2>. QED  BY <2>1, <2>2, ShutdownStep
<1>4. ASSUME NEW c \in Children,
             \/ Reserve(c) \/ Goroutine(c) \/ Settle(c) \/ ParkTimeout(c)
             \/ \E p \in Phases : PreparePhase(c, p) \/ StartPhase(c, p) \/ EndPhase(c, p)
      PROVE  RtIInv'
  BY <1>1, <1>2, <1>4, ReserveStep, GoroutineStep, SettleStep, PreparePhaseStep, EndPhaseStep
<1>5. ASSUME NEW c \in Children,
             \/ RuntimePrompt(c) \/ RuntimeInterruptAndPrompt(c) \/ WarmResume(c)
             \/ BeginAnswer(c) \/ FinishAnswer(c)
             \/ RequestShutdown(c) \/ CancelContext(c) \/ Deadline(c)
             \/ \E w \in Callers : RuntimeWaitTurn(w, c)
      PROVE  RtIInv'
  BY <1>3, <1>5, RequestStep, TimerStep, CallerStep
<1>. QED  BY <1>4, <1>5, CallerStep, TimerStep DEF RtNext

LEMMA InitKeeps ==
  ASSUME RtInit
  PROVE  RtIInv
<1>1. RtTyped /\ illegal = {} /\ WaitsOK /\ held = {}
  BY DEF RtInit, RtTyped, WaitsOK, NewState, Class, States, Execs, Gap
<1>2. SlotsOK
  <2>1. ActiveSet = {}
    BY DEF ActiveSet, Active, Counts, Registered, Reachable, RtInit
  <2>. QED  BY <1>1, <2>1, FS_EmptySet, RuntimeAssumption DEF SlotsOK
<1>3. ASSUME NEW c \in Children PROVE ChildOK(c)
  <2>1. /\ lc[c] = NewState(Class(c)) /\ at[c] = "unspawned" /\ ActivePhases(c) = {}
        /\ c \notin token /\ c \notin held /\ c \notin resumed /\ c \notin answering
    BY DEF RtInit, ActivePhases
  <2>2. Class(c) \in {"direct", "workflow"}
    BY DEF Class
  <2>3. lc[c] \in States /\ Valid(lc[c]) /\ lc[c].class = Class(c)
    BY <2>1, <2>2 DEF NewState, States, Valid, Execs, Gap
  <2>4. Chart(c, lc[c], at[c])
    BY <2>1 DEF NewState, Chart, ExecAt, ProbeAt, EndAt, TeamAt, isParked
  <2>5. PhasesCounted(c) /\ TokenAt(c) /\ PromptAt(c)
    BY <2>1 DEF NewState, PhasesCounted, TokenAt, PromptAt
  <2>. QED  BY <2>1, <2>3, <2>4, <2>5 DEF ChildOK
<1>. QED  BY <1>1, <1>2, <1>3 DEF RtIInv

\* Where the goroutine of a child is decides the state of its machine, what it
\* holds and what it owes, in every reachable state: the table of this module is
\* an inductive invariant of runChild, runTeamChild and everybody who calls into
\* a child (runtime_lifecycle.go, supervisor.go).
THEOREM RuntimesInductive == RtSpec => []RtIInv
<1>1. RtInit => RtIInv
  BY InitKeeps
<1>2. RtIInv /\ [RtNext]_rtVars => RtIInv'
  BY StepKeeps
<1>. QED  BY <1>1, <1>2, PTL DEF RtSpec

\* The machine of a child never refuses a signal, whoever sends it and when: the
\* fail-safes of runtime_lifecycle_apply are never taken.
THEOREM SignalsAreLegal == RtSpec => []NoIllegalSignal
<1>1. RtIInv => NoIllegalSignal
  BY DEF RtIInv, NoIllegalSignal
<1>. QED  BY <1>1, RuntimesInductive, PTL

\* Every turn is admitted: the slots are never exceeded although parked children
\* give theirs up and take one again, a turn has its tree token, and a parked or
\* ended child holds none (reserveAdmission, acquireLocalRuntimeSlot,
\* acquireChildTreeToken).
THEOREM EveryTurnAdmitted == RtSpec => []TurnsAdmitted
<1>1. RtIInv => TurnsAdmitted
  <2>. SUFFICES ASSUME RtIInv PROVE TurnsAdmitted
    OBVIOUS
  <2>1. Cardinality({c \in Children : Counts(c) /\ ~Ending(c)}) + Cardinality(held) <= MaxRuntimes
    BY DEF RtIInv, SlotsOK, ActiveSet, Active
  <2>2. ASSUME NEW c \in Children, lc[c].attempts > 0 PROVE c \in token
    <3>1. lc[c].exec = "running" /\ lc[c].completion # "published"
      BY <2>2, TableFacts DEF Valid
    <3>2. at[c] \in {"turn", "phases"}
      BY <3>1, TableFacts DEF Chart, ExecAt, EndAt, Gap
    <3>. QED  BY <3>2, TableFacts DEF TokenAt
  <2>3. ASSUME NEW c \in Children, isParked(lc[c]) \/ at[c] = "done" PROVE c \notin token
    <3>1. CASE at[c] = "done"
      BY <3>1, TableFacts DEF TokenAt
    <3>2. CASE isParked(lc[c]) /\ at[c] # "done"
      <4>1. lc[c].exec \in {"parked", "parkedEnding"} /\ ~Team(c) /\ lc[c].completion # "published"
        BY <3>2, TableFacts DEF isParked, Chart, TeamAt, Valid
      <4>2. at[c] \in Asleep \cup {"idleEnd"} \cup Teardown
        BY <4>1, TableFacts DEF Chart, ExecAt, EndAt, Gap
      <4>. QED  BY <4>1, <4>2, TableFacts DEF TokenAt
    <3>. QED  BY <2>3, <3>1, <3>2
  <2>. QED  BY <2>1, <2>2, <2>3 DEF TurnsAdmitted
<1>. QED  BY <1>1, RuntimesInductive, PTL

\* A prompt is never left on a child that its park timeout has ended, and a
\* resume that was admitted has its sentinel when the child is done, whichever of
\* shutdown, deadline or lost slot overtook it (waitForNextPrompt,
\* finishUnstartedWarmResume).
THEOREM AdmittedHonored == RtSpec => []AdmittedIsHonored
<1>1. RtIInv => AdmittedIsHonored
  BY TableFacts DEF PromptAt, AdmittedIsHonored
<1>. QED  BY <1>1, RuntimesInductive, PTL

\* The writer of a child closes after the direct answers it admitted, and nobody
\* waits for a turn of a child that has ended (closeChildEventWriter,
\* settleTurnLocked).
THEOREM NothingLate == RtSpec => []NothingAfterClose
<1>1. RtIInv => NothingAfterClose
  <2>. SUFFICES ASSUME RtIInv PROVE NothingAfterClose
    OBVIOUS
  <2>1. ASSUME NEW c \in answering PROVE lc[c].writer # "closed"
    BY TableFacts DEF PromptAt, RtIInv, RtTyped
  <2>. QED  BY <2>1 DEF RtIInv, WaitsOK, NothingAfterClose
<1>. QED  BY <1>1, RuntimesInductive, PTL
=============================================================================
