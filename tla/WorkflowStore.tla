---------------------------- MODULE WorkflowStore ----------------------------
(***************************************************************************)
(* The durable store of one workflow instance (internal/workflow: store.go,*)
(* replay.go, recovery.go, reducer.go and the evidence staging of          *)
(* completion.go): an append-only events.ndjson, a snapshot workflow.json  *)
(* that is replaced atomically, and a flock that serialises the callers.   *)
(*                                                                         *)
(* What a command does to the instance is the business of WorkflowKernel.  *)
(* Here a command is a batch of Size[c] events, and a snapshot is the      *)
(* sequence of events applied to it (AppliedEventIDs).  Faults happen      *)
(* between any two file operations, or in the middle of a write.           *)
(***************************************************************************)
EXTENDS Naturals, Sequences, FiniteSets

CONSTANTS
  Procs,       \* goroutines or processes that use the store
  NoProc,      \* nobody holds the lock
  Commands,    \* commands, each with its own idempotency key
  Sweeps,      \* those of them that are lease sweeps: no key, no revision
  Repeatable,  \* those whose key names what they act on (complete, terminate,
               \* unblock, gate, cancel): a repetition is told success.  The
               \* others (claim, start, begin-dispatch) have a new key in
               \* every call: a repetition finds the work taken.
  Size,        \* command -> number of events in its batch
  Dependent,   \* commands whose later events the reducer rejects without
               \* the earlier ones (leased, started)
  Staging,     \* commands that stage evidence (complete)
  FaultKinds,  \* subset of {"crash", "power", "write", "sync", "snapshot"}
  MaxFaults    \* bound: faults in one behaviour

ASSUME StoreAssumption ==
  /\ NoProc \notin Procs
  /\ Sweeps \subseteq Commands
  /\ Repeatable \subseteq Commands \ Sweeps
  /\ Size \in [Commands -> Nat \ {0}]
  /\ Staging \subseteq Commands
  /\ MaxFaults \in Nat

VARIABLES
  log,      \* events.ndjson, as the chunks that were written to it
  synced,   \* chunks of the log that an fsync made durable
  snap,     \* the history in workflow.json
  durable,  \* the history in workflow.json after a power loss
  staged,   \* evidence directories on disk, by command and caller
  holder,   \* holder of the instance's flock
  pre,      \* the history the lock holder loaded
  job,      \* what each process is doing
  acked,      \* commands reported as committed by the call that committed them
  confirmed,  \* commands of which a repetition was told that they are done
  faults      \* faults so far

stVars ==
  <<log, synced, snap, durable, staged, holder, pre, job, acked, confirmed, faults>>

-----------------------------------------------------------------------------
(***************************************************************************)
(* The log.  A chunk is what one write left of an event: all of its JSON   *)
(* or a part of it, with or without the newline.  A line that is not       *)
(* exactly one whole event does not parse.                                 *)
(***************************************************************************)
Chunk(e, whole, nl) == [ev |-> e, whole |-> whole, nl |-> nl]

StartsLine(l, i) == i = 1 \/ l[i - 1].nl
Parses(l, i) ==
  StartsLine(l, i) /\ l[i].whole /\ (l[i].nl \/ i = Len(l))
LastLine(l) == {i \in DOMAIN l : \A j \in i..(Len(l) - 1) : ~l[j].nl}

\* Replay truncates a malformed final line away.
Trimmed(l) ==
  IF \E i \in LastLine(l) : StartsLine(l, i) /\ ~Parses(l, i)
    THEN SubSeq(l, 1, Len(l) - Cardinality(LastLine(l)))
    ELSE l

Members(h) == {<<h[n].cmd, h[n].idx>> : n \in DOMAIN h}
CommandsOf(h) == {h[n].cmd : n \in DOMAIN h}
Events(h) == {h[n] : n \in DOMAIN h}

\* The events of the lines in a set, in the order of the log.
InOrder(l, lines) ==
  LET nth(k) == CHOOSE i \in lines : Cardinality({j \in lines : j <= i}) = k
  IN [k \in 1..Cardinality(lines) |-> l[nth(k)].ev]

\* Mutant: the history is rebuilt from the log alone.
Replay_LogOnly(h, l) == InOrder(l, {i \in DOMAIN l : Parses(l, i)})

\* Replay: Reduce skips the events the snapshot has and appends the others.
Replay(h, l) ==
  h \o InOrder(l, {i \in DOMAIN l : Parses(l, i) /\ l[i].ev \notin Events(h)})

\* The reducer rejects an event whose predecessor in the batch is missing.
Rejected(h) ==
  \E n \in DOMAIN h : /\ h[n].cmd \in Dependent
                      /\ h[n].idx > 1
                      /\ <<h[n].cmd, h[n].idx - 1>> \notin Members(h)

\* A malformed line before the last one, or an event the reducer rejects,
\* fails every load of the instance.
Unreadable ==
  \/ \E i \in DOMAIN log \ LastLine(log) : ~Parses(log, i)
  \/ Rejected(Replay(snap, log))

Loaded == Replay(snap, log)
LeastOf(m, n) == IF m < n THEN m ELSE n
Trim ==
  /\ log' = Trimmed(log)
  /\ synced' = LeastOf(synced, Len(Trimmed(log)))

-----------------------------------------------------------------------------
Idle == [step |-> "idle"]

StInit ==
  /\ log = << >> /\ synced = 0
  /\ snap = << >> /\ durable = << >>
  /\ staged = {}
  /\ holder = NoProc /\ pre = << >>
  /\ job = [p \in Procs |-> Idle]
  /\ acked = {} /\ confirmed = {}
  /\ faults = 0

Fault(kind) ==
  /\ kind \in FaultKinds
  /\ faults < MaxFaults
  /\ faults' = faults + 1

\* A call that returns an error removes the evidence it staged.
Fail(p) ==
  /\ job' = [job EXCEPT ![p] = Idle]
  /\ staged' = staged \ {<<job[p].cmd, p>>}
  /\ holder' = IF holder = p THEN NoProc ELSE holder
  /\ pre' = IF holder = p THEN << >> ELSE pre
  /\ UNCHANGED acked

-----------------------------------------------------------------------------
(***************************************************************************)
(* A command: read the revision, stage the evidence, then apply the        *)
(* command under the lock at that revision.                                *)
(***************************************************************************)
\* loadCurrent of a command that is not done yet, and the staging.
Read(p, c) ==
  /\ job[p] = Idle
  /\ c \notin Sweeps
  /\ holder = NoProc
  /\ ~Unreadable
  /\ c \notin CommandsOf(Loaded)
  /\ Trim
  /\ job' = [job EXCEPT ![p] = [step |-> "ready", cmd |-> c,
                                base |-> Len(Loaded)]]
  /\ staged' = IF c \in Staging THEN staged \cup {<<c, p>>} ELSE staged
  /\ UNCHANGED <<snap, durable, holder, pre, acked, confirmed, faults>>

\* loadCurrent of a command whose key the replayed history has: the caller is told
\* that it is done, and nothing is synced or written back.
Repeat(p, c) ==
  /\ job[p] = Idle
  /\ c \in Repeatable
  /\ holder = NoProc
  /\ ~Unreadable
  /\ c \in CommandsOf(Loaded)
  /\ Trim
  /\ confirmed' = confirmed \cup {c}
  /\ UNCHANGED <<snap, durable, staged, holder, pre, job, acked, faults>>

\* Mutant: the expected revision is not compared.
ExpectedRevision_Ignored(b, h) == TRUE

ExpectedRevision(b, h) == b = Len(h)

\* Mutant: the idempotency key is not looked up.
FreshKey_Ignored(c, h) == TRUE

FreshKey(c, h) == c \notin CommandsOf(h)

\* The replayed snapshot is only written back when a line was replayed.
Replayed == Trimmed(log) # << >>

\* applyLocked up to Apply: the replayed snapshot is written back first.  A key
\* that is used ends the call without an append: with success when the command
\* may be repeated, otherwise the reducer refuses the work that is taken.
Open(p) ==
  /\ job[p].step = "ready"
  /\ holder = NoProc
  /\ ~Unreadable
  /\ Trim
  /\ snap' = Loaded /\ durable' = IF Replayed THEN Loaded ELSE durable
  /\ LET c == job[p].cmd
         b == job[p].base
     IN \/ /\ ExpectedRevision(b, Loaded) /\ FreshKey(c, Loaded)
           /\ job' = [job EXCEPT ![p] = [step |-> "append", cmd |-> c,
                        base |-> b, idx |-> 1, err |-> FALSE]]
           /\ holder' = p /\ pre' = Loaded
           /\ UNCHANGED <<staged, acked, confirmed>>
        \/ /\ ~ExpectedRevision(b, Loaded)
           /\ job' = [job EXCEPT ![p] = [step |-> "conflict", cmd |-> c]]
           /\ UNCHANGED <<staged, holder, pre, acked, confirmed>>
        \/ /\ ExpectedRevision(b, Loaded) /\ ~FreshKey(c, Loaded)
           /\ Fail(p)
           /\ confirmed' = confirmed \cup ({c} \cap Repeatable)
  /\ UNCHANGED faults

\* The write-back of the replayed snapshot fails, before or after the rename.
OpenFails(p) ==
  /\ job[p].step = "ready"
  /\ holder = NoProc
  /\ ~Unreadable
  /\ Replayed
  /\ Fault("snapshot")
  /\ Trim
  /\ snap' \in {snap, Loaded}
  /\ Fail(p)
  /\ UNCHANGED <<durable, confirmed>>

\* The bounded retry of a repeatable command: read the new revision, try again.
Refresh(p) ==
  /\ job[p].step = "conflict"
  /\ job[p].cmd \in Repeatable
  /\ holder = NoProc
  /\ ~Unreadable
  /\ Trim
  /\ job' = [job EXCEPT ![p] = [step |-> "ready", cmd |-> job[p].cmd,
                                base |-> Len(Loaded)]]
  /\ UNCHANGED <<snap, durable, staged, holder, pre, acked, confirmed, faults>>

\* The retries are used up (a command with a new key in every call has none), or
\* the instance cannot be loaded any more.
GiveUp(p) ==
  /\ \/ job[p].step = "conflict"
     \/ job[p].step = "ready" /\ holder = NoProc /\ Unreadable
  /\ Fail(p)
  /\ UNCHANGED <<log, synced, snap, durable, confirmed, faults>>

\* recoverInstance and sweepStaleLeases: load and append under one lock,
\* without writing the replayed snapshot back in between.
Sweep(p, c) ==
  /\ job[p] = Idle
  /\ c \in Sweeps
  /\ holder = NoProc
  /\ ~Unreadable
  /\ c \notin CommandsOf(Loaded)
  /\ Trim
  /\ job' = [job EXCEPT ![p] = [step |-> "append", cmd |-> c,
               base |-> Len(Loaded), idx |-> 1, err |-> FALSE]]
  /\ holder' = p /\ pre' = Loaded
  /\ UNCHANGED <<snap, durable, staged, acked, confirmed, faults>>

\* The same with no stale lease: only the replayed snapshot is written.
Recover ==
  /\ holder = NoProc
  /\ ~Unreadable
  /\ Replayed
  /\ Trim
  /\ snap' = Loaded /\ durable' = Loaded
  /\ UNCHANGED <<staged, holder, pre, job, acked, confirmed, faults>>

-----------------------------------------------------------------------------
(***************************************************************************)
(* appendEvents and writeSnapshot of the lock holder.                      *)
(***************************************************************************)
Event(p, i) == [cmd |-> job[p].cmd, idx |-> i, by |-> p, base |-> job[p].base]
Batch(p) == [i \in 1..Size[job[p].cmd] |-> Event(p, i)]

\* What a write that does not succeed may leave of event e.
Partial(e) == {<< >>, <<Chunk(e, FALSE, FALSE)>>, <<Chunk(e, TRUE, FALSE)>>}

\* One write of the loop; an error does not end the loop.
WriteEvent(p) ==
  LET i == job[p].idx
  IN /\ job[p].step = "append" /\ i <= Size[job[p].cmd]
     /\ \/ /\ log' = Append(log, Chunk(Event(p, i), TRUE, TRUE))
           /\ job' = [job EXCEPT ![p].idx = i + 1]
           /\ UNCHANGED faults
        \/ /\ Fault("write")
           /\ \E rest \in Partial(Event(p, i)) : log' = log \o rest
           /\ job' = [job EXCEPT ![p].idx = i + 1, ![p].err = TRUE]
     /\ UNCHANGED <<synced, snap, durable, staged, holder, pre, acked, confirmed>>

\* f.Sync, also after a failed write.
Sync(p) ==
  /\ job[p].step = "append" /\ job[p].idx > Size[job[p].cmd]
  /\ \/ /\ synced' = Len(log)
        /\ \/ job[p].err /\ Fail(p)
           \/ /\ ~job[p].err
              /\ job' = [job EXCEPT ![p].step = "replace"]
              /\ UNCHANGED <<staged, holder, pre, acked>>
        /\ UNCHANGED faults
     \/ /\ Fault("sync")
        /\ Fail(p)
        /\ UNCHANGED synced
  /\ UNCHANGED <<log, snap, durable, confirmed>>

\* WriteFileAtomic: a synced temporary file is renamed over the snapshot.
Replace(p) ==
  /\ job[p].step = "replace"
  /\ \/ /\ snap' = pre \o Batch(p)
        /\ job' = [job EXCEPT ![p].step = "commit"]
        /\ UNCHANGED <<staged, holder, pre, acked, faults>>
     \/ /\ Fault("snapshot")
        /\ Fail(p)
        /\ UNCHANGED snap
  /\ UNCHANGED <<log, synced, durable, confirmed>>

\* Mutant: the directory is not synced after the rename.
FsyncDir_Skipped == UNCHANGED durable

FsyncDir == durable' = snap

\* FsyncDir, after which the command is committed and its caller told so.
Commit(p) ==
  /\ job[p].step = "commit"
  /\ \/ /\ FsyncDir
        /\ acked' = acked \cup {job[p].cmd}
        /\ job' = [job EXCEPT ![p] = Idle]
        /\ holder' = NoProc /\ pre' = << >>
        /\ UNCHANGED <<staged, faults>>
     \/ /\ Fault("snapshot")
        /\ Fail(p)
        /\ UNCHANGED durable
  /\ UNCHANGED <<log, synced, snap, confirmed>>

-----------------------------------------------------------------------------
(***************************************************************************)
(* Crashes.                                                                *)
(***************************************************************************)
Stop ==
  /\ job' = [p \in Procs |-> Idle]
  /\ holder' = NoProc /\ pre' = << >>
  /\ UNCHANGED <<staged, acked, confirmed>>

\* The process dies, maybe in the middle of a write.
ProcessesDie ==
  /\ Fault("crash")
  /\ \/ UNCHANGED log
     \/ \E p \in Procs :
          /\ job[p].step = "append" /\ job[p].idx <= Size[job[p].cmd]
          /\ \E rest \in Partial(Event(p, job[p].idx)) : log' = log \o rest
  /\ Stop
  /\ UNCHANGED <<synced, snap, durable>>

\* The machine dies: what was not synced may be gone.
PowerLoss ==
  /\ Fault("power")
  /\ \E n \in synced..Len(log) :
       \/ log' = SubSeq(log, 1, n)
       \/ /\ n < Len(log)
          /\ log' = Append(SubSeq(log, 1, n), Chunk(log[n + 1].ev, FALSE, FALSE))
  /\ synced' = Len(log')
  /\ snap' \in {snap, durable}
  /\ durable' = snap'
  /\ Stop

StNext ==
  \/ \E p \in Procs :
       \/ \E c \in Commands : Read(p, c) \/ Repeat(p, c) \/ Sweep(p, c)
       \/ Open(p) \/ OpenFails(p) \/ Refresh(p) \/ GiveUp(p)
       \/ WriteEvent(p) \/ Sync(p) \/ Replace(p) \/ Commit(p)
  \/ Recover
  \/ ProcessesDie
  \/ PowerLoss

StSpec == StInit /\ [][StNext]_stVars

-----------------------------------------------------------------------------
(***************************************************************************)
(* Properties.                                                             *)
(***************************************************************************)
\* A command whose call returned its success is in the authoritative snapshot, all
\* of its events, after any crash, power loss or failed later command.  (Of what a
\* repetition is told, ConfirmedIsWhole speaks.)
AckedSurvives ==
  \A c \in acked : \A i \in 1..Size[c] : <<c, i>> \in Members(snap)

\* A command whose call returned its success landed exactly on the revision its
\* caller read: its events stand together, and nothing is between what it was
\* computed from and its first event, also after recoveries from the log.
NoStaleCommit ==
  \A n \in DOMAIN snap : snap[n].cmd \in acked => n = snap[n].base + snap[n].idx

\* reducer.go: a retried batch never double-applies.  The events of one command are
\* those of one call: whatever a failed call left in the log, no other call adds its
\* own half to it, and none computes the command a second time.
OneBatch ==
  \A m, n \in DOMAIN snap :
    snap[m].cmd = snap[n].cmd =>
      snap[m].by = snap[n].by /\ snap[m].base = snap[n].base

\* The snapshot implements the append-only history: a command that is retried after
\* an ambiguous error, or issued by two callers at once, takes effect at most once;
\* only events whose own call reported no success are ever lost; and while nothing
\* has failed a repetition is told success only of a command that was committed.
History == INSTANCE EventHistory WITH
  hist <- snap, repeated <- confirmed, failed <- faults > 0
ImplementsHistory == History!Spec

\* completion.go: a repeated completion is told already_completed because "a
\* successful completion has already moved the activation".  A command of which a
\* repetition was told that it is done is in the history with all its events.
ConfirmedIsWhole ==
  holder = NoProc =>
    \A c \in confirmed : \A i \in 1..Size[c] : <<c, i>> \in Members(Loaded)
=============================================================================
