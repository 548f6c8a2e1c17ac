------------------------- MODULE WorkflowStoreProofs -------------------------
(***************************************************************************)
(* A command whose call returned its success is never lost, for any number *)
(* of processes, commands and faults (WorkflowStore).  The snapshot, the   *)
(* copy that a power loss leaves of it and the history that the lock       *)
(* holder loaded all contain every reported command; a command is reported *)
(* by the holder of the lock, after its events are in the snapshot and     *)
(* durable.                                                                *)
(*                                                                         *)
(* From that, from what the log may hold beside the snapshot, and from     *)
(* what a load can find while nothing has failed follows that the store    *)
(* implements EventHistory, with what it tells the repetition of a command.*)
(***************************************************************************)
EXTENDS WorkflowStore, FiniteSetTheorems, SequenceTheorems, TLAPS

-----------------------------------------------------------------------------
StoredEvents == [cmd : Commands, idx : Nat, by : Procs, base : Nat]
Chunks == [ev : StoredEvents, whole : BOOLEAN, nl : BOOLEAN]
IsList(h) == h \in Seq(Events(h))

\* All events of command c are in history h.
Has(h, c) == \A i \in 1..Size[c] : <<c, i>> \in Members(h)

Working(p) == job[p].step \in {"append", "replace", "commit"}

JobShapes ==
  /\ job \in [Procs -> [step : {"idle"}] \cup [step : {"conflict"}, cmd : Commands]
                       \cup [step : {"ready"}, cmd : Commands, base : Nat]
                       \cup [step : {"append", "replace", "commit"}, cmd : Commands,
                             base : Nat, idx : Nat, err : BOOLEAN]]
  /\ holder \in Procs \cup {NoProc}
  /\ acked \subseteq Commands

Lists ==
  log \in Seq(Chunks) /\ synced \in Nat /\ IsList(snap) /\ IsList(durable) /\ IsList(pre)

\* The lock is held while a batch is written.
HolderWorks == \A p \in Procs : Working(p) => holder = p

\* A command is reported only when its events are in the snapshot.
CommitIsWritten == \A p \in Procs : job[p].step = "commit" => Has(snap, job[p].cmd)

\* Every copy of the history that may become the snapshot has what was reported.
CopiesHaveAcked ==
  \A c \in acked : Has(snap, c) /\ Has(durable, c) /\ (holder # NoProc => Has(pre, c))

StIInv == JobShapes /\ Lists /\ HolderWorks /\ CommitIsWritten /\ CopiesHaveAcked

-----------------------------------------------------------------------------
(***************************************************************************)
(* Histories.                                                              *)
(***************************************************************************)
\* The events of some lines of the log are a list.
LEMMA InOrderIsList ==
  ASSUME NEW l \in Seq(Chunks), NEW lines \in SUBSET (DOMAIN l)
  PROVE  IsList(InOrder(l, lines))
<1>. DEFINE nth(k) == CHOOSE i \in lines : Cardinality({j \in lines : j <= i}) = k
            h == InOrder(l, lines)
            n == Cardinality(lines)
<1>1. n \in Nat
  <2>1. IsFiniteSet(1..Len(l)) /\ DOMAIN l = 1..Len(l)
    BY FS_Interval
  <2>. QED  BY <2>1, FS_Subset, FS_CardinalityType
<1>2. h = [k \in 1..n |-> l[nth(k)].ev]
  BY DEF InOrder
<1>. HIDE DEF n, nth, h
<1>3. DOMAIN h = 1..n /\ \A k \in 1..n : h[k] \in Events(h)
  BY <1>2 DEF Events
<1>4. h \in [1..n -> Events(h)]
  BY <1>2, <1>3
<1>5. h \in Seq(Events(h))
  BY <1>1, <1>4
<1>. QED  BY <1>5 DEF IsList, h

\* Appending keeps what a history has.
LEMMA Extends ==
  ASSUME NEW h, NEW g, IsList(h), IsList(g)
  PROVE  IsList(h \o g) /\ \A c : Has(h, c) => Has(h \o g, c)
<1>. DEFINE S == Events(h) \cup Events(g)
            k == h \o g
<1>1. h \in Seq(S) /\ g \in Seq(S)
  BY DEF IsList
<1>2. /\ k \in Seq(S) /\ Len(k) = Len(h) + Len(g) /\ DOMAIN h = 1..Len(h) /\ Len(h) \in Nat
      /\ Len(g) \in Nat /\ DOMAIN k = 1..Len(k)
      /\ \A i \in DOMAIN h : i \in DOMAIN k /\ k[i] = h[i]
  BY <1>1
<1>. HIDE DEF S, k
<1>3. k \in [1..Len(k) -> Events(k)] /\ Len(k) \in Nat
  BY <1>2, LenProperties DEF Events
<1>4. IsList(k)
  BY <1>3 DEF IsList
<1>5. Members(h) \subseteq Members(k)
  BY <1>2 DEF Members
<1>. QED  BY <1>4, <1>5 DEF Has, k

\* What is loaded has what the snapshot has.
LEMMA ReplayExtends ==
  ASSUME Lists
  PROVE  IsList(Loaded) /\ \A c : Has(snap, c) => Has(Loaded, c)
<1>. DEFINE lines == {i \in DOMAIN log : Parses(log, i) /\ log[i].ev \notin Events(snap)}
<1>1. IsList(InOrder(log, lines))
  BY InOrderIsList DEF Lists
<1>2. Loaded = snap \o InOrder(log, lines)
  BY DEF Loaded, Replay
<1>. HIDE DEF lines
<1>. QED  BY <1>1, <1>2, Extends DEF Lists

\* The log stays a log when it is trimmed.
LEMMA TrimIsLog ==
  ASSUME Lists, Trim
  PROVE  log' \in Seq(Chunks)
<1>. DEFINE k == Cardinality(LastLine(log))
<1>1. log \in Seq(Chunks) /\ DOMAIN log = 1..Len(log) /\ Len(log) \in Nat
  BY DEF Lists
<1>2. k \in Nat
  <2>1. IsFiniteSet(1..Len(log))
    BY <1>1, FS_Interval
  <2>2. LastLine(log) \subseteq 1..Len(log)
    BY <1>1 DEF LastLine
  <2>. QED  BY <2>1, <2>2, FS_Subset, FS_CardinalityType
<1>3. log' = log \/ log' = SubSeq(log, 1, Len(log) - k)
  BY DEF Trim, Trimmed
<1>. HIDE DEF k
<1>4. SubSeq(log, 1, Len(log) - k) \in Seq(Chunks)
  BY <1>1, <1>2, SubSeqProperties
<1>. QED  BY <1>1, <1>3, <1>4

\* The batch of a command has all its events.
LEMMA BatchHas ==
  ASSUME NEW h, IsList(h), NEW p \in Procs, job[p].cmd \in Commands
  PROVE  IsList(h \o Batch(p)) /\ Has(h \o Batch(p), job[p].cmd)
         /\ \A c : Has(h, c) => Has(h \o Batch(p), c)
<1>. DEFINE c == job[p].cmd
            b == Batch(p)
            S == Events(h) \cup Events(b)
<1>0. Size[c] \in Nat
  BY StoreAssumption
<1>1. b = [i \in 1..Size[c] |-> Event(p, i)] /\ \A i \in 1..Size[c] : b[i].cmd = c /\ b[i].idx = i
  BY DEF Batch, Event
<1>. HIDE DEF b, c
<1>2. b \in [1..Size[c] -> Events(b)]
  BY <1>1 DEF Events
<1>3. IsList(b) /\ Len(b) = Size[c]
  BY <1>0, <1>2 DEF IsList
<1>4. h \in Seq(S) /\ b \in Seq(S) /\ Len(h) \in Nat
  BY <1>3 DEF IsList
<1>5. ASSUME NEW i \in 1..Size[c] PROVE <<c, i>> \in Members(h \o b)
  <2>. DEFINE n == Len(h) + i
  <2>0. i \in Nat /\ 1 <= i /\ i <= Len(b)
    BY <1>0, <1>3
  <2>1. n \in 1..(Len(h) + Len(b)) /\ n > Len(h) /\ n - Len(h) = i
    BY <1>0, <1>3, <1>4, <2>0
  <2>. HIDE DEF n, S
  <2>2. DOMAIN (h \o b) = 1..(Len(h) + Len(b)) /\ (h \o b)[n] = b[n - Len(h)]
    BY <1>4, <2>1, ConcatProperties
  <2>3. n \in DOMAIN (h \o b) /\ (h \o b)[n] = b[i]
    BY <2>1, <2>2
  <2>. DEFINE k == h \o b
  <2>4. n \in DOMAIN k /\ k[n].cmd = c /\ k[n].idx = i
    BY <1>1, <2>3
  <2>. HIDE DEF k
  <2>5. <<c, i>> \in Members(k)
    BY <2>4 DEF Members
  <2>. QED  BY <2>5 DEF k
<1>. QED  BY <1>3, <1>5, Extends DEF Has, b, c

-----------------------------------------------------------------------------
(***************************************************************************)
(* What the actions have in common.                                        *)
(***************************************************************************)
\* The files are still well formed, and the snapshot and its durable copy have
\* what was reported.
FilesKept ==
  /\ log' \in Seq(Chunks) /\ synced' \in Nat /\ IsList(snap') /\ IsList(durable')
  /\ \A c \in acked : Has(snap', c) /\ Has(durable', c)

SnapGrows == \A c \in Commands : Has(snap, c) => Has(snap', c)

\* A load: the log may be trimmed, the files have what they had.
LEMMA TrimKeeps ==
  ASSUME StIInv, Trim
  PROVE  log' \in Seq(Chunks) /\ synced' \in Nat
<1>1. log' \in Seq(Chunks)
  BY TrimIsLog DEF StIInv
<1>2. synced' = LeastOf(synced, Len(log')) /\ synced \in Nat
  BY DEF Trim, StIInv, Lists
<1>. QED  BY <1>1, <1>2 DEF LeastOf

\* The replayed snapshot is written back, durably or not, or not at all.
LEMMA LoadKeeps ==
  ASSUME StIInv, Trim, snap' \in {snap, Loaded}, durable' \in {durable, Loaded}
  PROVE  FilesKept /\ SnapGrows
<1>1. IsList(Loaded) /\ \A c : Has(snap, c) => Has(Loaded, c)
  BY ReplayExtends DEF StIInv
<1>2. log' \in Seq(Chunks) /\ synced' \in Nat
  BY TrimKeeps
<1>. QED  BY <1>1, <1>2 DEF StIInv, Lists, CopiesHaveAcked, FilesKept, SnapGrows

\* The files are left alone.
LEMMA SameFiles ==
  ASSUME StIInv, UNCHANGED <<log, synced, snap, durable>>
  PROVE  FilesKept /\ SnapGrows
BY DEF StIInv, Lists, CopiesHaveAcked, FilesKept, SnapGrows

\* A call that ends with an error gives up its lock and what it loaded.
LEMMA FailKeeps ==
  ASSUME StIInv, NEW p \in Procs, Fail(p), FilesKept, SnapGrows
  PROVE  StIInv'
<1>. DEFINE Js == [step : {"idle"}] \cup [step : {"conflict"}, cmd : Commands]
                       \cup [step : {"ready"}, cmd : Commands, base : Nat]
                       \cup [step : {"append", "replace", "commit"}, cmd : Commands,
                             base : Nat, idx : Nat, err : BOOLEAN]
<1>1. /\ job \in [Procs -> Js] /\ holder \in Procs \cup {NoProc} /\ acked \subseteq Commands
      /\ IsList(pre)
  BY DEF StIInv, JobShapes, Lists
<1>2. Idle \in Js /\ Idle.step = "idle"
  BY DEF Idle
<1>. HIDE DEF Js
<1>3. /\ job' \in [Procs -> Js] /\ job'[p].step = "idle"
      /\ \A q \in Procs : q # p => job'[q] = job[q]
  BY <1>1, <1>2 DEF Fail
<1>4. /\ acked' = acked /\ (holder = p => holder' = NoProc /\ pre' = << >>)
      /\ (holder # p => holder' = holder /\ pre' = pre)
  BY DEF Fail
<1>5. JobShapes'
  BY <1>1, <1>3, <1>4 DEF JobShapes, Js
<1>6. Lists'
  <2>1. IsList(<< >>)
    BY DEF IsList
  <2>2. IsList(pre')
    BY <1>1, <1>4, <2>1
  <2>. QED  BY <2>2 DEF Lists, FilesKept
<1>7. HolderWorks'
  BY <1>3, <1>4 DEF StIInv, HolderWorks, Working
<1>8. CommitIsWritten'
  <2>1. \A q \in Procs : job[q].step = "commit" => job[q].cmd \in Commands
    BY <1>1 DEF Js
  <2>. QED  BY <1>3, <2>1 DEF StIInv, CommitIsWritten, SnapGrows
<1>9. CopiesHaveAcked'
  BY <1>4 DEF StIInv, CopiesHaveAcked, FilesKept
<1>. QED  BY <1>5, <1>6, <1>7, <1>8, <1>9 DEF StIInv

\* A process moves to another step of its command, not to the commit.
LEMMA StepKeeps ==
  ASSUME StIInv, NEW p \in Procs, NEW r, FilesKept, SnapGrows,
         job' = [job EXCEPT ![p] = r], acked' = acked,
         \/ r \in [step : {"conflict"}, cmd : Commands]
         \/ r \in [step : {"ready"}, cmd : Commands, base : Nat]
         \/ /\ r \in [step : {"append", "replace"}, cmd : Commands,
                      base : Nat, idx : Nat, err : BOOLEAN]
            /\ holder' = p,
         \/ holder' = holder /\ pre' = pre
         \/ /\ holder = NoProc /\ holder' = p /\ IsList(pre')
            /\ \A c : Has(snap, c) => Has(pre', c)
  PROVE  StIInv'
<1>. DEFINE Js == [step : {"idle"}] \cup [step : {"conflict"}, cmd : Commands]
                       \cup [step : {"ready"}, cmd : Commands, base : Nat]
                       \cup [step : {"append", "replace", "commit"}, cmd : Commands,
                             base : Nat, idx : Nat, err : BOOLEAN]
<1>1. /\ job \in [Procs -> Js] /\ holder \in Procs \cup {NoProc} /\ acked \subseteq Commands
      /\ IsList(pre)
  BY DEF StIInv, JobShapes, Lists
<1>2. r \in Js /\ r.step # "commit" /\ (r.step \in {"append", "replace"} => holder' = p)
  OBVIOUS
<1>3. \A q \in Procs : job[q].step = "commit" => job[q].cmd \in Commands
  BY <1>1
<1>. HIDE DEF Js
<1>4. /\ job' \in [Procs -> Js] /\ job'[p] = r
      /\ \A q \in Procs : q # p => job'[q] = job[q]
  BY <1>1, <1>2
<1>5. JobShapes'
  BY <1>1, <1>4 DEF JobShapes, Js
<1>6. Lists'
  BY <1>1 DEF Lists, FilesKept
<1>7. HolderWorks'
  <2>1. SUFFICES ASSUME NEW q \in Procs, Working(q)' PROVE holder' = q
    BY DEF HolderWorks
  <2>2. CASE q = p
    BY <1>2, <1>4, <2>1, <2>2 DEF Working
  <2>3. CASE q # p
    <3>1. holder = q
      BY <1>4, <2>1, <2>3 DEF Working, StIInv, HolderWorks
    <3>. QED  BY <3>1, StoreAssumption
  <2>. QED  BY <2>2, <2>3
<1>8. CommitIsWritten'
  BY <1>2, <1>3, <1>4 DEF StIInv, CommitIsWritten, SnapGrows
<1>9. CopiesHaveAcked'
  BY DEF StIInv, CopiesHaveAcked, FilesKept
<1>. QED  BY <1>5, <1>6, <1>7, <1>8, <1>9 DEF StIInv

\* Everything in memory is gone.
LEMMA StopKeeps ==
  ASSUME StIInv, Stop, FilesKept
  PROVE  StIInv'
<1>1. job' = [p \in Procs |-> Idle] /\ holder' = NoProc /\ pre' = << >> /\ acked' = acked
  BY DEF Stop
<1>2. JobShapes'
  BY <1>1 DEF StIInv, JobShapes, Idle
<1>3. Lists'
  BY <1>1 DEF Lists, IsList, FilesKept
<1>4. \A p \in Procs : job'[p].step = "idle"
  BY <1>1 DEF Idle
<1>5. HolderWorks' /\ CommitIsWritten'
  BY <1>4 DEF HolderWorks, Working, CommitIsWritten
<1>6. CopiesHaveAcked'
  BY <1>1 DEF CopiesHaveAcked, FilesKept
<1>. QED  BY <1>2, <1>3, <1>5, <1>6 DEF StIInv

-----------------------------------------------------------------------------
(***************************************************************************)
(* The actions.                                                            *)
(***************************************************************************)
\* What a process at work has in hand.
LEMMA JobFields ==
  ASSUME StIInv, NEW p \in Procs
  PROVE  /\ job[p].step \in {"conflict", "ready", "append", "replace", "commit"} =>
              job[p].cmd \in Commands
         /\ job[p].step = "ready" => job[p].base \in Nat
         /\ job[p].step \in {"append", "replace", "commit"} =>
              job[p] \in [step : {"append", "replace", "commit"}, cmd : Commands,
                          base : Nat, idx : Nat, err : BOOLEAN]
BY DEF StIInv, JobShapes

LEMMA LoadedLength ==
  ASSUME StIInv
  PROVE  Len(Loaded) \in Nat
<1>1. IsList(Loaded)
  BY ReplayExtends DEF StIInv
<1>. QED  BY <1>1 DEF IsList

LEMMA LoadingSteps ==
  ASSUME StIInv, NEW p \in Procs, NEW c \in Commands, Read(p, c) \/ Sweep(p, c) \/ Refresh(p)
  PROVE  StIInv'
<1>1. Trim /\ UNCHANGED <<snap, durable, acked>> /\ holder = NoProc
  BY DEF Read, Sweep, Refresh
<1>2. FilesKept /\ SnapGrows
  BY <1>1, LoadKeeps
<1>3. Len(Loaded) \in Nat
  BY LoadedLength
<1>4. CASE Read(p, c)
  <2>. DEFINE r == [step |-> "ready", cmd |-> c, base |-> Len(Loaded)]
  <2>1. job' = [job EXCEPT ![p] = r] /\ UNCHANGED <<holder, pre, acked>>
    BY <1>4 DEF Read
  <2>2. r \in [step : {"ready"}, cmd : Commands, base : Nat]
    BY <1>3
  <2>. HIDE DEF r
  <2>. QED  BY <1>2, <2>1, <2>2, StepKeeps
<1>5. CASE Refresh(p)
  <2>. DEFINE r == [step |-> "ready", cmd |-> job[p].cmd, base |-> Len(Loaded)]
  <2>1. job' = [job EXCEPT ![p] = r] /\ UNCHANGED <<holder, pre, acked>>
    BY <1>5 DEF Refresh
  <2>2. r \in [step : {"ready"}, cmd : Commands, base : Nat]
    BY <1>3, <1>5, JobFields DEF Refresh
  <2>. HIDE DEF r
  <2>. QED  BY <1>2, <2>1, <2>2, StepKeeps
<1>6. CASE Sweep(p, c)
  <2>. DEFINE r == [step |-> "append", cmd |-> c,
                    base |-> Len(Loaded), idx |-> 1, err |-> FALSE]
  <2>1. job' = [job EXCEPT ![p] = r] /\ holder' = p /\ pre' = Loaded
    BY <1>6 DEF Sweep
  <2>2. r \in [step : {"append", "replace"}, cmd : Commands,
               base : Nat, idx : Nat, err : BOOLEAN]
    BY <1>3
  <2>. HIDE DEF r
  <2>3. IsList(pre') /\ \A d : Has(snap, d) => Has(pre', d)
    BY <2>1, ReplayExtends DEF StIInv
  <2>. QED  BY <1>1, <1>2, <2>1, <2>2, <2>3, StepKeeps
<1>. QED  BY <1>4, <1>5, <1>6

LEMMA OpenStep ==
  ASSUME StIInv, NEW p \in Procs, Open(p)
  PROVE  StIInv'
<1>. DEFINE c == job[p].cmd
            b == job[p].base
            r == [step |-> "append", cmd |-> c, base |-> b, idx |-> 1, err |-> FALSE]
            s == [step |-> "conflict", cmd |-> c]
<1>1. Trim /\ snap' = Loaded /\ durable' \in {durable, Loaded} /\ holder = NoProc
  BY DEF Open
<1>2. FilesKept /\ SnapGrows
  BY <1>1, LoadKeeps
<1>3. c \in Commands /\ b \in Nat
  BY JobFields DEF Open
<1>4. \/ job' = [job EXCEPT ![p] = r] /\ holder' = p /\ pre' = Loaded /\ acked' = acked
      \/ job' = [job EXCEPT ![p] = s] /\ UNCHANGED <<holder, pre, acked>>
      \/ Fail(p)
  BY DEF Open
<1>5. /\ r \in [step : {"append", "replace"}, cmd : Commands,
                base : Nat, idx : Nat, err : BOOLEAN]
      /\ s \in [step : {"conflict"}, cmd : Commands]
  BY <1>3
<1>. HIDE DEF r, s
<1>6. IsList(Loaded) /\ \A d : Has(snap, d) => Has(Loaded, d)
  BY ReplayExtends DEF StIInv
<1>7. CASE job' = [job EXCEPT ![p] = r] /\ holder' = p /\ pre' = Loaded /\ acked' = acked
  BY <1>1, <1>2, <1>5, <1>6, <1>7, StepKeeps
<1>8. CASE job' = [job EXCEPT ![p] = s] /\ UNCHANGED <<holder, pre, acked>>
  BY <1>2, <1>5, <1>8, StepKeeps
<1>9. CASE Fail(p)
  BY <1>2, <1>9, FailKeeps
<1>. QED  BY <1>4, <1>7, <1>8, <1>9

LEMMA FailingSteps ==
  ASSUME StIInv, NEW p \in Procs, OpenFails(p) \/ GiveUp(p)
  PROVE  StIInv'
<1>1. CASE OpenFails(p)
  BY <1>1, LoadKeeps, FailKeeps DEF OpenFails
<1>2. CASE GiveUp(p)
  BY <1>2, SameFiles, FailKeeps DEF GiveUp
<1>. QED  BY <1>1, <1>2

\* A load that starts nothing.
Looks == Recover \/ \E p \in Procs, c \in Commands : Repeat(p, c)

LEMMA RecoverStep ==
  ASSUME StIInv, Looks
  PROVE  StIInv'
<1>1. FilesKept /\ SnapGrows
  BY LoadKeeps DEF Looks, Recover, Repeat
<1>2. UNCHANGED <<holder, pre, job, acked>>
  BY DEF Looks, Recover, Repeat
<1>3. JobShapes' /\ HolderWorks' /\ Lists'
  BY <1>1, <1>2 DEF StIInv, JobShapes, HolderWorks, Working, Lists, FilesKept
<1>4. CommitIsWritten'
  BY <1>1, <1>2, JobFields DEF StIInv, CommitIsWritten, SnapGrows
<1>5. CopiesHaveAcked'
  BY <1>1, <1>2 DEF StIInv, CopiesHaveAcked, FilesKept
<1>. QED  BY <1>3, <1>4, <1>5 DEF StIInv

\* Whatever a write leaves, the log stays a log.
LEMMA WriteIsLog ==
  ASSUME StIInv, NEW p \in Procs, job[p].step = "append",
         NEW e, e = Event(p, job[p].idx)
  PROVE  /\ Append(log, Chunk(e, TRUE, TRUE)) \in Seq(Chunks)
         /\ \A rest \in Partial(e) : log \o rest \in Seq(Chunks)
<1>1. e \in StoredEvents
  BY JobFields DEF Event, StoredEvents
<1>2. \A w, n \in BOOLEAN : Chunk(e, w, n) \in Chunks
  BY <1>1 DEF Chunk, Chunks
<1>3. log \in Seq(Chunks)
  BY DEF StIInv, Lists
<1>4. ASSUME NEW rest \in Partial(e) PROVE rest \in Seq(Chunks)
  <2>1. \/ rest = << >>
        \/ \E w, n \in BOOLEAN : rest = <<Chunk(e, w, n)>>
    BY DEF Partial
  <2>2. ASSUME NEW x \in Chunks PROVE <<x>> \in Seq(Chunks)
    OBVIOUS
  <2>3. << >> \in Seq(Chunks)
    OBVIOUS
  <2>. QED  BY <1>2, <2>1, <2>2, <2>3
<1>5. Append(log, Chunk(e, TRUE, TRUE)) \in Seq(Chunks)
  BY <1>2, <1>3, AppendProperties
<1>6. ASSUME NEW rest \in Partial(e) PROVE log \o rest \in Seq(Chunks)
  BY <1>3, <1>4, ConcatProperties
<1>. QED  BY <1>5, <1>6

LEMMA WriteStep ==
  ASSUME StIInv, NEW p \in Procs, WriteEvent(p)
  PROVE  StIInv'
<1>. DEFINE i == job[p].idx
            r == [job[p] EXCEPT !.idx = i + 1]
            s == [job[p] EXCEPT !.idx = i + 1, !.err = TRUE]
<1>1. /\ job[p].step = "append"
      /\ UNCHANGED <<synced, snap, durable, holder, pre, acked>>
      /\ job' = [job EXCEPT ![p] = r] \/ job' = [job EXCEPT ![p] = s]
      /\ \/ log' = Append(log, Chunk(Event(p, i), TRUE, TRUE))
         \/ \E rest \in Partial(Event(p, i)) : log' = log \o rest
  BY DEF WriteEvent
<1>2. log' \in Seq(Chunks)
  BY <1>1, WriteIsLog
<1>3. FilesKept /\ SnapGrows
  BY <1>1, <1>2 DEF StIInv, Lists, CopiesHaveAcked, FilesKept, SnapGrows
<1>4. holder' = p
  BY <1>1 DEF StIInv, HolderWorks, Working
<1>5. job[p] \in [step : {"append"}, cmd : Commands,
                  base : Nat, idx : Nat, err : BOOLEAN]
  BY <1>1, JobFields
<1>. DEFINE Js == [step : {"append", "replace"}, cmd : Commands,
                   base : Nat, idx : Nat, err : BOOLEAN]
<1>6. r \in Js
  BY <1>5
<1>7. s \in Js
  <2>1. ASSUME NEW x \in Js PROVE [x EXCEPT !.err = TRUE] \in Js
    OBVIOUS
  <2>2. [r EXCEPT !.err = TRUE] \in Js
    BY <1>6, <2>1
  <2>3. s = [r EXCEPT !.err = TRUE]
    BY <1>5
  <2>. QED  BY <2>2, <2>3
<1>. HIDE DEF r, s
<1>. QED  BY <1>1, <1>3, <1>4, <1>6, <1>7, StepKeeps

LEMMA SyncStep ==
  ASSUME StIInv, NEW p \in Procs, Sync(p)
  PROVE  StIInv'
<1>. DEFINE r == [job[p] EXCEPT !.step = "replace"]
<1>1. /\ job[p].step = "append" /\ UNCHANGED <<log, snap, durable>>
      /\ synced' = Len(log) \/ synced' = synced
      /\ \/ Fail(p)
         \/ job' = [job EXCEPT ![p] = r] /\ UNCHANGED <<holder, pre, acked>>
  BY DEF Sync
<1>2. FilesKept /\ SnapGrows
  BY <1>1 DEF StIInv, Lists, CopiesHaveAcked, FilesKept, SnapGrows
<1>3. holder = p
  BY <1>1 DEF StIInv, HolderWorks, Working
<1>4. job[p] \in [step : {"append"}, cmd : Commands,
                  base : Nat, idx : Nat, err : BOOLEAN]
  BY <1>1, JobFields
<1>5. r \in [step : {"append", "replace"}, cmd : Commands,
             base : Nat, idx : Nat, err : BOOLEAN]
  BY <1>4
<1>. HIDE DEF r
<1>6. CASE Fail(p)
  BY <1>2, <1>6, FailKeeps
<1>7. CASE job' = [job EXCEPT ![p] = r] /\ UNCHANGED <<holder, pre, acked>>
  BY <1>2, <1>3, <1>5, <1>7, StepKeeps
<1>. QED  BY <1>1, <1>6, <1>7

\* The snapshot becomes the history that was loaded and the whole batch.
LEMMA ReplaceStep ==
  ASSUME StIInv, NEW p \in Procs, Replace(p)
  PROVE  StIInv'
<1>. DEFINE r == [job[p] EXCEPT !.step = "commit"]
            c == job[p].cmd
            h == pre \o Batch(p)
<1>1. /\ job[p].step = "replace" /\ UNCHANGED <<log, synced, durable>>
      /\ \/ /\ snap' = h
            /\ job' = [job EXCEPT ![p] = r] /\ UNCHANGED <<holder, pre, acked>>
         \/ Fail(p) /\ snap' = snap
  BY DEF Replace
<1>2. CASE Fail(p) /\ snap' = snap
  BY <1>1, <1>2, SameFiles, FailKeeps
<1>3. CASE snap' = h /\ job' = [job EXCEPT ![p] = r] /\ UNCHANGED <<holder, pre, acked>>
  <2>1. /\ job[p] \in [step : {"replace"}, cmd : Commands, base : Nat,
                       idx : Nat, err : BOOLEAN]
        /\ c \in Commands
    BY <1>1, JobFields
  <2>2. r \in [step : {"commit"}, cmd : Commands, base : Nat, idx : Nat, err : BOOLEAN]
        /\ r.step = "commit" /\ r.cmd = c
    BY <2>1
  <2>3. holder = p
    BY <1>1 DEF StIInv, HolderWorks, Working
  <2>4. IsList(h) /\ Has(h, c) /\ \A d : Has(pre, d) => Has(h, d)
    BY <2>1, BatchHas DEF StIInv, Lists
  <2>. HIDE DEF r, h, c
  <2>5. job'[p] = r /\ \A q \in Procs : q # p => job'[q] = job[q]
    BY <1>3 DEF StIInv, JobShapes
  <2>6. JobShapes'
    BY <1>3, <2>2 DEF StIInv, JobShapes
  <2>7. Lists'
    BY <1>1, <1>3, <2>4 DEF StIInv, Lists
  <2>8. HolderWorks'
    BY <1>3, <2>3, <2>5 DEF StIInv, HolderWorks, Working
  <2>9. CommitIsWritten'
    <3>1. \A q \in Procs : job[q].step = "commit" => q = p
      BY <2>3 DEF StIInv, HolderWorks, Working
    <3>. QED  BY <1>3, <2>2, <2>4, <2>5, <3>1 DEF CommitIsWritten
  <2>10. CopiesHaveAcked'
    <3>1. holder # NoProc
      BY <2>3, StoreAssumption
    <3>. QED  BY <1>1, <1>3, <2>4, <3>1 DEF StIInv, CopiesHaveAcked
  <2>. QED  BY <2>6, <2>7, <2>8, <2>9, <2>10 DEF StIInv
<1>. QED  BY <1>1, <1>2, <1>3

\* The rename is durable before the caller hears of it.
LEMMA CommitStep ==
  ASSUME StIInv, NEW p \in Procs, Commit(p)
  PROVE  StIInv'
<1>1. /\ job[p].step = "commit" /\ UNCHANGED <<log, synced, snap>>
      /\ \/ /\ durable' = snap /\ acked' = acked \cup {job[p].cmd}
            /\ job' = [job EXCEPT ![p] = Idle] /\ holder' = NoProc /\ pre' = << >>
         \/ Fail(p) /\ durable' = durable
  BY DEF Commit, FsyncDir
<1>2. CASE Fail(p) /\ durable' = durable
  BY <1>1, <1>2, SameFiles, FailKeeps
<1>3. CASE /\ durable' = snap /\ acked' = acked \cup {job[p].cmd}
           /\ job' = [job EXCEPT ![p] = Idle] /\ holder' = NoProc /\ pre' = << >>
  <2>1. job[p].cmd \in Commands /\ holder = p /\ Has(snap, job[p].cmd)
    BY <1>1, JobFields DEF StIInv, HolderWorks, Working, CommitIsWritten
  <2>2. job'[p] = Idle /\ \A q \in Procs : q # p => job'[q] = job[q]
    BY <1>3 DEF StIInv, JobShapes
  <2>3. JobShapes'
    BY <1>3, <2>1 DEF StIInv, JobShapes, Idle
  <2>4. IsList(<< >>)
    BY DEF IsList
  <2>5. Lists'
    BY <1>1, <1>3, <2>4 DEF StIInv, Lists
  <2>6. HolderWorks' /\ CommitIsWritten'
    BY <1>1, <1>3, <2>1, <2>2
       DEF StIInv, HolderWorks, Working, CommitIsWritten, Idle
  <2>7. CopiesHaveAcked'
    BY <1>1, <1>3, <2>1 DEF StIInv, CopiesHaveAcked
  <2>. QED  BY <2>3, <2>5, <2>6, <2>7 DEF StIInv
<1>. QED  BY <1>1, <1>2, <1>3

LEMMA CrashSteps ==
  ASSUME StIInv, ProcessesDie \/ PowerLoss
  PROVE  StIInv'
<1>0. log \in Seq(Chunks) /\ synced \in Nat /\ Len(log) \in Nat /\ IsList(snap) /\ IsList(durable)
  BY DEF StIInv, Lists
<1>1. CASE ProcessesDie
  <2>1. log' \in Seq(Chunks)
    BY <1>0, <1>1, WriteIsLog DEF ProcessesDie
  <2>2. FilesKept
    BY <1>1, <2>1 DEF ProcessesDie, StIInv, Lists, CopiesHaveAcked, FilesKept
  <2>. QED  BY <1>1, <2>2, StopKeeps DEF ProcessesDie
<1>2. CASE PowerLoss
  <2>1. log' \in Seq(Chunks)
    <3>1. PICK n \in synced..Len(log) :
            \/ log' = SubSeq(log, 1, n)
            \/ /\ n < Len(log)
               /\ log' = Append(SubSeq(log, 1, n), Chunk(log[n + 1].ev, FALSE, FALSE))
      BY <1>2 DEF PowerLoss
    <3>2. n \in Nat /\ n <= Len(log)
      BY <1>0
    <3>3. SubSeq(log, 1, n) \in Seq(Chunks)
      BY <1>0, <3>2, SubSeqProperties
    <3>4. n < Len(log) => Chunk(log[n + 1].ev, FALSE, FALSE) \in Chunks
      <4>1. n < Len(log) => log[n + 1] \in Chunks
        BY <1>0, <3>2
      <4>. QED  BY <4>1 DEF Chunk, Chunks
    <3>. DEFINE l == SubSeq(log, 1, n)
                x == Chunk(log[n + 1].ev, FALSE, FALSE)
    <3>5. l \in Seq(Chunks) /\ (n < Len(log) => x \in Chunks)
      BY <3>3, <3>4
    <3>6. log' = l \/ (n < Len(log) /\ log' = Append(l, x))
      BY <3>1
    <3>. HIDE DEF l, x
    <3>. QED  BY <3>5, <3>6, AppendProperties
  <2>2. synced' \in Nat
    BY <1>2, <2>1 DEF PowerLoss
  <2>3. snap' \in {snap, durable} /\ durable' = snap' /\ Stop
    BY <1>2 DEF PowerLoss
  <2>4. FilesKept
    BY <1>0, <2>1, <2>2, <2>3 DEF StIInv, CopiesHaveAcked, FilesKept
  <2>. QED  BY <2>3, <2>4, StopKeeps
<1>. QED  BY <1>1, <1>2

-----------------------------------------------------------------------------
(***************************************************************************)
(* What holds in every reachable state.                                    *)
(***************************************************************************)
\* In every reachable state of the store the lock is held while a batch is
\* written, a command is reported only when its events are in the snapshot, and
\* the snapshot, its durable copy and the history in hand have what was reported.
THEOREM StoreInductive == StSpec => []StIInv
<1>1. StInit => StIInv
  <2>. SUFFICES ASSUME StInit PROVE StIInv
    OBVIOUS
  <2>1. JobShapes
    BY DEF StInit, JobShapes, Idle
  <2>2. Lists
    BY DEF StInit, Lists, IsList
  <2>3. HolderWorks /\ CommitIsWritten /\ CopiesHaveAcked
    BY DEF StInit, HolderWorks, CommitIsWritten, CopiesHaveAcked, Working, Idle
  <2>. QED  BY <2>1, <2>2, <2>3 DEF StIInv
<1>2. StIInv /\ [StNext]_stVars => StIInv'
  <2>. SUFFICES ASSUME StIInv, [StNext]_stVars PROVE StIInv'
    OBVIOUS
  <2>1. CASE UNCHANGED stVars
    BY <2>1 DEF stVars, StIInv, JobShapes, Lists, HolderWorks, Working,
                CommitIsWritten, CopiesHaveAcked
  <2>2. ASSUME NEW p \in Procs, NEW c \in Commands, Read(p, c) \/ Sweep(p, c)
        PROVE  StIInv'
    BY <2>2, LoadingSteps
  <2>3. ASSUME NEW p \in Procs, Refresh(p)
        PROVE  StIInv'
    <3>1. job[p].cmd \in Commands
      BY <2>3, JobFields DEF Refresh
    <3>. QED  BY <2>3, <3>1, LoadingSteps
  <2>4. ASSUME NEW p \in Procs, Open(p) \/ OpenFails(p) \/ GiveUp(p) \/ WriteEvent(p)
                                \/ Sync(p) \/ Replace(p) \/ Commit(p)
        PROVE  StIInv'
    BY <2>4, OpenStep, FailingSteps, WriteStep, SyncStep, ReplaceStep, CommitStep
  <2>5. CASE Looks \/ ProcessesDie \/ PowerLoss
    BY <2>5, RecoverStep, CrashSteps
  <2>. QED  BY <2>1, <2>2, <2>3, <2>4, <2>5 DEF StNext, Looks
<1>. QED  BY <1>1, <1>2, PTL DEF StSpec

\* AckedSurvives, for any number of processes, commands and faults: what a caller
\* was told has committed is in workflow.json after any crash, power loss, failed
\* write, failed sync or failed replacement of the snapshot.
THEOREM AckedNeverLost == StSpec => []AckedSurvives
<1>1. StIInv => AckedSurvives
  BY DEF StIInv, CopiesHaveAcked, AckedSurvives, Has
<1>. QED  BY <1>1, StoreInductive, PTL

-----------------------------------------------------------------------------
(***************************************************************************)
(* The history.  A command takes effect once, stands on the revision its   *)
(* caller read, and is lost only when nobody was told about it.            *)
(***************************************************************************)
Pair(e) == <<e.cmd, e.idx>>
Numbered(e) == e.idx \in 1..Size[e.cmd]

\* History g is an earlier version of history h.
Prefix(g, h) == Len(g) <= Len(h) /\ \A n \in DOMAIN g : h[n] = g[n]

\* A history tells each event of a command once.
Once(h) == \A m, n \in DOMAIN h : m # n => Pair(h[m]) # Pair(h[n])
Told(h) == Once(h) /\ \A n \in DOMAIN h : Numbered(h[n])

\* The log holds an event once, and the same event as the history.
LogFits(l, h) ==
  /\ \A i, j \in DOMAIN l : i # j => Pair(l[i].ev) # Pair(l[j].ev)
  /\ \A i \in DOMAIN l : Numbered(l[i].ev)
  /\ \A i \in DOMAIN l, n \in DOMAIN h : Pair(l[i].ev) = Pair(h[n]) => l[i].ev = h[n]

\* The reported commands of a history stand on the revision their caller read.
Stands(h, A) == \A n \in DOMAIN h : h[n].cmd \in A => n = h[n].base + h[n].idx

\* What a process at work computes its batch from, and what it has written of it.
WorkFits(p) ==
  /\ job[p].idx \in 1..(Size[job[p].cmd] + 1)
  /\ job[p].step # "append" => job[p].idx = Size[job[p].cmd] + 1
  /\ job[p].base = Len(pre) /\ job[p].cmd \notin CommandsOf(pre)
  /\ Told(pre)
  /\ job[p].step = "commit" => snap = pre \o Batch(p)
  /\ job[p].step # "commit" => Prefix(snap, pre)
  /\ \A i \in DOMAIN log :
       \/ log[i].ev \in Events(pre)
       \/ \E k \in 1..(job[p].idx - 1) : log[i].ev = Event(p, k)

\* What the files say of the history.
FilesTold == LogFits(log, snap) /\ Told(snap) /\ Prefix(durable, snap) /\ NoStaleCommit

HistIInv == FilesTold /\ \A p \in Procs : Working(p) => WorkFits(p)

-----------------------------------------------------------------------------
\* The positions of a history.
LEMMA ListDomain ==
  ASSUME NEW h, IsList(h)
  PROVE  Len(h) \in Nat /\ DOMAIN h = 1..Len(h)
BY DEF IsList

\* The positions of two histories that are put together.
LEMMA Joined ==
  ASSUME NEW h, NEW g, IsList(h), IsList(g)
  PROVE  /\ IsList(h \o g) /\ Len(h \o g) = Len(h) + Len(g) /\ Prefix(h, h \o g)
         /\ \A n \in DOMAIN (h \o g) :
              \/ n \in DOMAIN h /\ (h \o g)[n] = h[n]
              \/ \E m \in DOMAIN g : n = Len(h) + m /\ (h \o g)[n] = g[m]
<1>. DEFINE S == Events(h) \cup Events(g)
            k == h \o g
<1>1. h \in Seq(S) /\ g \in Seq(S)
  BY DEF IsList
<1>2. /\ Len(h) \in Nat /\ Len(g) \in Nat /\ DOMAIN h = 1..Len(h) /\ DOMAIN g = 1..Len(g)
      /\ Len(k) = Len(h) + Len(g) /\ DOMAIN k = 1..(Len(h) + Len(g))
      /\ \A n \in 1..(Len(h) + Len(g)) :
           k[n] = IF n <= Len(h) THEN h[n] ELSE g[n - Len(h)]
  BY <1>1, ConcatProperties, ListDomain
<1>3. IsList(k)
  BY Extends
<1>. HIDE DEF k, S
<1>4. Prefix(h, k)
  BY <1>2 DEF Prefix
<1>5. ASSUME NEW n \in DOMAIN k
      PROVE  \/ n \in DOMAIN h /\ k[n] = h[n]
             \/ \E m \in DOMAIN g : n = Len(h) + m /\ k[n] = g[m]
  <2>1. CASE n <= Len(h)
    BY <1>2, <2>1
  <2>2. CASE n > Len(h)
    <3>1. n - Len(h) \in DOMAIN g /\ n = Len(h) + (n - Len(h)) /\ k[n] = g[n - Len(h)]
      BY <1>2, <2>2
    <3>. QED  BY <3>1
  <2>. QED  BY <1>2, <2>1, <2>2
<1>. QED  BY <1>2, <1>3, <1>4, <1>5 DEF k

\* Two histories that share no event are one history.
LEMMA ToldJoined ==
  ASSUME NEW h, NEW g, IsList(h), IsList(g), Told(h), Told(g),
         \A m \in DOMAIN h, n \in DOMAIN g : Pair(h[m]) # Pair(g[n])
  PROVE  Told(h \o g)
<1>. DEFINE k == h \o g
<1>1. \A n \in DOMAIN k :
        \/ n \in DOMAIN h /\ k[n] = h[n]
        \/ \E m \in DOMAIN g : n = Len(h) + m /\ k[n] = g[m]
  BY Joined
<1>. HIDE DEF k
<1>2. \A n \in DOMAIN k : Numbered(k[n])
  BY <1>1 DEF Told
<1>3. ASSUME NEW i \in DOMAIN k, NEW j \in DOMAIN k, i # j
      PROVE  Pair(k[i]) # Pair(k[j])
  <2>1. CASE i \in DOMAIN h /\ k[i] = h[i]
    <3>1. CASE j \in DOMAIN h /\ k[j] = h[j]
      BY <1>3, <2>1, <3>1 DEF Told, Once
    <3>2. CASE \E m \in DOMAIN g : j = Len(h) + m /\ k[j] = g[m]
      BY <2>1, <3>2
    <3>. QED  BY <1>1, <3>1, <3>2
  <2>2. CASE \E m \in DOMAIN g : i = Len(h) + m /\ k[i] = g[m]
    <3>1. CASE j \in DOMAIN h /\ k[j] = h[j]
      BY <2>2, <3>1
    <3>2. CASE \E m \in DOMAIN g : j = Len(h) + m /\ k[j] = g[m]
      <4>1. PICK m \in DOMAIN g : i = Len(h) + m /\ k[i] = g[m]
        BY <2>2
      <4>2. PICK n \in DOMAIN g : j = Len(h) + n /\ k[j] = g[n]
        BY <3>2
      <4>. QED  BY <1>3, <4>1, <4>2 DEF Told, Once
    <3>. QED  BY <1>1, <3>1, <3>2
  <2>. QED  BY <1>1, <2>1, <2>2
<1>. QED  BY <1>2, <1>3 DEF Told, Once, k

\* The events of a reported command are in the snapshot, so none of them is in
\* what a history adds to it.
LEMMA StandsLonger ==
  ASSUME StIInv, NoStaleCommit, NEW h, IsList(h), Told(h), Prefix(snap, h)
  PROVE  Stands(h, acked)
<1>. SUFFICES ASSUME NEW n \in DOMAIN h, h[n].cmd \in acked
              PROVE  n = h[n].base + h[n].idx
  BY DEF Stands
<1>1. <<h[n].cmd, h[n].idx>> \in Members(snap)
  BY DEF Told, Numbered, StIInv, CopiesHaveAcked, Has
<1>2. PICK m \in DOMAIN snap : Pair(snap[m]) = Pair(h[n])
  BY <1>1 DEF Members, Pair
<1>3. m \in DOMAIN h /\ h[m] = snap[m]
  <2>1. IsList(snap)
    BY DEF StIInv, Lists
  <2>. QED  BY <2>1, ListDomain DEF Prefix
<1>4. m = n
  BY <1>2, <1>3 DEF Told, Once
<1>. QED  BY <1>3, <1>4 DEF NoStaleCommit

\* An earlier version of a history has the same commands at the same revisions.
LEMMA StandsShorter ==
  ASSUME NEW h, NEW g, IsList(h), IsList(g), Prefix(g, h), NEW A, Stands(h, A)
  PROVE  Stands(g, A)
<1>1. \A n \in DOMAIN g : n \in DOMAIN h /\ h[n] = g[n]
  BY ListDomain DEF Prefix
<1>. QED  BY <1>1 DEF Stands

\* An earlier version of a history tells each of its events once.
LEMMA ToldShorter ==
  ASSUME NEW h, NEW g, IsList(h), IsList(g), Prefix(g, h), Told(h)
  PROVE  Told(g)
<1>1. \A n \in DOMAIN g : n \in DOMAIN h /\ h[n] = g[n]
  BY ListDomain DEF Prefix
<1>. QED  BY <1>1 DEF Told, Once

\* A log that lost chunks fits an earlier version of the history it fitted.
LEMMA FitsShorter ==
  ASSUME NEW h, NEW g, IsList(h), IsList(g), Prefix(g, h),
         NEW l, NEW m, LogFits(l, h),
         \A i \in DOMAIN m : i \in DOMAIN l /\ m[i].ev = l[i].ev
  PROVE  LogFits(m, g)
<1>1. \A n \in DOMAIN g : n \in DOMAIN h /\ h[n] = g[n]
  BY ListDomain DEF Prefix
<1>. QED  BY <1>1 DEF LogFits

\* An earlier version of an earlier version is an earlier version.
LEMMA PrefixTransitive ==
  ASSUME NEW f, NEW g, NEW h, IsList(f), IsList(g), IsList(h), Prefix(f, g), Prefix(g, h)
  PROVE  Prefix(f, h)
<1>1. \A n \in DOMAIN f : n \in DOMAIN g /\ g[n] = f[n]
  BY ListDomain DEF Prefix
<1>. QED  BY <1>1, ListDomain DEF Prefix

-----------------------------------------------------------------------------
\* How many numbers of S are not above i.
Rank(S, i) == Cardinality({j \in S : j <= i})

\* The positions of a finite set of numbers are its numbers, each at one position.
LEMMA RankIsBijection ==
  ASSUME NEW N \in Nat, NEW S \in SUBSET (1..N)
  PROVE  /\ IsFiniteSet(S) /\ Cardinality(S) \in Nat
         /\ \A i \in S : Rank(S, i) \in 1..Cardinality(S)
         /\ \A i, j \in S : Rank(S, i) = Rank(S, j) => i = j
         /\ \A k \in 1..Cardinality(S) : \E i \in S : Rank(S, i) = k
<1>1. IsFiniteSet(S) /\ Cardinality(S) \in Nat
  <2>1. IsFiniteSet(1..N)
    BY FS_Interval
  <2>. QED  BY <2>1, FS_Subset, FS_CardinalityType
<1>2. ASSUME NEW i \in S PROVE Rank(S, i) \in 1..Cardinality(S)
  <2>. DEFINE T == {j \in S : j <= i}
  <2>1. T \in SUBSET S /\ i \in T
    OBVIOUS
  <2>. HIDE DEF T
  <2>2. IsFiniteSet(T) /\ Cardinality(T) \in Nat /\ Cardinality(T) <= Cardinality(S)
    BY <1>1, <2>1, FS_Subset, FS_CardinalityType
  <2>3. Cardinality(T) # 0
    BY <2>1, <2>2, FS_EmptySet
  <2>4. Rank(S, i) = Cardinality(T)
    BY DEF Rank, T
  <2>. QED  BY <1>1, <2>2, <2>3, <2>4
<1>3. ASSUME NEW i \in S, NEW j \in S, Rank(S, i) = Rank(S, j), i < j
      PROVE  FALSE
  <2>. DEFINE T == {k \in S : k <= i}
              U == {k \in S : k <= j}
  <2>0. \A k \in S : k \in Nat
    OBVIOUS
  <2>1. U \in SUBSET S /\ T \in SUBSET U /\ j \in U /\ j \notin T
    <3>1. i \in Nat /\ j \in Nat /\ i < j
      BY <1>3, <2>0
    <3>2. ASSUME NEW k \in S, k <= i PROVE k <= j
      BY <2>0, <3>1, <3>2
    <3>3. T \in SUBSET U
      BY <3>2
    <3>4. j <= j /\ ~(j <= i)
      BY <3>1
    <3>. QED  BY <3>3, <3>4
  <2>2. Cardinality(T) = Cardinality(U)
    BY <1>3 DEF Rank
  <2>. HIDE DEF T, U
  <2>3. IsFiniteSet(U)
    BY <1>1, <2>1, FS_Subset
  <2>. QED  BY <2>1, <2>2, <2>3, FS_Subset
<1>4. ASSUME NEW i \in S, NEW j \in S, Rank(S, i) = Rank(S, j) PROVE i = j
  BY <1>3, <1>4
<1>. DEFINE n == Cardinality(S)
            f == [i \in S |-> Rank(S, i)]
<1>5. f \in Injection(S, 1..n)
  <2>1. f \in [S -> 1..n] /\ \A i \in S : f[i] = Rank(S, i)
    BY <1>2
  <2>2. \A i, j \in S : f[i] = f[j] => i = j
    BY <1>4, <2>1
  <2>. HIDE DEF f
  <2>. QED  BY <2>1, <2>2 DEF Injection, IsInjective
<1>6. IsFiniteSet(1..n) /\ Cardinality(1..n) = n
  BY <1>1, FS_Interval
<1>. HIDE DEF f
<1>7. f \in Surjection(S, 1..n)
  BY <1>5, <1>6, FS_Injection
<1>8. \A k \in 1..n : \E i \in S : f[i] = k
  BY <1>7 DEF Surjection
<1>9. \A i \in S : f[i] = Rank(S, i)
  BY DEF f
<1>. QED  BY <1>1, <1>2, <1>4, <1>8, <1>9

\* A nonempty finite set of numbers has a least one.
LEMMA LeastExists ==
  ASSUME NEW N \in Nat, NEW S \in SUBSET (1..N), S # {}
  PROVE  \E i \in S : \A j \in S : i <= j
<1>1. IsFiniteSet(S) /\ Cardinality(S) \in Nat
  BY RankIsBijection
<1>2. 1 \in 1..Cardinality(S)
  BY <1>1, FS_EmptySet
<1>3. PICK i \in S : Rank(S, i) = 1
  BY <1>2, RankIsBijection
<1>. DEFINE T == {j \in S : j <= i}
<1>4. T \in SUBSET S /\ i \in T /\ Cardinality(T) = 1
  BY <1>3 DEF Rank
<1>5. IsFiniteSet(T)
  BY <1>1, <1>4, FS_Subset
<1>6. PICK x : T = {x}
  BY <1>4, <1>5, FS_Singleton
<1>7. ASSUME NEW j \in S PROVE i <= j
  <2>1. j <= i => j = i
    BY <1>4, <1>6
  <2>. QED  BY <2>1
<1>. QED  BY <1>7

\* The events of a set of lines: each line gives one event.
LEMMA InOrderTakesEach ==
  ASSUME NEW l \in Seq(Chunks), NEW lines \in SUBSET (DOMAIN l)
  PROVE  \E at \in [DOMAIN InOrder(l, lines) -> lines] :
           /\ \A j, k \in DOMAIN InOrder(l, lines) : at[j] = at[k] => j = k
           /\ \A i \in lines : \E k \in DOMAIN InOrder(l, lines) : at[k] = i
           /\ \A k \in DOMAIN InOrder(l, lines) : InOrder(l, lines)[k] = l[at[k]].ev
<1>. DEFINE n == Cardinality(lines)
            nth(k) == CHOOSE i \in lines : Cardinality({j \in lines : j <= i}) = k
            h == InOrder(l, lines)
            at == [k \in 1..n |-> nth(k)]
<1>1. lines \in SUBSET (1..Len(l)) /\ Len(l) \in Nat
  OBVIOUS
<1>2. /\ \A i \in lines : Rank(lines, i) \in 1..n
      /\ \A i, j \in lines : Rank(lines, i) = Rank(lines, j) => i = j
      /\ \A k \in 1..n : \E i \in lines : Rank(lines, i) = k
  BY <1>1, RankIsBijection
<1>3. h = [k \in 1..n |-> l[nth(k)].ev]
  BY DEF InOrder
<1>4. ASSUME NEW k \in 1..n PROVE nth(k) \in lines /\ Rank(lines, nth(k)) = k
  BY <1>2 DEF Rank
<1>. HIDE DEF nth, n
<1>5. at \in [1..n -> lines] /\ \A k \in 1..n : at[k] = nth(k)
  BY <1>4
<1>6. DOMAIN h = 1..n /\ \A k \in 1..n : h[k] = l[nth(k)].ev
  BY <1>3
<1>. HIDE DEF at, h
<1>7. \A j, k \in 1..n : at[j] = at[k] => j = k
  BY <1>4, <1>5
<1>8. \A i \in lines : \E k \in 1..n : at[k] = i
  BY <1>2, <1>4, <1>5
<1>9. \E f \in [DOMAIN h -> lines] :
           /\ \A j, k \in DOMAIN h : f[j] = f[k] => j = k
           /\ \A i \in lines : \E k \in DOMAIN h : f[k] = i
           /\ \A k \in DOMAIN h : h[k] = l[f[k]].ev
  <2>1. at \in [DOMAIN h -> lines]
    BY <1>5, <1>6
  <2>2. \A k \in DOMAIN h : h[k] = l[at[k]].ev
    BY <1>5, <1>6
  <2>3. \A j, k \in DOMAIN h : at[j] = at[k] => j = k
    BY <1>6, <1>7
  <2>4. \A i \in lines : \E k \in DOMAIN h : at[k] = i
    BY <1>6, <1>8
  <2>. QED  BY <2>1, <2>2, <2>3, <2>4
<1>. QED  BY <1>9 DEF h

-----------------------------------------------------------------------------
\* What a load finds: the snapshot, then every event of the log it does not have,
\* each once.
LEMMA LoadTells ==
  ASSUME StIInv, LogFits(log, snap), Told(snap)
  PROVE  /\ IsList(Loaded) /\ Told(Loaded) /\ Prefix(snap, Loaded) /\ LogFits(log, Loaded)
         /\ \A i \in DOMAIN log : Parses(log, i) => log[i].ev \in Events(Loaded)
<1>. DEFINE lines == {i \in DOMAIN log : Parses(log, i) /\ log[i].ev \notin Events(snap)}
            g == InOrder(log, lines)
<1>1. log \in Seq(Chunks) /\ IsList(snap)
  BY DEF StIInv, Lists
<1>2. IsList(g)
  BY <1>1, InOrderIsList
<1>3. PICK at \in [DOMAIN g -> lines] :
           /\ \A j, k \in DOMAIN g : at[j] = at[k] => j = k
           /\ \A i \in lines : \E k \in DOMAIN g : at[k] = i
           /\ \A k \in DOMAIN g : g[k] = log[at[k]].ev
  BY <1>1, InOrderTakesEach
<1>4. Loaded = snap \o g
  BY DEF Loaded, Replay
<1>5. \A i \in lines : i \in DOMAIN log /\ Parses(log, i) /\ log[i].ev \notin Events(snap)
  OBVIOUS
<1>6. \A i \in DOMAIN log : Parses(log, i) => log[i].ev \in Events(snap) \/ i \in lines
  OBVIOUS
<1>. HIDE DEF lines, g
<1>7. Told(g)
  <2>1. \A k \in DOMAIN g : at[k] \in DOMAIN log
    BY <1>3, <1>5
  <2>2. \A k \in DOMAIN g : Numbered(g[k])
    BY <1>3, <2>1 DEF LogFits
  <2>3. Once(g)
    BY <1>3, <2>1 DEF LogFits, Once
  <2>. QED  BY <2>2, <2>3 DEF Told
<1>8. ASSUME NEW m \in DOMAIN snap, NEW n \in DOMAIN g PROVE Pair(snap[m]) # Pair(g[n])
  <2>1. at[n] \in DOMAIN log /\ g[n] = log[at[n]].ev /\ log[at[n]].ev \notin Events(snap)
    BY <1>3, <1>5
  <2>2. log[at[n]].ev # snap[m]
    BY <2>1 DEF Events
  <2>. QED  BY <2>1, <2>2 DEF LogFits
<1>9. Told(Loaded)
  BY <1>1, <1>2, <1>4, <1>7, <1>8, ToldJoined
<1>10. /\ IsList(Loaded) /\ Prefix(snap, Loaded) /\ Len(Loaded) = Len(snap) + Len(g)
       /\ \A n \in DOMAIN Loaded :
              \/ n \in DOMAIN snap /\ Loaded[n] = snap[n]
              \/ \E m \in DOMAIN g : n = Len(snap) + m /\ Loaded[n] = g[m]
  BY <1>1, <1>2, <1>4, Joined
<1>11. LogFits(log, Loaded)
  <2>. SUFFICES ASSUME NEW i \in DOMAIN log, NEW n \in DOMAIN Loaded,
                       Pair(log[i].ev) = Pair(Loaded[n])
                PROVE  log[i].ev = Loaded[n]
    BY DEF LogFits
  <2>1. CASE n \in DOMAIN snap /\ Loaded[n] = snap[n]
    BY <2>1 DEF LogFits
  <2>2. CASE \E m \in DOMAIN g : n = Len(snap) + m /\ Loaded[n] = g[m]
    <3>1. PICK m \in DOMAIN g : Loaded[n] = g[m]
      BY <2>2
    <3>2. at[m] \in DOMAIN log /\ Loaded[n] = log[at[m]].ev
      BY <1>3, <1>5, <3>1
    <3>3. i = at[m]
      BY <3>2 DEF LogFits
    <3>. QED  BY <3>2, <3>3
  <2>. QED  BY <1>10, <2>1, <2>2
<1>12. ASSUME NEW i \in DOMAIN log, Parses(log, i) PROVE log[i].ev \in Events(Loaded)
  <2>1. CASE log[i].ev \in Events(snap)
    <3>1. PICK n \in DOMAIN snap : log[i].ev = snap[n]
      BY <2>1 DEF Events
    <3>2. n \in DOMAIN Loaded /\ Loaded[n] = snap[n]
      BY <1>1, <1>10, ListDomain DEF Prefix
    <3>. QED  BY <3>1, <3>2 DEF Events
  <2>2. CASE i \in lines
    <3>1. PICK k \in DOMAIN g : at[k] = i /\ g[k] = log[i].ev
      BY <1>3, <2>2
    <3>. DEFINE n == Len(snap) + k
    <3>2. n \in DOMAIN Loaded /\ n \notin DOMAIN snap
      BY <1>1, <1>2, <1>10, ListDomain
    <3>3. PICK m \in DOMAIN g : n = Len(snap) + m /\ Loaded[n] = g[m]
      BY <1>10, <3>2
    <3>4. m = k
      BY <1>1, <1>2, <3>3, ListDomain
    <3>. QED  BY <3>1, <3>2, <3>3, <3>4 DEF Events
  <2>. QED  BY <1>6, <1>12, <2>1, <2>2
<1>. QED  BY <1>9, <1>10, <1>11, <1>12

\* When the instance can be loaded, a line that the trimmed log still has parses.
LEMMA TrimmedParses ==
  ASSUME NEW l \in Seq(Chunks), \A i \in DOMAIN l \ LastLine(l) : Parses(l, i)
  PROVE  /\ Trimmed(l) \in Seq(Chunks)
         /\ \A i \in DOMAIN Trimmed(l) :
              i \in DOMAIN l /\ Trimmed(l)[i] = l[i] /\ Parses(l, i)
<1>. DEFINE last == LastLine(l)
            k == Cardinality(last)
            short == \E i \in last : StartsLine(l, i) /\ ~Parses(l, i)
<1>1. PICK N \in Nat : N = Len(l) /\ DOMAIN l = 1..N
  OBVIOUS
<1>2. /\ last \in SUBSET (1..N)
      /\ \A i \in 1..N : i \in last <=> \A j \in i..(N - 1) : ~l[j].nl
  BY <1>1 DEF LastLine
<1>3. IsFiniteSet(last) /\ k \in Nat
  BY <1>1, <1>2, RankIsBijection
<1>4. Trimmed(l) = IF short THEN SubSeq(l, 1, N - k) ELSE l
  BY <1>1 DEF Trimmed
<1>5. k <= N
  <2>1. IsFiniteSet(1..N) /\ Cardinality(1..N) = N
    <3>1. 1 \in Int /\ N \in Int /\ N \in Nat
      OBVIOUS
    <3>. QED  BY <3>1, FS_Interval
  <2>. QED  BY <1>2, <2>1, FS_Subset
<1>. HIDE DEF last, k
<1>6. CASE short
  <2>. DEFINE m == SubSeq(l, 1, N - k)
  <2>1. /\ m \in Seq(Chunks) /\ Len(m) = N - k /\ DOMAIN m = 1..(N - k)
        /\ \A i \in 1..(N - k) : m[i] = l[i]
    BY <1>1, <1>3, <1>5, SubSeqProperties
  <2>2. ASSUME NEW i \in 1..(N - k) PROVE i \notin last
    <3>1. SUFFICES ASSUME i \in last PROVE FALSE
      OBVIOUS
    <3>2. i \in 1..N /\ i..N \in SUBSET (1..N)
      BY <1>1, <1>3, <1>5
    <3>3. \A j \in i..N : j \in last
      BY <1>1, <1>2, <3>1, <3>2
    <3>4. i..N \in SUBSET last
      BY <3>3
    <3>5. Cardinality(i..N) = N - i + 1
      BY <1>1, <3>2, FS_Interval
    <3>6. Cardinality(i..N) <= k
      BY <1>3, <3>4, FS_Subset DEF k
    <3>. QED  BY <1>1, <1>3, <1>5, <3>5, <3>6
  <2>3. ASSUME NEW i \in 1..(N - k) PROVE i \in DOMAIN l /\ Parses(l, i)
    BY <1>1, <1>3, <1>5, <2>2 DEF last
  <2>. QED  BY <1>4, <1>6, <2>1, <2>3
<1>7. CASE ~short
  <2>. SUFFICES ASSUME NEW i \in 1..N, i \in last PROVE Parses(l, i)
    BY <1>1, <1>4, <1>7 DEF last
  <2>1. PICK m \in last : \A j \in last : m <= j
    BY <1>1, <1>2, LeastExists
  <2>2. m \in 1..N /\ \A j \in m..(N - 1) : ~l[j].nl
    BY <1>2
  <2>3. StartsLine(l, m)
    <3>1. SUFFICES ASSUME m # 1, ~l[m - 1].nl PROVE FALSE
      BY DEF StartsLine
    <3>2. m - 1 \in 1..N
      BY <1>1, <2>2, <3>1
    <3>3. \A j \in (m - 1)..(N - 1) : ~l[j].nl
      BY <1>1, <2>2, <3>1
    <3>4. m - 1 \in last
      BY <1>2, <3>2, <3>3
    <3>. QED  BY <2>1, <2>2, <3>4
  <2>4. Parses(l, m)
    BY <1>7, <2>3
  <2>5. m = N
    <3>1. l[m].nl \/ m = N
      BY <1>1, <2>4 DEF Parses
    <3>. QED  BY <1>1, <2>2, <3>1
  <2>6. i = m
    BY <1>1, <2>1, <2>5
  <2>. QED  BY <2>4, <2>6
<1>. QED  BY <1>6, <1>7

-----------------------------------------------------------------------------
\* A load may trim the log and write what it found back.
LEMMA LoadKeepsTold ==
  ASSUME StIInv, StIInv', FilesTold, ~Unreadable, Trim, acked' = acked,
         \/ snap' \in {snap, Loaded} /\ durable' = durable
         \/ snap' = Loaded /\ durable' = Loaded
  PROVE  FilesTold'
<1>1. /\ IsList(snap) /\ IsList(durable) /\ IsList(Loaded) /\ IsList(snap') /\ IsList(durable')
      /\ log \in Seq(Chunks)
  BY LoadTells DEF FilesTold, StIInv, Lists
<1>2. Told(Loaded) /\ Prefix(snap, Loaded) /\ LogFits(log, Loaded)
  BY LoadTells DEF FilesTold
<1>3. \A i \in DOMAIN log' : i \in DOMAIN log /\ log'[i].ev = log[i].ev
  BY <1>1, TrimmedParses DEF Trim, Unreadable
<1>4. Prefix(snap', Loaded)
  BY <1>2 DEF Prefix
<1>5. LogFits(log', snap')
  BY <1>1, <1>2, <1>3, <1>4, FitsShorter
<1>6. Told(snap')
  BY <1>2 DEF FilesTold
<1>7. Prefix(durable', snap')
  <2>1. Prefix(durable, snap) /\ Prefix(durable, Loaded)
    BY <1>1, <1>2, PrefixTransitive DEF FilesTold
  <2>2. Prefix(Loaded, Loaded)
    BY <1>1, ListDomain DEF Prefix
  <2>. QED  BY <2>1, <2>2
<1>8. Stands(snap', acked)
  BY <1>1, <1>2, <1>6, StandsLonger DEF FilesTold, Stands, NoStaleCommit
<1>. QED  BY <1>5, <1>6, <1>7, <1>8 DEF FilesTold, Stands, NoStaleCommit

\* A batch is computed from what was loaded, and nothing of it is written yet.
LEMMA LoadStartsWork ==
  ASSUME StIInv, FilesTold, ~Unreadable, Trim, NEW p \in Procs, NEW c \in Commands,
         c \notin CommandsOf(Loaded), snap' \in {snap, Loaded}, pre' = Loaded,
         job' = [job EXCEPT ![p] = [step |-> "append", cmd |-> c,
                   base |-> Len(Loaded), idx |-> 1, err |-> FALSE]]
  PROVE  WorkFits(p)'
<1>1. IsList(snap) /\ IsList(Loaded) /\ log \in Seq(Chunks)
  BY LoadTells DEF FilesTold, StIInv, Lists
<1>2. /\ Told(Loaded) /\ Prefix(snap, Loaded)
      /\ \A i \in DOMAIN log : Parses(log, i) => log[i].ev \in Events(Loaded)
  BY LoadTells DEF FilesTold
<1>3. \A i \in DOMAIN log' : log'[i].ev \in Events(Loaded)
  <2>1. \A i \in DOMAIN log' : i \in DOMAIN log /\ log'[i] = log[i] /\ Parses(log, i)
    BY <1>1, TrimmedParses DEF Trim, Unreadable
  <2>. QED  BY <1>2, <2>1
<1>4. Prefix(snap', Loaded)
  <2>1. Prefix(Loaded, Loaded)
    BY <1>1, ListDomain DEF Prefix
  <2>. QED  BY <1>2, <2>1
<1>5. /\ job'[p].step = "append" /\ job'[p].cmd = c /\ job'[p].base = Len(Loaded)
      /\ job'[p].idx = 1
  BY DEF StIInv, JobShapes
<1>6. 1 \in 1..(Size[c] + 1)
  BY StoreAssumption
<1>. QED  BY <1>2, <1>3, <1>4, <1>5, <1>6 DEF WorkFits

\* Nobody writes a batch while the lock is free.
LEMMA NobodyWorks ==
  ASSUME StIInv, holder = NoProc, NEW p \in Procs
  PROVE  ~Working(p)
BY StoreAssumption DEF StIInv, HolderWorks

\* The lock admits one writer.
LEMMA OneWorks ==
  ASSUME StIInv, NEW p \in Procs, NEW q \in Procs, Working(p), Working(q)
  PROVE  p = q
BY DEF StIInv, HolderWorks

\* loadCurrent, the refresh after a conflict, and the load of a sweep.
LEMMA LoadingHist ==
  ASSUME StIInv, StIInv', HistIInv, NEW p \in Procs, NEW c \in Commands,
         Read(p, c) \/ Sweep(p, c) \/ Refresh(p)
  PROVE  HistIInv'
<1>1. /\ Trim /\ UNCHANGED <<snap, durable, acked>> /\ holder = NoProc /\ ~Unreadable
      /\ job \in [Procs -> {job[q] : q \in Procs}]
  BY DEF Read, Sweep, Refresh, StIInv, JobShapes
<1>2. FilesTold'
  BY <1>1, LoadKeepsTold DEF HistIInv
<1>3. \A q \in Procs : ~Working(q)
  BY <1>1, NobodyWorks
<1>4. CASE Read(p, c) \/ Refresh(p)
  <2>1. job'[p].step = "ready" /\ \A q \in Procs : q # p => job'[q] = job[q]
    BY <1>1, <1>4 DEF Read, Refresh
  <2>2. \A q \in Procs : ~Working(q)'
    BY <1>3, <2>1 DEF Working
  <2>. QED  BY <1>2, <2>2 DEF HistIInv
<1>5. CASE Sweep(p, c)
  <2>1. WorkFits(p)'
    BY <1>1, <1>5, LoadStartsWork DEF Sweep, HistIInv
  <2>2. \A q \in Procs : q # p => ~Working(q)'
    BY <1>1, <1>3, <1>5 DEF Working, Sweep
  <2>. QED  BY <1>2, <2>1, <2>2 DEF HistIInv
<1>. QED  BY <1>4, <1>5

\* A call that fails stops working; the others did not.
LEMMA FailStops ==
  ASSUME StIInv, NEW p \in Procs, Fail(p), \A q \in Procs : q # p => ~Working(q)
  PROVE  \A q \in Procs : ~Working(q)'
<1>1. job'[p] = Idle /\ \A q \in Procs : q # p => job'[q] = job[q]
  BY DEF Fail, StIInv, JobShapes
<1>. QED  BY <1>1 DEF Working, Idle

\* applyLocked up to Apply: a batch is started on what was loaded.
LEMMA OpenHist ==
  ASSUME StIInv, StIInv', HistIInv, NEW p \in Procs, Open(p)
  PROVE  HistIInv'
<1>. DEFINE c == job[p].cmd
            b == job[p].base
            r == [step |-> "append", cmd |-> c, base |-> b, idx |-> 1, err |-> FALSE]
            s == [step |-> "conflict", cmd |-> c]
<1>1. /\ Trim /\ snap' = Loaded /\ durable' \in {durable, Loaded} /\ holder = NoProc
      /\ ~Unreadable /\ acked' = acked /\ c \in Commands
  BY JobFields DEF Open, Fail
<1>2. FilesTold'
  BY <1>1, LoadKeepsTold DEF HistIInv
<1>3. \A q \in Procs : ~Working(q)
  BY <1>1, NobodyWorks
<1>4. \/ /\ b = Len(Loaded) /\ c \notin CommandsOf(Loaded)
         /\ job' = [job EXCEPT ![p] = r] /\ pre' = Loaded
      \/ job' = [job EXCEPT ![p] = s]
      \/ Fail(p)
  BY DEF Open, ExpectedRevision, FreshKey
<1>. HIDE DEF c, b
<1>5. CASE /\ b = Len(Loaded) /\ c \notin CommandsOf(Loaded)
           /\ job' = [job EXCEPT ![p] = r] /\ pre' = Loaded
  <2>1. WorkFits(p)'
    BY <1>1, <1>5, LoadStartsWork DEF HistIInv
  <2>2. \A q \in Procs : q # p => ~Working(q)'
    BY <1>3, <1>5 DEF Working, StIInv, JobShapes
  <2>. QED  BY <1>2, <2>1, <2>2 DEF HistIInv
<1>6. CASE job' = [job EXCEPT ![p] = s]
  <2>1. job'[p].step = "conflict" /\ \A q \in Procs : q # p => job'[q] = job[q]
    BY <1>6 DEF StIInv, JobShapes
  <2>2. \A q \in Procs : ~Working(q)'
    BY <1>3, <2>1 DEF Working
  <2>. QED  BY <1>2, <2>2 DEF HistIInv
<1>7. CASE Fail(p)
  BY <1>2, <1>3, <1>7, FailStops DEF HistIInv
<1>. QED  BY <1>4, <1>5, <1>6, <1>7

\* The write-back of the replayed snapshot fails.
LEMMA OpenFailsHist ==
  ASSUME StIInv, StIInv', HistIInv, NEW p \in Procs, OpenFails(p)
  PROVE  HistIInv'
<1>1. /\ Trim /\ snap' \in {snap, Loaded} /\ durable' = durable
      /\ holder = NoProc /\ ~Unreadable /\ acked' = acked /\ Fail(p)
  BY DEF OpenFails, Fail
<1>2. FilesTold'
  BY <1>1, LoadKeepsTold DEF HistIInv
<1>3. \A q \in Procs : ~Working(q)'
  BY <1>1, NobodyWorks, FailStops
<1>. QED  BY <1>2, <1>3 DEF HistIInv

\* Restart recovery without a stale lease.
LEMMA RecoverHist ==
  ASSUME StIInv, StIInv', HistIInv, Looks
  PROVE  HistIInv'
<1>1. /\ Trim /\ holder = NoProc /\ ~Unreadable /\ acked' = acked /\ job' = job
      /\ \/ snap' = Loaded /\ durable' = Loaded
         \/ snap' = snap /\ durable' = durable
  BY DEF Looks, Recover, Repeat
<1>2. FilesTold'
  BY <1>1, LoadKeepsTold DEF HistIInv
<1>3. \A q \in Procs : ~Working(q)'
  BY <1>1, NobodyWorks DEF Working
<1>. QED  BY <1>2, <1>3 DEF HistIInv

-----------------------------------------------------------------------------
\* Nothing but what the processes are doing changed, and nobody works.
LEMMA RestHist ==
  ASSUME HistIInv, UNCHANGED <<log, snap, durable, acked>>, \A q \in Procs : ~Working(q)'
  PROVE  HistIInv'
<1>1. FilesTold'
  BY DEF HistIInv, FilesTold, LogFits, Told, Once, Prefix, NoStaleCommit, Pair, Numbered
<1>. QED  BY <1>1 DEF HistIInv

\* A command that cannot be applied is given up by a process that writes nothing.
LEMMA GiveUpHist ==
  ASSUME StIInv, HistIInv, NEW p \in Procs, GiveUp(p)
  PROVE  HistIInv'
<1>1. /\ job[p].step \in {"conflict", "ready"} /\ UNCHANGED <<log, snap, durable, acked>>
      /\ Fail(p) /\ ~Working(p)
  BY DEF GiveUp, Fail, Working
<1>2. job'[p] = Idle /\ \A q \in Procs : q # p => job'[q] = job[q]
  BY <1>1 DEF Fail, StIInv, JobShapes
<1>3. FilesTold'
  BY <1>1 DEF HistIInv, FilesTold, LogFits, Told, Once, Prefix, NoStaleCommit, Pair, Numbered
<1>4. ASSUME NEW q \in Procs, Working(q)' PROVE WorkFits(q)'
  <2>1. q # p /\ job'[q] = job[q] /\ Working(q)
    BY <1>2, <1>4 DEF Working, Idle
  <2>2. holder = q
    BY <2>1 DEF StIInv, HolderWorks
  <2>3. pre' = pre
    BY <1>1, <2>1, <2>2 DEF Fail
  <2>4. WorkFits(q)
    BY <2>1 DEF HistIInv
  <2>5. Batch(q)' = Batch(q) /\ \A k : Event(q, k)' = Event(q, k)
    BY <2>1 DEF Batch, Event
  <2>6. /\ Told(pre)' /\ Prefix(snap, pre)' = Prefix(snap, pre)
        /\ CommandsOf(pre)' = CommandsOf(pre) /\ Events(pre)' = Events(pre)
    BY <1>1, <2>3, <2>4 DEF WorkFits, Told, Once, Prefix, CommandsOf, Events, Pair, Numbered
  <2>. QED  BY <1>1, <2>1, <2>3, <2>4, <2>5, <2>6 DEF WorkFits
<1>. QED  BY <1>3, <1>4 DEF HistIInv

\* A write adds at most one chunk to the log, of the event that is written.
LEMMA WriteAdds ==
  ASSUME StIInv, NEW e,
         \/ log' = Append(log, Chunk(e, TRUE, TRUE))
         \/ \E rest \in Partial(e) : log' = log \o rest
  PROVE  \A i \in DOMAIN log' :
           \/ i \in DOMAIN log /\ log'[i] = log[i]
           \/ i = Len(log) + 1 /\ log'[i].ev = e
<1>1. PICK N \in Nat : N = Len(log) /\ DOMAIN log = 1..N
  BY DEF StIInv, Lists
<1>2. log \in Seq(Chunks)
  BY DEF StIInv, Lists
<1>3. ASSUME NEW x, x.ev = e, log' = Append(log, x)
      PROVE  \A i \in DOMAIN log' :
               \/ i \in DOMAIN log /\ log'[i] = log[i]
               \/ i = Len(log) + 1 /\ log'[i].ev = e
  <2>. DEFINE S == Chunks \cup {x}
  <2>1. log \in Seq(S) /\ x \in S
    BY <1>2
  <2>. HIDE DEF S
  <2>2. /\ DOMAIN log' = 1..(N + 1) /\ log'[N + 1] = x
        /\ \A i \in 1..N : log'[i] = log[i]
    BY <1>1, <1>3, <2>1
  <2>. QED  BY <1>1, <1>3, <2>2
<1>4. ASSUME NEW x, log' = log \o <<x>> PROVE log' = Append(log, x)
  <2>. DEFINE S == Chunks \cup {x}
  <2>1. log \in Seq(S) /\ x \in S
    BY <1>2
  <2>. HIDE DEF S
  <2>. QED  BY <1>4, <2>1
<1>5. \A w, n \in BOOLEAN : Chunk(e, w, n).ev = e
  BY DEF Chunk
<1>6. CASE log' = Append(log, Chunk(e, TRUE, TRUE))
  BY <1>3, <1>5, <1>6
<1>7. CASE \E rest \in Partial(e) : log' = log \o rest
  <2>1. PICK rest \in Partial(e) : log' = log \o rest
    BY <1>7
  <2>2. CASE rest = << >>
    <3>1. log' = log
      BY <1>2, <2>1, <2>2
    <3>. QED  BY <3>1
  <2>3. CASE \E w, n \in BOOLEAN : rest = <<Chunk(e, w, n)>>
    BY <1>3, <1>4, <1>5, <2>1, <2>3
  <2>. QED  BY <2>2, <2>3 DEF Partial
<1>. QED  BY <1>6, <1>7

\* The event that is written is in no history and not in the log yet.
LEMMA WriteFits ==
  ASSUME StIInv, HistIInv, NEW p \in Procs, job[p].step = "append",
         job[p].idx <= Size[job[p].cmd],
         \A i \in DOMAIN log' :
           \/ i \in DOMAIN log /\ log'[i] = log[i]
           \/ i = Len(log) + 1 /\ log'[i].ev = Event(p, job[p].idx)
  PROVE  LogFits(log', snap)
<1>. DEFINE x == job[p].idx
            e == Event(p, x)
            c == job[p].cmd
<1>1. /\ WorkFits(p) /\ LogFits(log, snap) /\ IsList(snap) /\ IsList(pre)
      /\ Pair(e) = <<c, x>> /\ c \in Commands
  BY JobFields DEF HistIInv, FilesTold, Working, StIInv, Lists, Event, Pair
<1>2. x \in 1..Size[c]
  BY <1>1, StoreAssumption DEF WorkFits
<1>3. \A n \in DOMAIN pre : pre[n].cmd # c
  BY <1>1 DEF WorkFits, CommandsOf
<1>4. \A n \in DOMAIN snap : snap[n].cmd # c
  <2>1. \A n \in DOMAIN snap : n \in DOMAIN pre /\ pre[n] = snap[n]
    BY <1>1, ListDomain DEF WorkFits, Prefix
  <2>. QED  BY <1>3, <2>1
<1>5. \A i \in DOMAIN log : Pair(log[i].ev) # <<c, x>>
  <2>1. \A k \in 1..(x - 1) : Pair(Event(p, k)) = <<c, k>> /\ k # x
    BY <1>2 DEF Event, Pair
  <2>2. \A f \in Events(pre) : Pair(f) # <<c, x>>
    BY <1>3 DEF Events, Pair
  <2>. QED  BY <1>1, <2>1, <2>2 DEF WorkFits
<1>6. \A n \in DOMAIN snap : Pair(snap[n]) # <<c, x>>
  BY <1>4 DEF Pair
<1>7. Numbered(e)
  BY <1>2 DEF Numbered, Event
<1>. HIDE DEF x, e, c
<1>8. \A i \in DOMAIN log' : \/ i \in DOMAIN log /\ log'[i] = log[i]
                             \/ i = Len(log) + 1 /\ log'[i].ev = e
  BY DEF e, x
<1>9. \A i, j \in DOMAIN log' : i # j => Pair(log'[i].ev) # Pair(log'[j].ev)
  BY <1>1, <1>5, <1>8 DEF LogFits
<1>10. \A i \in DOMAIN log' : Numbered(log'[i].ev)
  BY <1>1, <1>7, <1>8 DEF LogFits
<1>11. \A i \in DOMAIN log', n \in DOMAIN snap :
         Pair(log'[i].ev) = Pair(snap[n]) => log'[i].ev = snap[n]
  BY <1>1, <1>6, <1>8 DEF LogFits
<1>. QED  BY <1>9, <1>10, <1>11 DEF LogFits

\* One event of the batch is written, whole, in part or not at all.
LEMMA WriteHist ==
  ASSUME StIInv, HistIInv, NEW p \in Procs, WriteEvent(p)
  PROVE  HistIInv'
<1>. DEFINE x == job[p].idx
<1>1. /\ job[p].step = "append" /\ x <= Size[job[p].cmd]
      /\ UNCHANGED <<snap, durable, pre, acked>>
      /\ \/ log' = Append(log, Chunk(Event(p, x), TRUE, TRUE))
         \/ \E rest \in Partial(Event(p, x)) : log' = log \o rest
      /\ \/ job' = [job EXCEPT ![p].idx = x + 1]
         \/ job' = [job EXCEPT ![p].idx = x + 1, ![p].err = TRUE]
  BY DEF WriteEvent
<1>2. \A i \in DOMAIN log' :
        \/ i \in DOMAIN log /\ log'[i] = log[i]
        \/ i = Len(log) + 1 /\ log'[i].ev = Event(p, x)
  BY <1>1, WriteAdds
<1>3. LogFits(log', snap)
  BY <1>1, <1>2, WriteFits
<1>4. FilesTold'
  BY <1>1, <1>3 DEF HistIInv, FilesTold, LogFits, Told, Once, Prefix, NoStaleCommit, Pair, Numbered
<1>5. /\ Working(p) /\ WorkFits(p)
      /\ job[p] \in [step : {"append", "replace", "commit"}, cmd : Commands,
                     base : Nat, idx : Nat, err : BOOLEAN]
  BY <1>1, JobFields DEF Working, HistIInv
<1>6. /\ job'[p].step = "append" /\ job'[p].cmd = job[p].cmd /\ job'[p].base = job[p].base
      /\ job'[p].idx = x + 1
      /\ \A q \in Procs : q # p => job'[q] = job[q]
  <2>1. job \in [Procs -> {job[q] : q \in Procs}]
    BY DEF StIInv, JobShapes
  <2>2. CASE job' = [job EXCEPT ![p].idx = x + 1]
    BY <1>1, <1>5, <2>1, <2>2
  <2>3. CASE job' = [job EXCEPT ![p].idx = x + 1, ![p].err = TRUE]
    BY <1>1, <1>5, <2>1, <2>3
  <2>. QED  BY <1>1, <2>2, <2>3
<1>7. \A k : Event(p, k)' = Event(p, k)
  BY <1>6 DEF Event
<1>8. \A i \in DOMAIN log' : \/ log'[i].ev \in Events(pre)
                             \/ \E k \in 1..x : log'[i].ev = Event(p, k)
  <2>1. x \in 1..x /\ \A k \in 1..(x - 1) : k \in 1..x
    BY <1>5 DEF WorkFits
  <2>. QED  BY <1>2, <1>5, <2>1 DEF WorkFits
<1>9. WorkFits(p)'
  <2>1. x + 1 \in 1..(Size[job[p].cmd] + 1) /\ (x + 1) - 1 = x
    BY <1>1, <1>5, StoreAssumption
  <2>2. \A i \in DOMAIN log' :
           \/ log'[i].ev \in Events(pre)'
           \/ \E k \in 1..(job'[p].idx - 1) : log'[i].ev = Event(p, k)'
    BY <1>1, <1>6, <1>7, <1>8, <2>1 DEF Events
  <2>3. /\ job'[p].base = Len(pre)' /\ job'[p].cmd \notin CommandsOf(pre)'
        /\ Told(pre)' /\ Prefix(snap, pre)'
    BY <1>1, <1>5, <1>6 DEF WorkFits, CommandsOf, Told, Once, Numbered, Pair, Prefix
  <2>. QED  BY <1>6, <2>1, <2>2, <2>3 DEF WorkFits
<1>10. \A q \in Procs : q # p => ~Working(q)'
  BY <1>5, <1>6, OneWorks DEF Working
<1>. QED  BY <1>4, <1>9, <1>10 DEF HistIInv

\* The whole batch is in the log when it is synced.
LEMMA SyncHist ==
  ASSUME StIInv, HistIInv, NEW p \in Procs, Sync(p)
  PROVE  HistIInv'
<1>1. /\ job[p].step = "append" /\ job[p].idx > Size[job[p].cmd]
      /\ UNCHANGED <<log, snap, durable, acked>>
      /\ \/ Fail(p)
         \/ job' = [job EXCEPT ![p].step = "replace"] /\ UNCHANGED pre
  BY DEF Sync, Fail
<1>2. /\ Working(p) /\ WorkFits(p)
      /\ job[p] \in [step : {"append", "replace", "commit"}, cmd : Commands,
                     base : Nat, idx : Nat, err : BOOLEAN]
  BY <1>1, JobFields DEF Working, HistIInv
<1>3. \A q \in Procs : q # p => ~Working(q)
  BY <1>2, OneWorks
<1>4. CASE Fail(p)
  BY <1>1, <1>3, <1>4, FailStops, RestHist
<1>5. CASE job' = [job EXCEPT ![p].step = "replace"] /\ UNCHANGED pre
  <2>1. /\ job'[p].step = "replace" /\ job'[p].cmd = job[p].cmd /\ job'[p].base = job[p].base
        /\ job'[p].idx = job[p].idx
        /\ \A q \in Procs : q # p => job'[q] = job[q]
    BY <1>2, <1>5 DEF StIInv, JobShapes
  <2>2. FilesTold'
    BY <1>1 DEF HistIInv, FilesTold, LogFits, Told, Once, Prefix, NoStaleCommit, Pair, Numbered
  <2>3. \A k : Event(p, k)' = Event(p, k)
    BY <2>1 DEF Event
  <2>4. job[p].idx = Size[job[p].cmd] + 1
    BY <1>1, <1>2, StoreAssumption DEF WorkFits
  <2>5. /\ Told(pre)' /\ Prefix(snap, pre)' = Prefix(snap, pre)
        /\ CommandsOf(pre)' = CommandsOf(pre) /\ Events(pre)' = Events(pre)
    BY <1>1, <1>2, <1>5 DEF WorkFits, Told, Once, Prefix, CommandsOf, Events, Pair, Numbered
  <2>6. WorkFits(p)'
    BY <1>1, <1>2, <1>5, <2>1, <2>3, <2>4, <2>5 DEF WorkFits
  <2>7. \A q \in Procs : q # p => ~Working(q)'
    BY <1>3, <2>1 DEF Working
  <2>. QED  BY <2>2, <2>6, <2>7 DEF HistIInv
<1>. QED  BY <1>1, <1>4, <1>5

\* The loaded history with the batch of its command tells every event once, and
\* the log holds nothing else.
LEMMA BatchFits ==
  ASSUME StIInv, HistIInv, NEW p \in Procs, job[p].step = "replace"
  PROVE  /\ IsList(pre \o Batch(p)) /\ Told(pre \o Batch(p)) /\ Prefix(pre, pre \o Batch(p))
         /\ LogFits(log, pre \o Batch(p))
<1>. DEFINE c == job[p].cmd
            b == Batch(p)
            h == pre \o b
<1>1. /\ WorkFits(p) /\ LogFits(log, snap) /\ IsList(pre) /\ c \in Commands
      /\ Size[c] \in Nat /\ job[p].idx = Size[c] + 1
  BY JobFields, StoreAssumption DEF HistIInv, FilesTold, Working, WorkFits, StIInv, Lists
<1>2. b = [i \in 1..Size[c] |-> Event(p, i)] /\ \A i : Pair(Event(p, i)) = <<c, i>>
  BY DEF Batch, Event, Pair
<1>3. \A i \in 1..Size[c] : Numbered(Event(p, i))
  BY DEF Numbered, Event
<1>4. \A n \in DOMAIN pre : Pair(pre[n])[1] # c
  BY <1>1 DEF WorkFits, CommandsOf, Pair
<1>5. Told(pre) /\ \A i \in DOMAIN log : \/ log[i].ev \in Events(pre)
                                         \/ \E k \in 1..Size[c] : log[i].ev = Event(p, k)
  BY <1>1 DEF WorkFits
<1>. HIDE DEF b, c
<1>6. DOMAIN b = 1..Size[c] /\ \A i \in 1..Size[c] : b[i] = Event(p, i)
  BY <1>2
<1>7. IsList(b)
  <2>1. b \in [1..Size[c] -> Events(b)]
    BY <1>2, <1>6 DEF Events
  <2>. QED  BY <1>1, <2>1 DEF IsList
<1>8. Told(b)
  BY <1>2, <1>3, <1>6 DEF Told, Once
<1>9. \A m \in DOMAIN pre, n \in DOMAIN b : Pair(pre[m]) # Pair(b[n])
  BY <1>2, <1>4, <1>6
<1>10. Told(h)
  BY <1>1, <1>5, <1>7, <1>8, <1>9, ToldJoined
<1>. HIDE DEF h
<1>11. /\ IsList(h) /\ Prefix(pre, h)
       /\ \A n \in DOMAIN h :
              \/ n \in DOMAIN pre /\ h[n] = pre[n]
              \/ \E m \in DOMAIN b : n = Len(pre) + m /\ h[n] = b[m]
  <2>1. h = pre \o b
    BY DEF h
  <2>. QED  BY <1>1, <1>7, <2>1, Joined
<1>12. ASSUME NEW i \in DOMAIN log, NEW n \in DOMAIN h, Pair(log[i].ev) = Pair(h[n])
       PROVE  log[i].ev = h[n]
  <2>1. CASE n \in DOMAIN pre /\ h[n] = pre[n]
    <3>1. CASE log[i].ev \in Events(pre)
      <4>1. PICK m \in DOMAIN pre : log[i].ev = pre[m]
        BY <3>1 DEF Events
      <4>. QED  BY <1>5, <1>12, <2>1, <4>1 DEF Told, Once
    <3>2. CASE \E k \in 1..Size[c] : log[i].ev = Event(p, k)
      BY <1>2, <1>4, <1>12, <2>1, <3>2
    <3>. QED  BY <1>5, <3>1, <3>2
  <2>2. CASE \E m \in DOMAIN b : n = Len(pre) + m /\ h[n] = b[m]
    <3>1. PICK m \in 1..Size[c] : h[n] = Event(p, m)
      BY <1>6, <2>2
    <3>2. CASE log[i].ev \in Events(pre)
      BY <1>2, <1>4, <1>12, <3>1, <3>2 DEF Events
    <3>3. CASE \E k \in 1..Size[c] : log[i].ev = Event(p, k)
      <4>1. PICK k \in 1..Size[c] : log[i].ev = Event(p, k)
        BY <3>3
      <4>2. k = m
        BY <1>2, <1>12, <3>1, <4>1
      <4>. QED  BY <3>1, <4>1, <4>2
    <3>. QED  BY <1>5, <3>2, <3>3
  <2>. QED  BY <1>11, <2>1, <2>2
<1>13. LogFits(log, h)
  BY <1>1, <1>12 DEF LogFits
<1>. QED  BY <1>10, <1>11, <1>13 DEF h, b

\* The rename puts the loaded history and the batch in place of the snapshot.
LEMMA ReplaceHist ==
  ASSUME StIInv, StIInv', HistIInv, NEW p \in Procs, Replace(p)
  PROVE  HistIInv'
<1>. DEFINE h == pre \o Batch(p)
<1>1. /\ job[p].step = "replace" /\ UNCHANGED <<log, durable, acked>>
      /\ \/ snap' = h /\ job' = [job EXCEPT ![p].step = "commit"] /\ UNCHANGED pre
         \/ Fail(p) /\ snap' = snap
  BY DEF Replace, Fail
<1>2. /\ Working(p) /\ WorkFits(p) /\ FilesTold
      /\ job[p] \in [step : {"append", "replace", "commit"}, cmd : Commands,
                     base : Nat, idx : Nat, err : BOOLEAN]
  BY <1>1, JobFields DEF Working, HistIInv
<1>3. \A q \in Procs : q # p => ~Working(q)
  BY <1>2, OneWorks
<1>4. CASE Fail(p) /\ snap' = snap
  BY <1>1, <1>3, <1>4, FailStops, RestHist
<1>5. CASE snap' = h /\ job' = [job EXCEPT ![p].step = "commit"] /\ UNCHANGED pre
  <2>1. /\ job'[p].step = "commit" /\ job'[p].cmd = job[p].cmd /\ job'[p].base = job[p].base
        /\ job'[p].idx = job[p].idx
        /\ \A q \in Procs : q # p => job'[q] = job[q]
    BY <1>2, <1>5 DEF StIInv, JobShapes
  <2>2. IsList(h) /\ Told(h) /\ Prefix(pre, h) /\ LogFits(log, h)
    BY <1>1, BatchFits
  <2>3. IsList(pre) /\ IsList(snap) /\ IsList(durable) /\ Prefix(snap, pre) /\ Prefix(durable, snap)
    BY <1>1, <1>2 DEF WorkFits, StIInv, Lists, FilesTold
  <2>4. \A k : Event(p, k)' = Event(p, k)
    BY <2>1 DEF Event
  <2>5. Batch(p)' = Batch(p)
    BY <2>1 DEF Batch, Event
  <2>. HIDE DEF h
  <2>6. Prefix(snap, h) /\ Prefix(durable, h)
    BY <2>2, <2>3, PrefixTransitive
  <2>7. Stands(h, acked)
    BY <1>2, <2>2, <2>6, StandsLonger DEF FilesTold
  <2>8. FilesTold'
    <3>1. LogFits(log, snap)' /\ Told(snap)' /\ Prefix(durable, snap)'
      BY <1>1, <1>5, <2>2, <2>6 DEF LogFits, Told, Once, Prefix, Pair, Numbered
    <3>2. NoStaleCommit'
      BY <1>1, <1>5, <2>7 DEF NoStaleCommit, Stands
    <3>. QED  BY <3>1, <3>2 DEF FilesTold
  <2>9. /\ Told(pre)' /\ CommandsOf(pre)' = CommandsOf(pre) /\ Events(pre)' = Events(pre)
        /\ Len(pre)' = Len(pre) /\ snap' = pre' \o Batch(p)'
    BY <1>2, <1>5, <2>5 DEF WorkFits, Told, Once, CommandsOf, Events, Pair, Numbered, h
  <2>10. WorkFits(p)'
    BY <1>1, <1>2, <2>1, <2>4, <2>9 DEF WorkFits
  <2>11. \A q \in Procs : q # p => ~Working(q)'
    BY <1>3, <2>1 DEF Working
  <2>. QED  BY <2>8, <2>10, <2>11 DEF HistIInv
<1>. QED  BY <1>1, <1>4, <1>5

\* The command that is reported stands at the end of the snapshot, on what its
\* caller read.
LEMMA CommitHist ==
  ASSUME StIInv, StIInv', HistIInv, NEW p \in Procs, Commit(p)
  PROVE  HistIInv'
<1>1. /\ job[p].step = "commit" /\ UNCHANGED <<log, snap>>
      /\ \/ /\ durable' = snap /\ acked' = acked \cup {job[p].cmd}
            /\ job' = [job EXCEPT ![p] = Idle]
         \/ Fail(p) /\ durable' = durable /\ acked' = acked
  BY DEF Commit, FsyncDir, Fail
<1>2. Working(p) /\ WorkFits(p) /\ FilesTold /\ job[p].cmd \in Commands
  BY <1>1, JobFields DEF Working, HistIInv
<1>3. \A q \in Procs : q # p => ~Working(q)
  BY <1>2, OneWorks
<1>4. CASE Fail(p) /\ durable' = durable /\ acked' = acked
  BY <1>1, <1>3, <1>4, FailStops, RestHist
<1>5. CASE /\ durable' = snap /\ acked' = acked \cup {job[p].cmd}
           /\ job' = [job EXCEPT ![p] = Idle]
  <2>. DEFINE c == job[p].cmd
              b == Batch(p)
  <2>1. /\ IsList(snap) /\ IsList(pre) /\ snap = pre \o b /\ c \notin CommandsOf(pre)
        /\ Size[c] \in Nat /\ job[p].base = Len(pre)
    BY <1>1, <1>2, StoreAssumption DEF WorkFits, StIInv, Lists
  <2>2. b = [i \in 1..Size[c] |-> Event(p, i)]
        /\ \A i : Event(p, i).idx = i /\ Event(p, i).base = Len(pre)
    BY <2>1 DEF Batch, Event
  <2>. HIDE DEF b
  <2>3. DOMAIN b = 1..Size[c] /\ \A i \in 1..Size[c] : b[i].idx = i /\ b[i].base = Len(pre)
    BY <2>2
  <2>4. IsList(b)
    <3>. HIDE DEF c
    <3>1. \A i \in 1..Size[c] : b[i] \in Events(b)
      BY <2>3 DEF Events
    <3>2. b \in [1..Size[c] -> Events(b)]
      BY <2>2, <3>1
    <3>. QED  BY <2>1, <3>2 DEF IsList
  <2>5. \A n \in DOMAIN snap :
          \/ n \in DOMAIN pre /\ snap[n] = pre[n]
          \/ \E m \in DOMAIN b : n = Len(pre) + m /\ snap[n] = b[m]
    BY <2>1, <2>4, Joined
  <2>6. ASSUME NEW n \in DOMAIN snap, snap[n].cmd = c PROVE n = snap[n].base + snap[n].idx
    <3>1. ~(n \in DOMAIN pre /\ snap[n] = pre[n])
      BY <2>1, <2>6 DEF CommandsOf
    <3>2. PICK m \in DOMAIN b : n = Len(pre) + m /\ snap[n] = b[m]
      BY <2>5, <3>1
    <3>. QED  BY <2>3, <3>2
  <2>7. NoStaleCommit'
    BY <1>1, <1>2, <1>5, <2>6 DEF FilesTold, NoStaleCommit
  <2>8. LogFits(log, snap)' /\ Told(snap)' /\ Prefix(durable, snap)'
    <3>1. Prefix(snap, snap)
      BY <2>1, ListDomain DEF Prefix
    <3>. QED  BY <1>1, <1>2, <1>5, <3>1 DEF FilesTold, LogFits, Told, Once, Prefix, Pair, Numbered
  <2>9. \A q \in Procs : ~Working(q)'
    BY <1>3, <1>5 DEF Working, Idle, StIInv, JobShapes
  <2>. QED  BY <2>7, <2>8, <2>9 DEF HistIInv, FilesTold
<1>. QED  BY <1>1, <1>4, <1>5

\* The machine dies: the log keeps its lines, or a beginning of them.
LEMMA PowerKeepsLines ==
  ASSUME StIInv, PowerLoss
  PROVE  \A i \in DOMAIN log' : i \in DOMAIN log /\ log'[i].ev = log[i].ev
<1>0. log \in Seq(Chunks) /\ synced \in Nat
  BY DEF StIInv, Lists
<1>1. PICK n \in synced..Len(log) :
        \/ log' = SubSeq(log, 1, n)
        \/ /\ n < Len(log)
           /\ log' = Append(SubSeq(log, 1, n), Chunk(log[n + 1].ev, FALSE, FALSE))
  BY DEF PowerLoss
<1>2. PICK N \in Nat : N = Len(log) /\ DOMAIN log = 1..N
  BY <1>0
<1>3. n \in Nat /\ n <= N
  BY <1>0, <1>2
<1>. DEFINE l == SubSeq(log, 1, n)
            x == Chunk(log[n + 1].ev, FALSE, FALSE)
            S == Chunks \cup {x}
<1>4. l \in Seq(Chunks) /\ DOMAIN l = 1..n /\ Len(l) = n /\ \A i \in 1..n : l[i] = log[i]
  BY <1>0, <1>2, <1>3, SubSeqProperties
<1>5. x.ev = log[n + 1].ev
  BY DEF Chunk
<1>6. log' = l \/ (n < N /\ log' = Append(l, x))
  BY <1>1, <1>2
<1>. HIDE DEF l, x
<1>7. l \in Seq(S) /\ x \in S
  BY <1>4
<1>. HIDE DEF S
<1>8. CASE log' = l
  BY <1>2, <1>3, <1>4, <1>8
<1>9. CASE n < N /\ log' = Append(l, x)
  <2>1. /\ DOMAIN log' = 1..(n + 1) /\ log'[n + 1] = x
        /\ \A i \in 1..n : log'[i] = l[i]
    BY <1>3, <1>4, <1>7, <1>9
  <2>. QED  BY <1>2, <1>3, <1>4, <1>5, <1>9, <2>1
<1>. QED  BY <1>6, <1>8, <1>9

\* The process or the machine dies, maybe in the middle of a write.
LEMMA CrashHist ==
  ASSUME StIInv, StIInv', HistIInv, ProcessesDie \/ PowerLoss
  PROVE  HistIInv'
<1>0. /\ IsList(snap) /\ IsList(durable) /\ log \in Seq(Chunks) /\ FilesTold
      /\ synced \in Nat
  BY DEF StIInv, Lists, HistIInv
<1>1. acked' = acked /\ \A q \in Procs : ~Working(q)'
  <2>1. acked' = acked /\ job' = [q \in Procs |-> Idle]
    BY DEF ProcessesDie, PowerLoss, Stop
  <2>. QED  BY <2>1 DEF Working, Idle
<1>2. CASE ProcessesDie
  <2>1. UNCHANGED <<snap, durable>>
    BY <1>2 DEF ProcessesDie
  <2>2. LogFits(log', snap)
    <3>1. CASE log' = log
      BY <1>0, <3>1 DEF FilesTold
    <3>2. CASE \E p \in Procs :
                 /\ job[p].step = "append" /\ job[p].idx <= Size[job[p].cmd]
                 /\ \E rest \in Partial(Event(p, job[p].idx)) : log' = log \o rest
      BY <3>2, WriteAdds, WriteFits
    <3>. QED  BY <1>2, <3>1, <3>2 DEF ProcessesDie
  <2>3. FilesTold'
    BY <1>0, <1>1, <2>1, <2>2
       DEF FilesTold, LogFits, Told, Once, Prefix, NoStaleCommit, Pair, Numbered
  <2>. QED  BY <1>1, <2>3 DEF HistIInv
<1>3. CASE PowerLoss
  <2>1. snap' \in {snap, durable} /\ durable' = snap'
    BY <1>3 DEF PowerLoss
  <2>2. \A i \in DOMAIN log' : i \in DOMAIN log /\ log'[i].ev = log[i].ev
    BY <1>3, PowerKeepsLines
  <2>3. Prefix(snap', snap) /\ IsList(snap')
    <3>1. Prefix(snap, snap)
      BY <1>0, ListDomain DEF Prefix
    <3>. QED  BY <1>0, <2>1, <3>1 DEF FilesTold
  <2>4. LogFits(log', snap')
    BY <1>0, <2>2, <2>3, FitsShorter DEF FilesTold
  <2>5. Told(snap')
    BY <1>0, <2>3, ToldShorter DEF FilesTold
  <2>6. Stands(snap', acked)
    BY <1>0, <2>3, StandsShorter DEF FilesTold, NoStaleCommit, Stands
  <2>7. Prefix(durable', snap')
    BY <2>1, <2>3, ListDomain DEF Prefix
  <2>8. FilesTold'
    <3>1. LogFits(log, snap)' /\ Told(snap)' /\ Prefix(durable, snap)'
      BY <2>4, <2>5, <2>7 DEF LogFits, Told, Once, Prefix, Pair, Numbered
    <3>2. NoStaleCommit'
      BY <1>1, <2>6 DEF NoStaleCommit, Stands
    <3>. QED  BY <3>1, <3>2 DEF FilesTold
  <2>. QED  BY <1>1, <2>8 DEF HistIInv
<1>. QED  BY <1>2, <1>3

\* In every reachable state of the store the snapshot tells each event once and
\* begins with what a power loss would restore; the log holds an event once, and
\* where the snapshot has it too it is the same event; the holder of the lock
\* writes a batch that neither of them has; and reported commands stand on the
\* revision their caller read.
THEOREM HistoryInductive == StSpec => []HistIInv
<1>1. StInit => HistIInv
  <2>. SUFFICES ASSUME StInit PROVE HistIInv
    OBVIOUS
  <2>1. FilesTold
    BY DEF StInit, FilesTold, LogFits, Told, Once, Prefix, NoStaleCommit
  <2>2. \A p \in Procs : ~Working(p)
    BY DEF StInit, Working, Idle
  <2>. QED  BY <2>1, <2>2 DEF HistIInv
<1>2. StIInv /\ StIInv' /\ HistIInv /\ [StNext]_stVars => HistIInv'
  <2>. SUFFICES ASSUME StIInv, StIInv', HistIInv, [StNext]_stVars PROVE HistIInv'
    OBVIOUS
  <2>1. CASE UNCHANGED stVars
    <3>1. UNCHANGED <<log, snap, durable, pre, job, acked>>
      BY <2>1 DEF stVars
    <3>2. FilesTold'
      BY <3>1 DEF HistIInv, FilesTold, LogFits, Told, Once, Prefix, NoStaleCommit, Pair, Numbered
    <3>3. ASSUME NEW q \in Procs, Working(q)' PROVE WorkFits(q)'
      <4>1. WorkFits(q)
        BY <3>1, <3>3 DEF HistIInv, Working
      <4>2. Batch(q)' = Batch(q) /\ \A k : Event(q, k)' = Event(q, k)
        BY <3>1 DEF Batch, Event
      <4>3. /\ Told(pre)' /\ Prefix(snap, pre)' = Prefix(snap, pre)
            /\ CommandsOf(pre)' = CommandsOf(pre) /\ Events(pre)' = Events(pre)
        BY <3>1, <4>1 DEF WorkFits, Told, Once, Prefix, CommandsOf, Events, Pair, Numbered
      <4>. QED  BY <3>1, <4>1, <4>2, <4>3 DEF WorkFits
    <3>. QED  BY <3>2, <3>3 DEF HistIInv
  <2>2. ASSUME NEW p \in Procs, NEW c \in Commands, Read(p, c) \/ Sweep(p, c)
        PROVE  HistIInv'
    BY <2>2, LoadingHist
  <2>3. ASSUME NEW p \in Procs, Refresh(p)
        PROVE  HistIInv'
    <3>1. job[p].cmd \in Commands
      BY <2>3, JobFields DEF Refresh
    <3>. QED  BY <2>3, <3>1, LoadingHist
  <2>4. ASSUME NEW p \in Procs, Open(p) \/ OpenFails(p) \/ GiveUp(p) \/ WriteEvent(p)
                                \/ Sync(p) \/ Replace(p) \/ Commit(p)
        PROVE  HistIInv'
    BY <2>4, OpenHist, OpenFailsHist, GiveUpHist, WriteHist, SyncHist, ReplaceHist, CommitHist
  <2>5. CASE Looks
    BY <2>5, RecoverHist
  <2>6. CASE ProcessesDie \/ PowerLoss
    BY <2>6, CrashHist
  <2>. QED  BY <2>1, <2>2, <2>3, <2>4, <2>5, <2>6 DEF StNext, Looks
<1>. QED  BY <1>1, <1>2, StoreInductive, PTL DEF StSpec

\* NoStaleCommit, for any number of processes, commands and faults: a command that
\* was reported stands on the revision its caller computed it from, although
\* torn writes, lost snapshots and replayed lines may come between two commands.
THEOREM NeverStale == StSpec => []NoStaleCommit
<1>1. HistIInv => NoStaleCommit
  BY DEF HistIInv, FilesTold
<1>. QED  BY <1>1, HistoryInductive, PTL

-----------------------------------------------------------------------------
(***************************************************************************)
(* The events at hand: those of the log, of the snapshot, and of what the  *)
(* holder of the lock loaded.  The events of one command are those of one  *)
(* call; and while nothing has failed, each of them belongs to a command   *)
(* that was reported, or is being written.                                 *)
(***************************************************************************)
AtHand == {log[i].ev : i \in DOMAIN log} \cup Events(snap) \cup Events(pre)

AgreeInv ==
  \A e, f \in AtHand : e.cmd = f.cmd => e.by = f.by /\ e.base = f.base

Written(c) == \E p \in Procs : Working(p) /\ job[p].cmd = c

CalmInv ==
  /\ faults \in Nat
  /\ faults = 0 =>
       /\ \A p \in Procs : Working(p) => ~job[p].err
       /\ \A e \in AtHand : e.cmd \in acked \/ Written(e.cmd)

\* What is loaded is at hand, and trimming the log adds nothing.
LEMMA LoadedAtHand ==
  ASSUME StIInv
  PROVE  Events(Loaded) \subseteq AtHand
<1>. DEFINE lines == {i \in DOMAIN log : Parses(log, i) /\ log[i].ev \notin Events(snap)}
            g == InOrder(log, lines)
<1>1. log \in Seq(Chunks) /\ IsList(snap) /\ lines \in SUBSET (DOMAIN log)
  BY DEF StIInv, Lists
<1>2. IsList(g)
  BY <1>1, InOrderIsList
<1>3. PICK at \in [DOMAIN g -> lines] : \A k \in DOMAIN g : g[k] = log[at[k]].ev
  BY <1>1, InOrderTakesEach
<1>4. Loaded = snap \o g
  BY DEF Loaded, Replay
<1>5. \A k \in DOMAIN g : at[k] \in DOMAIN log
  BY <1>1, <1>3
<1>. HIDE DEF lines, g
<1>6. \A n \in DOMAIN Loaded :
        \/ n \in DOMAIN snap /\ Loaded[n] = snap[n]
        \/ \E m \in DOMAIN g : Loaded[n] = g[m]
  BY <1>1, <1>2, <1>4, Joined
<1>. QED  BY <1>3, <1>5, <1>6 DEF AtHand, Events

LEMMA TrimAddsNothing ==
  ASSUME StIInv, Trim, ~Unreadable
  PROVE  {log'[i].ev : i \in DOMAIN log'} \subseteq AtHand
<1>1. log \in Seq(Chunks)
  BY DEF StIInv, Lists
<1>2. \A i \in DOMAIN log' : i \in DOMAIN log /\ log'[i].ev = log[i].ev
  BY <1>1, TrimmedParses DEF Trim, Unreadable
<1>. QED  BY <1>2 DEF AtHand

LEMMA NothingAtHand == Events(<< >>) = {}
BY DEF Events

\* The events that a process at work has at hand of its own command are its own.
LEMMA MineAgree ==
  ASSUME StIInv, HistIInv, NEW p \in Procs, job[p].step \in {"append", "replace"},
         NEW e \in AtHand, e.cmd = job[p].cmd
  PROVE  e.by = p /\ e.base = job[p].base
<1>1. WorkFits(p) /\ IsList(snap) /\ IsList(pre)
  BY DEF HistIInv, Working, StIInv, Lists
<1>2. Events(snap) \subseteq Events(pre)
  BY <1>1, ListDomain DEF WorkFits, Prefix, Events
<1>3. e \notin Events(pre)
  BY <1>1 DEF WorkFits, CommandsOf, Events
<1>4. \E k \in 1..(job[p].idx - 1) : e = Event(p, k)
  BY <1>1, <1>2, <1>3 DEF WorkFits, AtHand
<1>. QED  BY <1>4 DEF Event

\* What a step may add to the events at hand: those of the batch being written.
Adds(p) ==
  /\ job[p].step \in {"append", "replace"}
  /\ AtHand' \subseteq AtHand \cup {Event(p, k) : k \in Nat}

LEMMA LoadingAtHand ==
  ASSUME StIInv, NEW p \in Procs, NEW c \in Commands,
         Read(p, c) \/ Sweep(p, c) \/ Refresh(p) \/ Open(p) \/ OpenFails(p) \/ Looks
  PROVE  AtHand' \subseteq AtHand
<1>1. Trim /\ ~Unreadable /\ snap' \in {snap, Loaded} /\ pre' \in {pre, Loaded, << >>}
  BY DEF Read, Sweep, Refresh, Open, OpenFails, Looks, Recover, Repeat, Fail
<1>2. Events(Loaded) \subseteq AtHand /\ {log'[i].ev : i \in DOMAIN log'} \subseteq AtHand
  BY <1>1, LoadedAtHand, TrimAddsNothing
<1>3. Events(snap)' \subseteq AtHand /\ Events(pre)' \subseteq AtHand
  BY <1>1, <1>2, NothingAtHand DEF AtHand, Events
<1>. QED  BY <1>2, <1>3 DEF AtHand

LEMMA WritingAtHand ==
  ASSUME StIInv, NEW p \in Procs,
         GiveUp(p) \/ WriteEvent(p) \/ Sync(p) \/ Replace(p) \/ Commit(p)
  PROVE  AtHand' \subseteq AtHand \/ Adds(p)
<1>1. CASE UNCHANGED <<log, snap>> /\ pre' \in {pre, << >>}
  <2>1. Events(pre)' \subseteq Events(pre)
    BY <1>1, NothingAtHand DEF Events
  <2>. QED  BY <1>1, <2>1 DEF AtHand, Events
<1>2. CASE WriteEvent(p)
  <2>. DEFINE i == job[p].idx
  <2>1. /\ job[p].step = "append" /\ UNCHANGED <<snap, pre>>
        /\ \/ log' = Append(log, Chunk(Event(p, i), TRUE, TRUE))
           \/ \E rest \in Partial(Event(p, i)) : log' = log \o rest
    BY <1>2 DEF WriteEvent
  <2>2. i \in Nat
    BY <2>1, JobFields
  <2>3. \A j \in DOMAIN log' : \/ j \in DOMAIN log /\ log'[j] = log[j]
                               \/ log'[j].ev = Event(p, i)
    BY <2>1, WriteAdds
  <2>. QED  BY <2>1, <2>2, <2>3 DEF Adds, AtHand, Events
<1>3. CASE Replace(p) /\ snap' = pre \o Batch(p) /\ UNCHANGED <<log, pre>>
  <2>. DEFINE c == job[p].cmd
              b == Batch(p)
  <2>1. /\ job[p].step = "replace" /\ IsList(pre) /\ c \in Commands /\ Size[c] \in Nat
        /\ snap' = pre \o b
    BY <1>3, JobFields, StoreAssumption DEF Replace, StIInv, Lists
  <2>2. b = [i \in 1..Size[c] |-> Event(p, i)]
    BY DEF Batch
  <2>. HIDE DEF b, c
  <2>3. DOMAIN b = 1..Size[c] /\ \A i \in DOMAIN b : i \in Nat /\ b[i] = Event(p, i)
    BY <2>1, <2>2
  <2>4. IsList(b)
    <3>1. PICK n \in Nat : n = Size[c]
      BY <2>1
    <3>2. b \in [1..n -> Events(b)]
      BY <2>2, <2>3, <3>1 DEF Events
    <3>. QED  BY <3>2 DEF IsList
  <2>5. \A n \in DOMAIN snap' :
          \/ n \in DOMAIN pre /\ snap'[n] = pre[n]
          \/ \E m \in DOMAIN b : snap'[n] = b[m]
    BY <2>1, <2>4, Joined
  <2>. QED  BY <1>3, <2>1, <2>3, <2>5 DEF Adds, AtHand, Events
<1>. QED
  BY <1>1, <1>2, <1>3 DEF GiveUp, Sync, Replace, Commit, Fail

LEMMA CrashAtHand ==
  ASSUME StIInv, HistIInv, ProcessesDie \/ PowerLoss
  PROVE  AtHand' \subseteq AtHand \/ \E p \in Procs : Adds(p)
<1>1. pre' = << >> /\ Events(pre)' = {}
  BY NothingAtHand DEF ProcessesDie, PowerLoss, Stop, Events
<1>2. CASE ProcessesDie /\ log' = log
  BY <1>1, <1>2 DEF ProcessesDie, AtHand, Events
<1>3. CASE ProcessesDie /\ log' # log
  <2>1. PICK p \in Procs :
          /\ job[p].step = "append" /\ job[p].idx <= Size[job[p].cmd]
          /\ \E rest \in Partial(Event(p, job[p].idx)) : log' = log \o rest
    BY <1>3 DEF ProcessesDie
  <2>2. job[p].idx \in Nat
    BY <2>1, JobFields
  <2>3. \A j \in DOMAIN log' : \/ j \in DOMAIN log /\ log'[j] = log[j]
                               \/ log'[j].ev = Event(p, job[p].idx)
    BY <2>1, WriteAdds
  <2>4. snap' = snap
    BY <1>3 DEF ProcessesDie
  <2>5. AtHand' \subseteq AtHand \cup {Event(p, k) : k \in Nat}
    BY <1>1, <2>2, <2>3, <2>4 DEF AtHand, Events
  <2>6. Adds(p)
    BY <2>1, <2>5 DEF Adds
  <2>. QED  BY <2>6
<1>4. CASE PowerLoss
  <2>1. \A i \in DOMAIN log' : i \in DOMAIN log /\ log'[i].ev = log[i].ev
    BY <1>4, PowerKeepsLines
  <2>2. Events(durable) \subseteq Events(snap)
    BY ListDomain DEF HistIInv, FilesTold, Prefix, Events, StIInv, Lists
  <2>3. snap' \in {snap, durable}
    BY <1>4 DEF PowerLoss
  <2>. QED  BY <1>1, <2>1, <2>2, <2>3 DEF AtHand, Events
<1>. QED  BY <1>2, <1>3, <1>4

\* Every step of the store.
LEMMA StepAtHand ==
  ASSUME StIInv, HistIInv, [StNext]_stVars
  PROVE  AtHand' \subseteq AtHand \/ \E p \in Procs : Adds(p)
<1>1. ASSUME NEW p \in Procs, NEW c \in Commands, Read(p, c) \/ Sweep(p, c) \/ Repeat(p, c)
      PROVE  AtHand' \subseteq AtHand
  BY <1>1, LoadingAtHand DEF Looks
<1>2. ASSUME NEW p \in Procs, Refresh(p) \/ Open(p) \/ OpenFails(p)
      PROVE  AtHand' \subseteq AtHand
  <2>1. job[p].cmd \in Commands
    BY <1>2, JobFields DEF Refresh, Open, OpenFails
  <2>. QED  BY <1>2, <2>1, LoadingAtHand
<1>3. ASSUME NEW p \in Procs, GiveUp(p) \/ WriteEvent(p) \/ Sync(p) \/ Replace(p) \/ Commit(p)
      PROVE  AtHand' \subseteq AtHand \/ Adds(p)
  BY <1>3, WritingAtHand
<1>4. CASE Recover
  <2>1. Trim /\ ~Unreadable /\ snap' = Loaded /\ pre' = pre
    BY <1>4 DEF Recover
  <2>2. Events(Loaded) \subseteq AtHand /\ {log'[i].ev : i \in DOMAIN log'} \subseteq AtHand
    BY <2>1, LoadedAtHand, TrimAddsNothing
  <2>. QED  BY <2>1, <2>2 DEF AtHand, Events
<1>5. CASE ProcessesDie \/ PowerLoss
  BY <1>5, CrashAtHand
<1>6. CASE UNCHANGED stVars
  BY <1>6 DEF stVars, AtHand, Events
<1>. QED  BY <1>1, <1>2, <1>3, <1>4, <1>5, <1>6 DEF StNext

\* The events of one command, in the log, in the snapshot and in what the holder of
\* the lock loaded, were computed by one call from one revision.
THEOREM CallsInductive == StSpec => []AgreeInv
<1>1. StInit => AgreeInv
  BY NothingAtHand DEF StInit, AgreeInv, AtHand, Events
<1>2. StIInv /\ HistIInv /\ AgreeInv /\ [StNext]_stVars => AgreeInv'
  <2>. SUFFICES ASSUME StIInv, HistIInv, AgreeInv, [StNext]_stVars PROVE AgreeInv'
    OBVIOUS
  <2>1. CASE AtHand' \subseteq AtHand
    BY <2>1 DEF AgreeInv
  <2>2. ASSUME NEW p \in Procs, Adds(p) PROVE AgreeInv'
    <3>1. \A k : /\ Event(p, k).cmd = job[p].cmd /\ Event(p, k).by = p
                 /\ Event(p, k).base = job[p].base
      BY DEF Event
    <3>2. \A e \in AtHand : e.cmd = job[p].cmd => e.by = p /\ e.base = job[p].base
      BY <2>2, MineAgree DEF Adds
    <3>3. \A e \in AtHand' : e \in AtHand \/ \E k : e = Event(p, k)
      BY <2>2 DEF Adds
    <3>4. \A e \in AtHand' : e \in AtHand \/ (/\ e.cmd = job[p].cmd /\ e.by = p
                                             /\ e.base = job[p].base)
      BY <3>1, <3>3
    <3>. QED  BY <3>2, <3>4 DEF AgreeInv
  <2>. QED  BY <2>1, <2>2, StepAtHand
<1>. QED  BY <1>1, <1>2, StoreInductive, HistoryInductive, PTL DEF StSpec

\* OneBatch, for any number of processes, commands and faults: no call completes or
\* repeats a batch that another call has left, in whole or in part, in the log.
THEOREM BatchesNeverMix == StSpec => []OneBatch
<1>1. AgreeInv => OneBatch
  BY DEF AgreeInv, AtHand, Events, OneBatch
<1>. QED  BY <1>1, CallsInductive, PTL

-----------------------------------------------------------------------------
\* While the lock is free, what is at hand was reported.
LEMMA CalmLoads ==
  ASSUME StIInv, CalmInv, faults = 0, holder = NoProc
  PROVE  CommandsOf(Loaded) \subseteq acked /\ \A e \in AtHand : e.cmd \in acked
<1>1. \A e \in AtHand : e.cmd \in acked
  BY NobodyWorks DEF CalmInv, Written
<1>2. Events(Loaded) \subseteq AtHand
  BY LoadedAtHand
<1>. QED  BY <1>1, <1>2 DEF CommandsOf, Events

\* A step that fails nothing and starts nothing, but for a batch with no error yet.
LEMMA CalmLoadingSteps ==
  ASSUME StIInv, CalmInv, NEW p \in Procs, NEW c \in Commands,
         Read(p, c) \/ Sweep(p, c) \/ Refresh(p) \/ Open(p) \/ Looks
  PROVE  CalmInv'
<1>1. faults' = faults /\ acked' = acked /\ holder = NoProc
  BY DEF Read, Sweep, Refresh, Open, Looks, Recover, Repeat, Fail
<1>. SUFFICES ASSUME faults = 0
              PROVE  /\ \A q \in Procs : Working(q)' => ~job'[q].err
                     /\ \A e \in AtHand' : e.cmd \in acked'
  BY <1>1 DEF CalmInv
<1>2. \A e \in AtHand' : e.cmd \in acked'
  BY <1>1, CalmLoads, LoadingAtHand
<1>3. \A q \in Procs : ~Working(q)
  BY <1>1, NobodyWorks
<1>. DEFINE starts == /\ \A q \in Procs \ {p} : job'[q] = job[q]
                      /\ job'[p].step \notin {"append", "replace", "commit"} \/ ~job'[p].err
<1>4. job' = job \/ starts
  <2>1. \A r : job' = [job EXCEPT ![p] = r] =>
          /\ job'[p] = r /\ \A q \in Procs \ {p} : job'[q] = job[q]
    BY DEF StIInv, JobShapes
  <2>2. CASE Read(p, c) \/ Refresh(p)
    BY <2>1, <2>2 DEF Read, Refresh
  <2>3. CASE Sweep(p, c)
    BY <2>1, <2>3 DEF Sweep
  <2>4. CASE Open(p)
    BY <2>1, <2>4 DEF Open, Fail, Idle
  <2>5. CASE Looks
    BY <2>5 DEF Looks, Recover, Repeat
  <2>. QED  BY <2>2, <2>3, <2>4, <2>5
<1>5. \A q \in Procs : Working(q)' => ~job'[q].err
  BY <1>3, <1>4 DEF Working
<1>. QED  BY <1>2, <1>5

\* The steps of the holder of the lock, and of a call that is given up.
LEMMA CalmWritingSteps ==
  ASSUME StIInv, CalmInv, faults' = faults, NEW p \in Procs,
         GiveUp(p) \/ WriteEvent(p) \/ Sync(p) \/ Replace(p) \/ Commit(p)
  PROVE  CalmInv'
<1>. SUFFICES ASSUME faults = 0
              PROVE  /\ \A q \in Procs : Working(q)' => ~job'[q].err
                     /\ \A e \in AtHand' : e.cmd \in acked' \/ Written(e.cmd)'
  BY DEF CalmInv
<1>0. /\ job \in [Procs -> {job[q] : q \in Procs}] /\ faults + 1 # faults
      /\ \A q \in Procs : Working(q) => ~job[q].err
      /\ \A e \in AtHand : e.cmd \in acked \/ Written(e.cmd)
  BY DEF CalmInv, StIInv, JobShapes
<1>1. CASE GiveUp(p)
  <2>1. /\ ~Working(p) /\ job'[p] = Idle /\ \A q \in Procs : q # p => job'[q] = job[q]
        /\ acked' = acked /\ UNCHANGED <<log, snap>> /\ pre' \in {pre, << >>}
    BY <1>0, <1>1 DEF GiveUp, Fail, Working
  <2>2. \A q \in Procs : (Working(q)' <=> Working(q)) /\ (Working(q) => job'[q] = job[q])
    BY <2>1 DEF Working, Idle
  <2>3. AtHand' \subseteq AtHand
    BY <2>1, NothingAtHand DEF AtHand, Events
  <2>. QED  BY <1>0, <2>1, <2>2, <2>3 DEF Written
<1>2. CASE WriteEvent(p) \/ Sync(p) \/ Replace(p)
  <2>1. /\ Working(p) /\ Working(p)' /\ ~job'[p].err /\ job'[p].cmd = job[p].cmd
        /\ acked' = acked /\ \A q \in Procs : q # p => job'[q] = job[q]
    <3>1. job[p] \in [step : {"append", "replace", "commit"}, cmd : Commands,
                      base : Nat, idx : Nat, err : BOOLEAN]
          /\ Working(p) /\ ~job[p].err
      BY <1>0, <1>2, JobFields DEF WriteEvent, Sync, Replace, Working
    <3>2. CASE WriteEvent(p)
      <4>1. job' = [job EXCEPT ![p].idx = job[p].idx + 1] /\ acked' = acked
            /\ job[p].step = "append"
        BY <1>0, <3>2 DEF WriteEvent, Fault
      <4>. QED  BY <1>0, <3>1, <4>1 DEF Working
    <3>3. CASE Sync(p)
      <4>1. job' = [job EXCEPT ![p].step = "replace"] /\ acked' = acked
        BY <1>0, <3>1, <3>3 DEF Sync, Fault
      <4>. QED  BY <1>0, <3>1, <4>1 DEF Working
    <3>4. CASE Replace(p)
      <4>1. job' = [job EXCEPT ![p].step = "commit"] /\ acked' = acked
        BY <1>0, <3>4 DEF Replace, Fault
      <4>. QED  BY <1>0, <3>1, <4>1 DEF Working
    <3>. QED  BY <1>2, <3>2, <3>3, <3>4
  <2>2. \A q \in Procs : Working(q) => Working(q)' /\ job'[q].cmd = job[q].cmd
    BY <2>1 DEF Working
  <2>3. \A q \in Procs : Working(q)' => ~job'[q].err
    BY <1>0, <2>1 DEF Working
  <2>4. \A e \in AtHand' : e \in AtHand \/ e.cmd = job[p].cmd
    BY <1>2, WritingAtHand DEF Adds, Event
  <2>. QED  BY <1>0, <2>1, <2>2, <2>3, <2>4 DEF Written
<1>3. CASE Commit(p)
  <2>1. /\ job[p].step = "commit" /\ acked' = acked \cup {job[p].cmd}
        /\ job' = [job EXCEPT ![p] = Idle] /\ pre' = << >> /\ UNCHANGED <<log, snap>>
    BY <1>0, <1>3 DEF Commit, Fault
  <2>2. Working(p) /\ \A q \in Procs : Working(q) => q = p
    BY <2>1, OneWorks DEF Working
  <2>3. \A q \in Procs : ~Working(q)'
    BY <1>0, <2>1, <2>2 DEF Working, Idle
  <2>4. AtHand' \subseteq AtHand
    BY <2>1, NothingAtHand DEF AtHand, Events
  <2>. QED  BY <1>0, <2>1, <2>2, <2>3, <2>4 DEF Written
<1>. QED  BY <1>1, <1>2, <1>3

\* A fault is counted, and only a fault is.
LEMMA FaultsCounted ==
  ASSUME CalmInv, [StNext]_stVars
  PROVE  /\ faults' \in Nat /\ (faults' = faults \/ faults' = faults + 1)
         /\ \A p \in Procs : OpenFails(p) => faults' = faults + 1
         /\ ProcessesDie \/ PowerLoss => faults' = faults + 1
<1>1. faults \in Nat
  BY DEF CalmInv
<1>2. \A kind : Fault(kind) => faults' = faults + 1
  BY DEF Fault
<1>3. \A p \in Procs, c \in Commands :
        Read(p, c) \/ Sweep(p, c) \/ Repeat(p, c) => faults' = faults
  BY DEF Read, Sweep, Repeat
<1>4. \A p \in Procs : Open(p) \/ Refresh(p) \/ GiveUp(p) => faults' = faults
  BY DEF Open, Refresh, GiveUp
<1>5. \A p \in Procs : WriteEvent(p) \/ Sync(p) => faults' = faults \/ faults' = faults + 1
  BY <1>2 DEF WriteEvent, Sync
<1>6. \A p \in Procs : Replace(p) \/ Commit(p) => faults' = faults \/ faults' = faults + 1
  BY <1>2 DEF Replace, Commit
<1>7. \A p \in Procs : OpenFails(p) => faults' = faults + 1
  BY <1>2 DEF OpenFails
<1>8. ProcessesDie \/ PowerLoss => faults' = faults + 1
  BY <1>2 DEF ProcessesDie, PowerLoss
<1>9. Recover \/ UNCHANGED stVars => faults' = faults
  BY DEF Recover, stVars
<1>10. faults' = faults \/ faults' = faults + 1
  BY <1>3, <1>4, <1>5, <1>6, <1>7, <1>8, <1>9 DEF StNext
<1>. QED  BY <1>1, <1>7, <1>8, <1>10

\* While nothing has failed, every event in the log, in the snapshot and in what the
\* holder of the lock loaded belongs to a command whose call returned success, or to
\* the one being written: a repetition is told "done" only of the former.
THEOREM CalmInductive == StSpec => []CalmInv
<1>1. StInit => CalmInv
  BY NothingAtHand DEF StInit, CalmInv, AtHand, Events, Working, Idle
<1>2. StIInv /\ CalmInv /\ [StNext]_stVars => CalmInv'
  <2>. SUFFICES ASSUME StIInv, CalmInv, [StNext]_stVars PROVE CalmInv'
    OBVIOUS
  <2>1. CASE faults' = faults + 1
    BY <2>1 DEF CalmInv
  <2>2. CASE faults' = faults
    <3>1. CASE UNCHANGED stVars
      BY <3>1 DEF stVars, CalmInv, AtHand, Events, Written, Working
    <3>2. ASSUME NEW p \in Procs, NEW c \in Commands,
                 Read(p, c) \/ Sweep(p, c) \/ Repeat(p, c)
          PROVE  CalmInv'
      BY <3>2, CalmLoadingSteps DEF Looks
    <3>3. ASSUME NEW p \in Procs, Refresh(p) \/ Open(p) PROVE CalmInv'
      <4>1. job[p].cmd \in Commands
        BY <3>3, JobFields DEF Refresh, Open
      <4>. QED  BY <3>3, <4>1, CalmLoadingSteps
    <3>4. ASSUME NEW p \in Procs,
                 GiveUp(p) \/ WriteEvent(p) \/ Sync(p) \/ Replace(p) \/ Commit(p)
          PROVE  CalmInv'
      BY <2>2, <3>4, CalmWritingSteps
    <3>5. CASE Recover
      <4>1. UNCHANGED <<job, acked>> /\ holder = NoProc /\ AtHand' \subseteq AtHand
        <5>1. Trim /\ ~Unreadable /\ snap' = Loaded /\ pre' = pre
          BY <3>5 DEF Recover
        <5>2. /\ Events(Loaded) \subseteq AtHand
              /\ {log'[i].ev : i \in DOMAIN log'} \subseteq AtHand
          BY <5>1, LoadedAtHand, TrimAddsNothing
        <5>. QED  BY <3>5, <5>1, <5>2 DEF Recover, AtHand, Events
      <4>. QED  BY <2>2, <4>1 DEF CalmInv, Written, Working
    <3>6. \A p \in Procs : ~OpenFails(p)
      BY <2>2, FaultsCounted DEF CalmInv
    <3>7. ~ProcessesDie /\ ~PowerLoss
      BY <2>2, FaultsCounted DEF CalmInv
    <3>. QED  BY <3>1, <3>2, <3>3, <3>4, <3>5, <3>6, <3>7 DEF StNext
  <2>. QED  BY <2>1, <2>2, FaultsCounted
<1>. QED  BY <1>1, <1>2, StoreInductive, PTL DEF StSpec

-----------------------------------------------------------------------------
(***************************************************************************)
(* The snapshot implements the append-only history.                        *)
(***************************************************************************)
\* An earlier version of a history is its beginning.
LEMMA Cut ==
  ASSUME NEW h, NEW g, IsList(h), IsList(g), Prefix(g, h)
  PROVE  SubSeq(h, 1, Len(g)) = g /\ (Len(g) = Len(h) => g = h)
<1>1. PICK m \in Nat, n \in Nat : m = Len(g) /\ n = Len(h) /\ m <= n
  BY ListDomain DEF Prefix
<1>2. h \in [1..n -> Events(h)] /\ g \in [1..m -> Events(g)] /\ h \in Seq(Events(h))
  BY <1>1 DEF IsList
<1>3. \A i \in 1..m : g[i] = h[i]
  BY <1>1, <1>2 DEF Prefix
<1>. DEFINE s == SubSeq(h, 1, m)
<1>4. s \in Seq(Events(h)) /\ Len(s) = m /\ \A i \in 1..m : s[i] = h[i]
  <2>1. \A i \in 1..m : i \in 1..Len(h)
    BY <1>1
  <2>2. 1 \in 1..(n + 1) /\ m \in 0..n
    BY <1>1
  <2>. QED  BY <1>1, <1>2, <2>1, <2>2, SubSeqProperties
<1>. HIDE DEF s
<1>5. s = g
  BY <1>2, <1>3, <1>4
<1>6. m = n => g = h
  BY <1>2, <1>3
<1>. QED  BY <1>1, <1>5, <1>6 DEF s

\* What a step does to the history and to what the calls reported.
HistoryMoves ==
  History!Extend \/ History!Acknowledge \/ History!Forget \/ UNCHANGED <<snap, acked>>

\* A load that is written back, or the batch of a command, extends the history.
LEMMA GrowsHistory ==
  ASSUME IsList(snap), IsList(snap'), Prefix(snap, snap'), Told(snap'), acked' = acked
  PROVE  HistoryMoves
<1>1. SubSeq(snap', 1, Len(snap)) = snap /\ (Len(snap) = Len(snap') => snap = snap')
  BY Cut
<1>2. Len(snap) \in Nat /\ Len(snap') \in Nat /\ Len(snap) <= Len(snap')
  BY ListDomain DEF Prefix
<1>3. CASE Len(snap) = Len(snap')
  BY <1>1, <1>3 DEF HistoryMoves
<1>4. CASE Len(snap') > Len(snap)
  <2>1. History!Extend
    BY <1>1, <1>4 DEF History!Extend, Told, Once, Pair
  <2>. QED  BY <2>1 DEF HistoryMoves
<1>. QED  BY <1>2, <1>3, <1>4 DEF HistoryMoves

\* A power loss only takes back what nobody was told about.
LEMMA ForgetsHistory ==
  ASSUME StIInv, HistIInv, snap' = durable, acked' = acked, faults' > 0
  PROVE  HistoryMoves
<1>1. IsList(snap) /\ IsList(durable) /\ Prefix(durable, snap) /\ Told(snap)
  BY DEF StIInv, Lists, HistIInv, FilesTold
<1>2. SubSeq(snap, 1, Len(durable)) = durable /\ (Len(durable) = Len(snap) => durable = snap)
  BY <1>1, Cut
<1>3. PICK m \in Nat, n \in Nat : /\ m = Len(durable) /\ n = Len(snap) /\ m <= n
                                  /\ DOMAIN durable = 1..m /\ DOMAIN snap = 1..n
  BY <1>1, ListDomain DEF Prefix
<1>4. CASE m = n
  BY <1>2, <1>3, <1>4 DEF HistoryMoves
<1>5. CASE m < n
  <2>. DEFINE s == SubSeq(snap, m + 1, n)
  <2>1. /\ DOMAIN s = 1..(n - m)
        /\ \A j \in 1..(n - m) : m + j \in 1..n /\ s[j] = snap[m + j]
    <3>1. snap \in Seq(Events(snap))
      BY <1>1 DEF IsList
    <3>. QED  BY <1>3, <1>5, <3>1, SubSeqProperties
  <2>. HIDE DEF s
  <2>2. ASSUME NEW j \in 1..(n - m), snap[m + j].cmd \in acked PROVE FALSE
    <3>. DEFINE k == m + j
    <3>1. k \in DOMAIN snap /\ k > m
      BY <1>3, <2>1
    <3>. HIDE DEF k
    <3>2. snap[k].cmd \in acked
      BY <2>2 DEF k
    <3>3. <<snap[k].cmd, snap[k].idx>> \in Members(durable)
      BY <1>1, <3>1, <3>2 DEF Told, Numbered, StIInv, CopiesHaveAcked, Has
    <3>4. PICK i \in DOMAIN durable : Pair(durable[i]) = Pair(snap[k])
      BY <3>3 DEF Members, Pair
    <3>5. i \in DOMAIN snap /\ snap[i] = durable[i] /\ i # k
      BY <1>1, <1>3, <3>1 DEF Prefix
    <3>. QED  BY <1>1, <3>1, <3>4, <3>5 DEF Told, Once
  <2>3. \A c \in History!CommandsOf(s) : c \notin acked
    BY <2>1, <2>2 DEF History!CommandsOf
  <2>4. m \in 0..(Len(snap) - 1) /\ snap' = SubSeq(snap, 1, m)
    <3>1. m \in 0..(Len(snap) - 1)
      BY <1>3, <1>5
    <3>2. snap' = SubSeq(snap, 1, m)
      BY <1>2, <1>3
    <3>. QED  BY <3>1, <3>2
  <2>5. History!CommandsOf(SubSeq(snap, m + 1, Len(snap))) \cap acked = {}
    BY <1>3, <2>3 DEF s
  <2>6. History!Forget
    BY <2>4, <2>5 DEF History!Forget
  <2>. QED  BY <2>6 DEF HistoryMoves
<1>. QED  BY <1>3, <1>4, <1>5 DEF HistoryMoves

\* Every step of the store extends the history, reports a command, forgets what
\* nobody was told, or leaves the history alone.
LEMMA StepsHistory ==
  ASSUME StIInv, StIInv', HistIInv, HistIInv', CalmInv, [StNext]_stVars
  PROVE  HistoryMoves
<1>1. CASE UNCHANGED <<snap, acked>>
  BY <1>1 DEF HistoryMoves
<1>2. IsList(snap) /\ IsList(snap') /\ Told(snap')
  BY DEF StIInv, Lists, HistIInv, FilesTold
<1>3. CASE snap' = Loaded /\ acked' = acked
  BY <1>2, <1>3, LoadTells, GrowsHistory DEF HistIInv, FilesTold
<1>4. ASSUME NEW p \in Procs, Replace(p) PROVE HistoryMoves
  <2>1. CASE UNCHANGED <<snap, acked>>
    BY <2>1 DEF HistoryMoves
  <2>2. CASE snap' = pre \o Batch(p) /\ acked' = acked
    <3>1. job[p].step = "replace"
      BY <1>4 DEF Replace
    <3>2. Prefix(pre, snap') /\ Prefix(snap, pre)
      BY <2>2, <3>1, BatchFits DEF HistIInv, Working, WorkFits
    <3>3. IsList(pre)
      BY DEF StIInv, Lists
    <3>4. Prefix(snap, snap')
      BY <1>2, <3>2, <3>3, PrefixTransitive
    <3>. QED  BY <1>2, <2>2, <3>4, GrowsHistory
  <2>. QED  BY <1>4, <2>1, <2>2 DEF Replace, Fail
<1>5. ASSUME NEW p \in Procs, Commit(p) PROVE HistoryMoves
  <2>1. CASE UNCHANGED <<snap, acked>>
    BY <2>1 DEF HistoryMoves
  <2>2. CASE acked' = acked \cup {job[p].cmd} /\ snap' = snap
    <3>1. job[p].step = "commit" /\ job[p].cmd \in Commands
      BY <1>5, JobFields DEF Commit
    <3>2. Has(snap, job[p].cmd) /\ 1 \in 1..Size[job[p].cmd]
      BY <3>1, StoreAssumption DEF StIInv, CommitIsWritten
    <3>3. job[p].cmd \in History!CommandsOf(snap)
      BY <3>2 DEF Has, Members, History!CommandsOf
    <3>4. History!Acknowledge
      BY <2>2, <3>3 DEF History!Acknowledge
    <3>. QED  BY <3>4 DEF HistoryMoves
  <2>. QED  BY <1>5, <2>1, <2>2 DEF Commit, Fail
<1>6. CASE PowerLoss
  <2>1. acked' = acked /\ snap' \in {snap, durable} /\ faults' > 0
    <3>1. faults \in Nat
      BY DEF CalmInv
    <3>2. faults' = faults + 1
      BY <1>6, FaultsCounted
    <3>. QED  BY <1>6, <3>1, <3>2 DEF PowerLoss, Stop
  <2>. QED  BY <1>1, <2>1, ForgetsHistory
<1>7. ASSUME NEW p \in Procs, NEW c \in Commands, Read(p, c) \/ Sweep(p, c) \/ Repeat(p, c)
      PROVE  UNCHANGED <<snap, acked>>
  BY <1>7 DEF Read, Sweep, Repeat
<1>8. ASSUME NEW p \in Procs, Open(p) \/ OpenFails(p)
      PROVE  acked' = acked /\ snap' \in {snap, Loaded}
  BY <1>8 DEF Open, OpenFails, Fail
<1>9. ASSUME NEW p \in Procs, Refresh(p) \/ GiveUp(p) \/ WriteEvent(p) \/ Sync(p)
      PROVE  UNCHANGED <<snap, acked>>
  BY <1>9 DEF Refresh, GiveUp, WriteEvent, Sync, Fail
<1>10. Recover => snap' = Loaded /\ acked' = acked
  BY DEF Recover
<1>11. ProcessesDie => UNCHANGED <<snap, acked>>
  BY DEF ProcessesDie, Stop
<1>12. UNCHANGED stVars => UNCHANGED <<snap, acked>>
  BY DEF stVars
<1>. QED
  BY <1>1, <1>3, <1>4, <1>5, <1>6, <1>7, <1>8, <1>9, <1>10, <1>11, <1>12 DEF StNext

\* What a repetition is told it is told of a command that was reported, unless
\* something has failed.
LEMMA StepsRepeat ==
  ASSUME StIInv, CalmInv, [StNext]_stVars
  PROVE  History!Repeat \/ UNCHANGED confirmed
<1>1. ASSUME NEW c \in Commands, confirmed' = confirmed \cup {c}, c \in CommandsOf(Loaded),
             holder = NoProc
      PROVE  History!Repeat
  <2>1. faults > 0 \/ c \in acked
    BY <1>1, CalmLoads DEF CalmInv
  <2>. QED  BY <1>1, <2>1 DEF History!Repeat
<1>2. ASSUME NEW p \in Procs, NEW c \in Commands, Repeat(p, c) PROVE History!Repeat
  BY <1>1, <1>2 DEF Repeat
<1>3. ASSUME NEW p \in Procs, Open(p) PROVE History!Repeat \/ UNCHANGED confirmed
  <2>. DEFINE c == job[p].cmd
  <2>1. c \in Commands /\ holder = NoProc
    BY <1>3, JobFields DEF Open
  <2>2. \/ UNCHANGED confirmed
        \/ c \in CommandsOf(Loaded) /\ confirmed' = confirmed \cup ({c} \cap Repeatable)
    BY <1>3 DEF Open, FreshKey
  <2>. HIDE DEF c
  <2>3. CASE c \in Repeatable /\ ~UNCHANGED confirmed
    <3>1. {c} \cap Repeatable = {c}
      BY <2>3
    <3>. QED  BY <1>1, <2>1, <2>2, <2>3, <3>1
  <2>4. CASE c \notin Repeatable
    <3>1. {c} \cap Repeatable = {}
      BY <2>4
    <3>. QED  BY <2>2, <3>1
  <2>. QED  BY <2>3, <2>4
<1>. QED
  BY <1>2, <1>3 DEF StNext, stVars, Read, Sweep, OpenFails, Refresh, GiveUp, WriteEvent, Sync,
                    Replace, Commit, Recover, ProcessesDie, PowerLoss, Stop

\* ImplementsHistory, for any number of processes, commands and faults: seen
\* through workflow.json the store is an append-only history, in which a retried
\* or twice issued command takes effect at most once, only events whose own call
\* reported no success are ever lost, and a repetition is told success only of a
\* command that was committed as long as nothing has failed.
THEOREM HistoryKept == StSpec => ImplementsHistory
<1>1. StInit => History!Init
  BY DEF StInit, History!Init
<1>2. StIInv /\ StIInv' /\ HistIInv /\ HistIInv' /\ CalmInv /\ [StNext]_stVars
        => [History!Next]_History!histVars
  <2>. SUFFICES ASSUME StIInv, StIInv', HistIInv, HistIInv', CalmInv, [StNext]_stVars
                PROVE  History!Next
    OBVIOUS
  <2>1. faults > 0 => faults' > 0
    BY FaultsCounted DEF CalmInv
  <2>. QED  BY <2>1, StepsHistory, StepsRepeat DEF History!Next, HistoryMoves
<1>. QED  BY <1>1, <1>2, StoreInductive, HistoryInductive, CalmInductive, PTL
          DEF StSpec, ImplementsHistory, History!Spec
=============================================================================
