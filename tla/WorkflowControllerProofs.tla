----------------------- MODULE WorkflowControllerProofs -----------------------
(***************************************************************************)
(* Safety of the dispatch boundary of WorkflowController, for any number   *)
(* of supervisors, items and disruptions.                                  *)
(***************************************************************************)
EXTENDS WorkflowController, FiniteSetTheorems, TLAPS

-----------------------------------------------------------------------------
(***************************************************************************)
(* The inductive invariant.                                                *)
(***************************************************************************)
Places == {"off", "follow", "lead", "stopping", "leaving", "down"}
Steps == {"new", "admitted", "leading", "checked", "begun"} \cup Results
Snapshots == [rev : Nat, st : {"ready", "leased", "running", "closed"},
              by : {None, "ctl", "manual"}]
Decisions == [item : Items, rev : Nat]
Jobs == [sup : Sups, item : Items, rev : Nat, epoch : Nat, step : Steps]
Scans == UNION {[D -> Snapshots] : D \in SUBSET Items}

\* Types of the variables that the argument reads.
RecordTyped == desired \in BOOLEAN /\ leader \in Sups \cup {None} /\ epoch \in Nat
LoopTyped == /\ pc \in [Sups -> Places] /\ mine \in [Sups -> Nat]
             /\ plan \in [Sups -> SUBSET Decisions]
IndexTyped == view \in [Sups -> [Items -> Snapshots]] /\ scan \in [Sups -> Scans]
SlotTyped == reserved \in [Sups -> Nat] /\ runtimes \in [Sups -> SUBSET Items]
Typed == /\ RecordTyped /\ LoopTyped /\ IndexTyped /\ SlotTyped
         /\ item \in [Items -> Snapshots] /\ jobs \subseteq Jobs

\* A leader knows a real epoch; epoch 0 marks the operator's dispatches.
LeadsAnEpoch == \A s \in Sups : pc[s] = "lead" => mine[s] # 0

\* A supervisor has at most one dispatch of the controller and one of the
\* operator for an item, so a dispatch is known by its Id.
SameKind(v, w) == v.sup = w.sup /\ v.item = w.item /\ (v.epoch = 0 <=> w.epoch = 0)
JobsDistinct == \A v, w \in jobs : SameKind(v, w) => v = w

\* An operator's dispatch does not pass the admission and has no result.
ManualSkips == \A w \in jobs : w.epoch = 0 => w.step \in {"leading", "checked", "begun"}

\* What a pass has selected and not handed off is not under way.
PlanFresh ==
  \A s \in Sups : \A d \in plan[s] :
    /\ \A w \in jobs : ~(w.sup = s /\ w.item = d.item /\ w.epoch # 0)
    /\ \A e \in plan[s] : e.item = d.item => e = d

\* Who holds the two flocks.
LocksHeld ==
  \A w \in jobs :
    /\ w.step = "checked" => dspLock = Id(w)
    /\ w.epoch # 0 /\ w.step \in {"leading", "checked"} => ctlLock = Id(w)

\* Under the controller's flock the leader that was checked stays the leader.
LeaderStands ==
  \A w \in jobs :
    w.epoch # 0 /\ w.step \in {"leading", "checked"} =>
      desired /\ leader = w.sup /\ epoch = w.epoch

\* Under dispatch.lock the key that was free stays free, and an item that has
\* kept its revision has kept its status.
CheckStands ==
  \A w \in jobs : w.step = "checked" =>
    /\ ~KeyHeld(w.item)
    /\ w.rev <= item[w.item].rev
    /\ AtRevision(w) => item[w.item].st = IF w.epoch = 0 THEN "leased" ELSE "ready"

\* The dispatches of s that own a reservation.
Owners(s) == {w \in jobs : w.sup = s /\ w.epoch # 0 /\ w.step \in Holding}

Finite == IsFiniteSet(jobs) /\ \A s \in Sups : IsFiniteSet(runtimes[s])

CtIInv == /\ Typed /\ LeadsAnEpoch /\ JobsDistinct /\ ManualSkips
          /\ PlanFresh /\ LocksHeld /\ LeaderStands /\ CheckStands /\ Finite
          /\ KeyExclusive /\ SlotsAccounted

-----------------------------------------------------------------------------
(***************************************************************************)
(* Steps that move no dispatch.                                            *)
(***************************************************************************)
\* A commit raises the revision of its item ...
RevisionsRise ==
  \A i \in Items : item'[i] = item[i] \/ item'[i].rev > item[i].rev

\* ... and no commit but that of a start makes an item run.
NothingStarts == \A i \in Items : Live(item'[i]) => Live(item[i])

\* The record is written under the controller's flock.
RecordGuarded == ctlLock = None \/ UNCHANGED <<desired, leader, epoch>>

\* An Id is never None, so a flock that is free has no holder.
LEMMA IdNotNone ==
  ASSUME NEW w \in Jobs
  PROVE  Id(w) # None
BY ControllerAssumption DEF Id, Jobs

\* What was found under dispatch.lock stands while nothing starts.
LEMMA ChecksStand ==
  ASSUME CtIInv, item' \in [Items -> Snapshots], RevisionsRise, NothingStarts,
         \A w \in jobs' : w.step = "checked" => w \in jobs
  PROVE  CheckStands' /\ KeyExclusive'
<1>1. KeyExclusive'
  BY DEF CtIInv, KeyExclusive, NothingStarts
<1>2. ASSUME NEW w \in jobs', w.step = "checked"
      PROVE  /\ ~KeyHeld(w.item)'
             /\ w.rev <= item'[w.item].rev
             /\ item'[w.item].rev = w.rev =>
                  item'[w.item].st = IF w.epoch = 0 THEN "leased" ELSE "ready"
  <2>1. w \in jobs /\ w \in Jobs
    BY <1>2 DEF CtIInv, Typed
  <2>2. w.item \in Items /\ w.rev \in Nat
    BY <2>1 DEF Jobs
  <2>3. item[w.item].rev \in Nat /\ item'[w.item].rev \in Nat
    BY <2>2 DEF CtIInv, Typed, Snapshots
  <2>4. /\ ~KeyHeld(w.item) /\ w.rev <= item[w.item].rev
        /\ item[w.item].rev = w.rev =>
              item[w.item].st = IF w.epoch = 0 THEN "leased" ELSE "ready"
    BY <1>2, <2>1 DEF CtIInv, CheckStands, AtRevision
  <2>5. ~KeyHeld(w.item)'
    BY <2>4 DEF KeyHeld, NothingStarts
  <2>6. item'[w.item] = item[w.item] \/ item'[w.item].rev > item[w.item].rev
    BY <2>2 DEF RevisionsRise
  <2> QED
    BY <2>2, <2>3, <2>4, <2>5, <2>6
<1> QED
  BY <1>1, <1>2 DEF CheckStands, AtRevision

\* Steps that leave the dispatches, the flocks and the slots alone.
LEMMA SteadyDispatches ==
  ASSUME CtIInv, UNCHANGED <<jobs, lockVars, slotVars>>, Typed',
         LeadsAnEpoch', PlanFresh', RecordGuarded, RevisionsRise, NothingStarts
  PROVE  CtIInv'
<1>1. JobsDistinct' /\ ManualSkips' /\ LocksHeld' /\ Finite' /\ SlotsAccounted'
  BY DEF CtIInv, JobsDistinct, ManualSkips, LocksHeld, Finite, SlotsAccounted, lockVars,
         slotVars
<1>2. CheckStands' /\ KeyExclusive'
  BY ChecksStand DEF Typed
<1>3. LeaderStands'
  <2>1. CASE UNCHANGED <<desired, leader, epoch>>
    BY <2>1 DEF CtIInv, LeaderStands
  <2>2. CASE ctlLock = None
    BY <2>2, IdNotNone DEF CtIInv, Typed, LocksHeld, LeaderStands
  <2> QED
    BY <2>1, <2>2 DEF RecordGuarded
<1> QED
  BY <1>1, <1>2, <1>3 DEF CtIInv

\* Nothing happens to an item.
LEMMA SameItems ==
  ASSUME item' = item
  PROVE  RevisionsRise /\ NothingStarts
BY DEF RevisionsRise, NothingStarts

\* The fresh snapshot of a commit.
LEMMA CommittedItem ==
  ASSUME CtIInv, NEW s \in Sups, NEW i \in Items, NEW st, NEW by,
         st \in {"ready", "leased", "running", "closed"},
         by \in {None, "ctl", "manual"}, CommitItem(s, i, st, by)
  PROVE  /\ item' \in [Items -> Snapshots]
         /\ view' \in [Sups -> [Items -> Snapshots]]
         /\ RevisionsRise
         /\ (st = "running" => Live(item[i])) => NothingStarts
         /\ item'[i] = Snapshot(item[i].rev + 1, st, by)
         /\ \A j \in Items \ {i} : item'[j] = item[j]
<1> DEFINE x == Snapshot(item[i].rev + 1, st, by)
<1>1. item \in [Items -> Snapshots] /\ view \in [Sups -> [Items -> Snapshots]]
  BY DEF CtIInv, Typed, IndexTyped
<1>2. item[i].rev \in Nat
  BY <1>1 DEF Snapshots
<1>3. x \in Snapshots /\ x.rev > item[i].rev /\ x.st = st
  BY <1>2 DEF Snapshots, Snapshot
<1>4. item' = [item EXCEPT ![i] = x] /\ view' = [view EXCEPT ![s][i] = x]
  BY DEF CommitItem
<1> HIDE DEF x
<1>5. item' \in [Items -> Snapshots] /\ view' \in [Sups -> [Items -> Snapshots]]
  BY <1>1, <1>3, <1>4
<1>6. item'[i] = x /\ \A j \in Items \ {i} : item'[j] = item[j]
  BY <1>1, <1>4
<1>7. RevisionsRise
  BY <1>3, <1>6 DEF RevisionsRise
<1>8. (st = "running" => Live(item[i])) => NothingStarts
  BY <1>3, <1>6 DEF NothingStarts, Live
<1> QED
  BY <1>5, <1>6, <1>7, <1>8 DEF x

-----------------------------------------------------------------------------
(* The loop and the record. *)

\* A loop that rests keeps its types, leads nothing and plans nothing.
LEMMA RestFacts ==
  ASSUME CtIInv, NEW s \in Sups, NEW where \in Places \ {"lead"}, Rest(s, where),
         jobs' \subseteq jobs
  PROVE  LoopTyped' /\ LeadsAnEpoch' /\ PlanFresh'
<1>1. LoopTyped'
  BY DEF CtIInv, Typed, LoopTyped, Rest
<1>2. LeadsAnEpoch'
  BY DEF CtIInv, Typed, LoopTyped, Rest, LeadsAnEpoch
<1>3. plan' = [plan EXCEPT ![s] = {}] /\ plan \in [Sups -> SUBSET Decisions]
  BY DEF CtIInv, Typed, LoopTyped, Rest
<1>4. PlanFresh'
  BY <1>3 DEF CtIInv, PlanFresh
<1> QED
  BY <1>1, <1>2, <1>4

\* Enable writes DesiredState under the flock, so no checked leader loses it.
LEMMA EnableStep ==
  ASSUME CtIInv, NEW s \in Sups, Enable(s)
  PROVE  CtIInv'
<1> USE DEF Enable, lockVars, slotVars, indexVars
<1>1. Typed' /\ LeadsAnEpoch'
  BY DEF CtIInv, Typed, RecordTyped, LoopTyped, IndexTyped, SlotTyped, LeadsAnEpoch, Places
<1>2. PlanFresh'
  BY DEF CtIInv, PlanFresh
<1> QED
  BY <1>1, <1>2, SameItems, SteadyDispatches DEF RecordGuarded

\* Disable takes the lease away only while no dispatch holds the flock.
LEMMA DisableStep ==
  ASSUME CtIInv, NEW s \in Sups, Disable(s)
  PROVE  CtIInv'
<1> USE DEF Disable, lockVars, slotVars, indexVars
<1> DEFINE where == IF pc[s] = "off" THEN "off" ELSE "stopping"
<1>1. where \in Places \ {"lead"} /\ Rest(s, where) /\ jobs' \subseteq jobs
  BY DEF Places
<1>2. LoopTyped' /\ LeadsAnEpoch' /\ PlanFresh'
  BY <1>1, RestFacts
<1>3. Typed'
  BY <1>2 DEF CtIInv, Typed, RecordTyped, IndexTyped, SlotTyped
<1> QED
  BY <1>2, <1>3, SameItems, SteadyDispatches DEF RecordGuarded

\* acquire grants a lease, with a new epoch, only while the flock is free.
LEMMA AcquireStep ==
  ASSUME CtIInv, NEW s \in Sups, Acquire(s)
  PROVE  CtIInv'
<1> USE DEF Acquire, lockVars, slotVars, indexVars
<1>1. RecordTyped' /\ IndexTyped' /\ SlotTyped'
  BY DEF CtIInv, Typed, RecordTyped, IndexTyped, SlotTyped
<1>2. LoopTyped' /\ LeadsAnEpoch'
  <2>1. CASE pc' = [pc EXCEPT ![s] = "leaving"] /\ UNCHANGED mine
    BY <2>1 DEF CtIInv, Typed, LoopTyped, LeadsAnEpoch, Places
  <2>2. CASE pc' = [pc EXCEPT ![s] = "lead"] /\ mine' = [mine EXCEPT ![s] = epoch + 1]
    <3>1. epoch \in Nat
      BY DEF CtIInv, Typed, RecordTyped
    <3> QED
      BY <2>2, <3>1 DEF CtIInv, Typed, LoopTyped, LeadsAnEpoch, Places
  <2> QED
    BY <2>1, <2>2
<1>3. Typed' /\ PlanFresh'
  BY <1>1, <1>2 DEF CtIInv, Typed, PlanFresh
<1> QED
  BY <1>2, <1>3, SameItems, SteadyDispatches DEF RecordGuarded

\* A drained loop only leaves.
LEMMA DrainStep ==
  ASSUME CtIInv, NEW s \in Sups, Drain(s)
  PROVE  CtIInv'
<1> USE DEF Drain, lockVars, slotVars, indexVars, recordVars
<1>1. Typed' /\ LeadsAnEpoch'
  BY DEF CtIInv, Typed, RecordTyped, LoopTyped, IndexTyped, SlotTyped, LeadsAnEpoch, Places
<1>2. PlanFresh'
  BY DEF CtIInv, PlanFresh
<1> QED
  BY <1>1, <1>2, SameItems, SteadyDispatches DEF RecordGuarded

\* An expiry does not change who the record names.
LEMMA LapseStep ==
  ASSUME CtIInv, Lapse \/ LapseLate
  PROVE  CtIInv'
<1> USE DEF Lapse, LapseLate, lockVars, slotVars, indexVars, loopVars
<1>1. Typed' /\ LeadsAnEpoch'
  BY DEF CtIInv, Typed, RecordTyped, LoopTyped, IndexTyped, SlotTyped, LeadsAnEpoch
<1>2. PlanFresh'
  BY DEF CtIInv, PlanFresh
<1> QED
  BY <1>1, <1>2, SameItems, SteadyDispatches DEF RecordGuarded

\* What Select returns is not with a worker of the supervisor.
LEMMA SelectedIsFree ==
  ASSUME NEW s \in Sups, NEW c \in Selections(s), NEW i \in c
  PROVE  i \in Items /\ i \notin Unreported(s)
BY DEF Selections

\* A pass plans items that are with no worker of its supervisor, each once.
LEMMA PassStep ==
  ASSUME CtIInv, NEW s \in Sups, NEW signal \in BOOLEAN, Pass(s, signal)
  PROVE  CtIInv'
<1>1. /\ UNCHANGED <<desired, leader, epoch, lockVars, item, indexVars, jobs, slotVars>>
      /\ \/ Rest(s, "follow")
         \/ /\ UNCHANGED <<pc, mine>>
            /\ \E c \in Selections(s) \cup {{}} :
                 plan' = [plan EXCEPT ![s] =
                            {[item |-> i, rev |-> view[s][i].rev] : i \in c}]
  BY DEF Pass, Drop
<1>2. LoopTyped' /\ LeadsAnEpoch' /\ PlanFresh'
  <2>1. CASE Rest(s, "follow")
    BY <1>1, <2>1, RestFacts DEF Places
  <2>2. CASE /\ UNCHANGED <<pc, mine>>
             /\ \E c \in Selections(s) \cup {{}} :
                  plan' = [plan EXCEPT ![s] =
                             {[item |-> i, rev |-> view[s][i].rev] : i \in c}]
    <3>1. PICK c \in Selections(s) \cup {{}} :
             plan' = [plan EXCEPT ![s] = {[item |-> i, rev |-> view[s][i].rev] : i \in c}]
      BY <2>2
    <3>2. \A i \in c : i \in Items /\ i \notin Unreported(s)
      BY SelectedIsFree
    <3>3. plan \in [Sups -> SUBSET Decisions] /\ view[s] \in [Items -> Snapshots]
      BY DEF CtIInv, Typed, LoopTyped, IndexTyped
    <3>4. {[item |-> i, rev |-> view[s][i].rev] : i \in c} \in SUBSET Decisions
      BY <3>2, <3>3 DEF Decisions, Snapshots
    <3>5. LoopTyped' /\ LeadsAnEpoch'
      BY <2>2, <3>1, <3>3, <3>4 DEF CtIInv, Typed, LoopTyped, LeadsAnEpoch
    <3>6. ASSUME NEW t \in Sups, NEW d \in plan'[t]
          PROVE  /\ \A w \in jobs : ~(w.sup = t /\ w.item = d.item /\ w.epoch # 0)
                 /\ \A e \in plan'[t] : e.item = d.item => e = d
      <4>1. CASE t # s
        BY <3>1, <3>3, <3>6, <4>1 DEF CtIInv, PlanFresh
      <4>2. CASE t = s
        <5>1. plan'[t] = {[item |-> i, rev |-> view[s][i].rev] : i \in c}
          BY <3>1, <3>3, <4>2
        <5>2. d.item \in c /\ d.item \notin Unreported(s)
          BY <3>2, <3>6, <5>1
        <5>3. \A w \in jobs : ~(w.sup = t /\ w.item = d.item /\ w.epoch # 0)
          BY <4>2, <5>2 DEF Unreported
        <5> QED
          BY <5>1, <5>3
      <4> QED
        BY <4>1, <4>2
    <3>7. PlanFresh'
      BY <1>1, <3>6 DEF PlanFresh
    <3> QED
      BY <3>5, <3>7
  <2> QED
    BY <1>1, <2>1, <2>2
<1>3. Typed'
  BY <1>1, <1>2 DEF CtIInv, Typed, RecordTyped, IndexTyped, SlotTyped, indexVars, slotVars
<1> QED
  BY <1>1, <1>2, <1>3, SameItems, SteadyDispatches DEF RecordGuarded

-----------------------------------------------------------------------------
(* The items and the index. *)

\* An operator's claim raises the revision and starts nothing.
LEMMA ClaimStep ==
  ASSUME CtIInv, NEW s \in Sups, NEW i \in Items, Claim(s, i)
  PROVE  CtIInv'
<1> USE DEF Claim, recordVars, lockVars, slotVars, loopVars
<1>1. /\ item' \in [Items -> Snapshots] /\ view' \in [Sups -> [Items -> Snapshots]]
      /\ RevisionsRise /\ NothingStarts
  BY CommittedItem
<1>2. Typed' /\ LeadsAnEpoch' /\ PlanFresh'
  BY <1>1 DEF CtIInv, Typed, RecordTyped, LoopTyped, IndexTyped, SlotTyped,
              LeadsAnEpoch, PlanFresh
<1> QED
  BY <1>1, <1>2, SteadyDispatches DEF RecordGuarded

\* So does a cancellation, which also keeps who started the attempt.
LEMMA CancelStep ==
  ASSUME CtIInv, NEW s \in Sups, NEW i \in Items, Cancel(s, i)
  PROVE  CtIInv'
<1> USE DEF Cancel, recordVars, lockVars, slotVars, loopVars
<1>1. item[i].by \in {None, "ctl", "manual"}
  BY DEF CtIInv, Typed, Snapshots
<1>2. /\ item' \in [Items -> Snapshots] /\ view' \in [Sups -> [Items -> Snapshots]]
      /\ RevisionsRise /\ NothingStarts
  BY <1>1, CommittedItem
<1>3. Typed' /\ LeadsAnEpoch' /\ PlanFresh'
  BY <1>2 DEF CtIInv, Typed, RecordTyped, LoopTyped, IndexTyped, SlotTyped,
              LeadsAnEpoch, PlanFresh
<1> QED
  BY <1>2, <1>3, SteadyDispatches DEF RecordGuarded

\* So does the sweep.
LEMMA ExpireLeaseStep ==
  ASSUME CtIInv, NEW s \in Sups, NEW i \in Items, ExpireLease(s, i)
  PROVE  CtIInv'
<1> USE DEF ExpireLease, recordVars, lockVars, slotVars, loopVars
<1>1. CommitItem(s, i, "ready", None)
  BY DEF CommitItem, Expired
<1>2. /\ item' \in [Items -> Snapshots] /\ view' \in [Sups -> [Items -> Snapshots]]
      /\ RevisionsRise /\ NothingStarts
  BY <1>1, CommittedItem
<1>3. Typed' /\ LeadsAnEpoch' /\ PlanFresh'
  BY <1>2 DEF CtIInv, Typed, RecordTyped, LoopTyped, IndexTyped, SlotTyped,
              LeadsAnEpoch, PlanFresh
<1> QED
  BY <1>2, <1>3, SteadyDispatches DEF RecordGuarded

\* Recovery leaves an item alone or takes it back from nobody.
LEMMA RecoveredItem ==
  ASSUME CtIInv, NEW i \in Items, NEW x \in Recovered(i)
  PROVE  /\ x \in Snapshots
         /\ x = item[i] \/ x.rev > item[i].rev
         /\ Live(x) => Live(item[i])
         /\ x.by = "ctl" => item[i].by = "ctl"
<1>1. item[i] \in Snapshots
  BY DEF CtIInv, Typed
<1>2. x = item[i] \/ x = Snapshot(item[i].rev + 1, "ready", None)
  BY DEF Recovered, Expired
<1> QED
  BY <1>1, <1>2, ControllerAssumption DEF Snapshots, Snapshot, Live

\* A scan recovers an item without touching a dispatch.
LEMMA ScanItemStep ==
  ASSUME CtIInv, NEW s \in Sups, NEW i \in Items, ScanItem(s, i)
  PROVE  CtIInv'
<1> USE DEF recordVars, lockVars, slotVars, loopVars
<1>1. PICK x \in Recovered(i) :
        /\ item' = [item EXCEPT ![i] = x]
        /\ scan' = [scan EXCEPT ![s] =
                      [j \in DOMAIN @ \cup {i} |-> IF j = i THEN x ELSE @[j]]]
  BY DEF ScanItem
<1>2. x \in Snapshots /\ (x = item[i] \/ x.rev > item[i].rev) /\ (Live(x) => Live(item[i]))
  BY RecoveredItem
<1>3. item' \in [Items -> Snapshots] /\ RevisionsRise /\ NothingStarts
  BY <1>1, <1>2 DEF CtIInv, Typed, RevisionsRise, NothingStarts
<1>4. scan' \in [Sups -> Scans]
  <2>1. scan \in [Sups -> Scans]
    BY DEF CtIInv, Typed, IndexTyped
  <2>2. PICK D \in SUBSET Items : scan[s] \in [D -> Snapshots]
    BY <2>1 DEF Scans
  <2>3. [j \in DOMAIN scan[s] \cup {i} |-> IF j = i THEN x ELSE scan[s][j]]
          \in [D \cup {i} -> Snapshots]
    BY <1>2, <2>2
  <2>4. [j \in DOMAIN scan[s] \cup {i} |-> IF j = i THEN x ELSE scan[s][j]] \in Scans
    BY <2>3 DEF Scans
  <2> QED
    BY <1>1, <2>1, <2>4
<1>5. UNCHANGED <<recordVars, lockVars, loopVars, view, jobs, slotVars>>
  BY DEF ScanItem
<1>6. Typed' /\ LeadsAnEpoch' /\ PlanFresh'
  BY <1>3, <1>4, <1>5 DEF CtIInv, Typed, RecordTyped, LoopTyped, IndexTyped, SlotTyped,
              LeadsAnEpoch, PlanFresh
<1> QED
  BY <1>3, <1>5, <1>6, SteadyDispatches DEF RecordGuarded

\* A completed scan replaces the index.
LEMMA RebuildStep ==
  ASSUME CtIInv, NEW s \in Sups, Rebuild(s)
  PROVE  CtIInv'
<1> USE DEF Rebuild, recordVars, lockVars, slotVars, loopVars
<1>1. scan \in [Sups -> Scans] /\ view \in [Sups -> [Items -> Snapshots]]
  BY DEF CtIInv, Typed, IndexTyped
<1>2. scan[s] \in [Items -> Snapshots]
  BY <1>1 DEF Scans
<1>3. Nothing \in [{} -> Snapshots]
  BY DEF Nothing
<1>4. Nothing \in Scans
  BY <1>3 DEF Scans
<1>5. IndexTyped'
  BY <1>1, <1>2, <1>4 DEF IndexTyped
<1>6. Typed' /\ LeadsAnEpoch' /\ PlanFresh'
  BY <1>5 DEF CtIInv, Typed, RecordTyped, LoopTyped, SlotTyped, LeadsAnEpoch, PlanFresh
<1> QED
  BY <1>6, SameItems, SteadyDispatches DEF RecordGuarded

\* Time that passes changes nothing the dispatch boundary reads.
LEMMA ElapseStep ==
  ASSUME CtIInv, NEW s \in Sups, Elapse(s)
  PROVE  CtIInv'
<1> USE DEF Elapse, recordVars, lockVars, slotVars
<1>1. Typed' /\ LeadsAnEpoch' /\ PlanFresh'
  BY DEF CtIInv, Typed, RecordTyped, LoopTyped, IndexTyped, SlotTyped, LeadsAnEpoch, PlanFresh
<1> QED
  BY <1>1, SameItems, SteadyDispatches DEF RecordGuarded

\* The startup barrier recovers items and the record while the flock is free.
LEMMA BootStep ==
  ASSUME CtIInv, NEW s \in Sups, Boot(s)
  PROVE  CtIInv'
<1> USE DEF Boot, lockVars, slotVars
<1>1. item' \in [Items -> Snapshots] /\ RevisionsRise /\ NothingStarts
  BY RecoveredItem DEF RevisionsRise, NothingStarts
<1>2. RecordTyped' /\ LoopTyped' /\ IndexTyped' /\ SlotTyped'
  BY <1>1 DEF CtIInv, Typed, RecordTyped, LoopTyped, IndexTyped, SlotTyped, Places
<1>3. LeadsAnEpoch'
  BY DEF CtIInv, Typed, LoopTyped, LeadsAnEpoch
<1>4. Typed' /\ PlanFresh'
  BY <1>1, <1>2 DEF CtIInv, Typed, PlanFresh
<1> QED
  BY <1>1, <1>3, <1>4, SteadyDispatches DEF RecordGuarded

-----------------------------------------------------------------------------
(***************************************************************************)
(* Steps that move a dispatch.                                             *)
(***************************************************************************)
\* What a dispatch counts for in reserved.
Own(w) == IF w.epoch # 0 /\ w.step \in Holding THEN 1 ELSE 0

\* No dispatch but w changes, and w is past the flocks when the step is over.
OnlyPassed(w) ==
  \A y \in jobs' : (y \in jobs /\ y # w) \/ y.step \notin {"leading", "checked"}

\* The owners of a supervisor can be counted.
LEMMA OwnersFinite ==
  ASSUME IsFiniteSet(jobs), NEW s
  PROVE  IsFiniteSet(Owners(s)) /\ Cardinality(Owners(s)) \in Nat
<1>1. Owners(s) \in SUBSET jobs
  BY DEF Owners
<1> QED
  BY <1>1, FS_Subset, FS_CardinalityType

\* A dispatch that changes its step stays the only one of its kind, and the
\* count of the owners changes by what it counts for.
LEMMA JobMoved ==
  ASSUME CtIInv, NEW w \in jobs, NEW step \in Steps, jobs' = Job(w, step)
  PROVE  LET x == [w EXCEPT !.step = step]
         IN /\ x \in Jobs /\ x.step = step /\ x.rev = w.rev
            /\ x.sup = w.sup /\ x.item = w.item /\ x.epoch = w.epoch
            /\ jobs' = (jobs \ {w}) \cup {x}
            /\ jobs' \subseteq Jobs /\ JobsDistinct' /\ IsFiniteSet(jobs')
            /\ plan' = plan => PlanFresh'
            /\ (w.epoch = 0 => step \in {"leading", "checked", "begun"}) => ManualSkips'
            /\ \A s \in Sups :
                 Cardinality(Owners(s)') =
                   IF s = w.sup THEN Cardinality(Owners(s)) - Own(w) + Own(x)
                                ELSE Cardinality(Owners(s))
<1> DEFINE x == [w EXCEPT !.step = step]
<1>1. w \in Jobs
  BY DEF CtIInv, Typed
<1>2. /\ x \in Jobs /\ x.step = step /\ x.rev = w.rev
      /\ x.sup = w.sup /\ x.item = w.item /\ x.epoch = w.epoch
  BY <1>1 DEF Jobs
<1>3. jobs' = (jobs \ {w}) \cup {x}
  BY DEF Job
<1> HIDE DEF x
<1>4. jobs' \subseteq Jobs
  BY <1>2, <1>3 DEF CtIInv, Typed
<1>5. JobsDistinct'
  BY <1>2, <1>3 DEF CtIInv, JobsDistinct, SameKind
<1>6. IsFiniteSet(jobs')
  <2>1. IsFiniteSet(jobs \ {w})
    BY FS_RemoveElement DEF CtIInv, Finite
  <2> QED
    BY <1>3, <2>1, FS_AddElement
<1>7. ASSUME plan' = plan
      PROVE  PlanFresh'
  <2>1. \A y \in jobs' : \E v \in jobs : v.sup = y.sup /\ v.item = y.item /\ v.epoch = y.epoch
    BY <1>2, <1>3
  <2> QED
    BY <1>7, <2>1 DEF CtIInv, PlanFresh
<1>8. ASSUME NEW s \in Sups
      PROVE  Cardinality(Owners(s)') =
               IF s = w.sup THEN Cardinality(Owners(s)) - Own(w) + Own(x)
                            ELSE Cardinality(Owners(s))
  <2>1. IsFiniteSet(Owners(s)) /\ Cardinality(Owners(s)) \in Nat
    BY OwnersFinite DEF CtIInv, Finite
  <2>2. CASE s # w.sup
    <3>1. Owners(s)' = Owners(s)
      BY <1>2, <1>3, <2>2 DEF Owners
    <3> QED
      BY <2>2, <3>1
  <2>3. CASE s = w.sup
    <3>1. x \notin Owners(s) \ {w}
      <4>1. SUFFICES ASSUME x \in jobs PROVE x = w
        BY DEF Owners
      <4> QED
        BY <1>2, <4>1 DEF CtIInv, JobsDistinct, SameKind
    <3>2. Owners(s)' = IF Own(x) = 1 THEN (Owners(s) \ {w}) \cup {x} ELSE Owners(s) \ {w}
      BY <1>2, <1>3, <2>3 DEF Owners, Own
    <3>3. w \in Owners(s) <=> Own(w) = 1
      BY <2>3 DEF Owners, Own
    <3>4. /\ IsFiniteSet(Owners(s) \ {w})
          /\ Cardinality(Owners(s) \ {w}) = Cardinality(Owners(s)) - Own(w)
      BY <2>1, <3>3, FS_RemoveElement DEF Own
    <3>5. Cardinality((Owners(s) \ {w}) \cup {x}) = Cardinality(Owners(s) \ {w}) + 1
      BY <3>1, <3>4, FS_AddElement
    <3> QED
      BY <2>1, <2>3, <3>2, <3>4, <3>5 DEF Own
  <2> QED
    BY <2>2, <2>3
<1>9. (w.epoch = 0 => step \in {"leading", "checked", "begun"}) => ManualSkips'
  BY <1>2, <1>3 DEF CtIInv, ManualSkips
<1> QED
  BY <1>2, <1>3, <1>4, <1>5, <1>6, <1>7, <1>8, <1>9 DEF x

\* So does one that is gone.
LEMMA JobRemoved ==
  ASSUME CtIInv, NEW w \in jobs, jobs' = jobs \ {w}
  PROVE  /\ jobs' \subseteq Jobs /\ JobsDistinct' /\ ManualSkips' /\ IsFiniteSet(jobs')
         /\ plan' = plan => PlanFresh'
         /\ \A s \in Sups :
              Cardinality(Owners(s)') =
                IF s = w.sup THEN Cardinality(Owners(s)) - Own(w)
                             ELSE Cardinality(Owners(s))
<1>1. jobs' \subseteq Jobs /\ JobsDistinct' /\ ManualSkips' /\ IsFiniteSet(jobs')
  BY FS_RemoveElement DEF CtIInv, Typed, Finite, JobsDistinct, SameKind, ManualSkips
<1>2. plan' = plan => PlanFresh'
  BY DEF CtIInv, PlanFresh
<1>3. ASSUME NEW s \in Sups
      PROVE  Cardinality(Owners(s)') =
               IF s = w.sup THEN Cardinality(Owners(s)) - Own(w)
                            ELSE Cardinality(Owners(s))
  <2>1. IsFiniteSet(Owners(s)) /\ Cardinality(Owners(s)) \in Nat
    BY OwnersFinite DEF CtIInv, Finite
  <2>2. Owners(s)' = Owners(s) \ {w}
    BY DEF Owners
  <2>3. w \in Owners(s) <=> (s = w.sup /\ Own(w) = 1)
    BY DEF Owners, Own
  <2>4. Cardinality(Owners(s) \ {w}) =
          IF w \in Owners(s) THEN Cardinality(Owners(s)) - 1 ELSE Cardinality(Owners(s))
    BY <2>1, FS_RemoveElement
  <2>5. Own(w) = 0 \/ Own(w) = 1
    BY DEF Own
  <2> QED
    BY <2>1, <2>2, <2>3, <2>4, <2>5
<1> QED
  BY <1>1, <1>2, <1>3

\* A dispatch that ends gives back what it counted for.
LEMMA JobFinished ==
  ASSUME CtIInv, NEW w \in jobs, NEW result \in Results, Finish(w, result)
  PROVE  /\ jobs' \subseteq Jobs /\ JobsDistinct' /\ ManualSkips' /\ IsFiniteSet(jobs')
         /\ plan' = plan => PlanFresh'
         /\ OnlyPassed(w)
         /\ \A s \in Sups :
              Cardinality(Owners(s)') =
                IF s = w.sup THEN Cardinality(Owners(s)) - Own(w)
                             ELSE Cardinality(Owners(s))
<1>1. CASE w.epoch = 0
  BY <1>1, JobRemoved DEF Finish, OnlyPassed
<1>2. CASE w.epoch # 0
  <2> DEFINE x == [w EXCEPT !.step = result]
  <2>1. result \in Steps /\ result \notin Holding /\ result \notin {"leading", "checked"}
    BY DEF Steps, Results, Holding
  <2>2. jobs' = Job(w, result)
    BY <1>2 DEF Finish
  <2>3. /\ x.step = result /\ jobs' = (jobs \ {w}) \cup {x}
        /\ jobs' \subseteq Jobs /\ JobsDistinct' /\ ManualSkips' /\ IsFiniteSet(jobs')
        /\ plan' = plan => PlanFresh'
        /\ \A s \in Sups :
             Cardinality(Owners(s)') =
               IF s = w.sup THEN Cardinality(Owners(s)) - Own(w) + Own(x)
                            ELSE Cardinality(Owners(s))
    BY <1>2, <2>1, <2>2, JobMoved
  <2>4. Own(x) = 0
    BY <2>1, <2>3 DEF Own
  <2>5. \A s \in Sups : Cardinality(Owners(s)) \in Nat
    BY OwnersFinite DEF CtIInv, Finite
  <2>6. OnlyPassed(w)
    BY <2>1, <2>3 DEF OnlyPassed
  <2> QED
    BY <2>3, <2>4, <2>5, <2>6 DEF Own
<1> QED
  BY <1>1, <1>2

\* The flocks of the others stay theirs.
LEMMA FlocksKept ==
  ASSUME CtIInv, NEW w \in jobs, OnlyPassed(w), UNCHANGED lockVars \/ Unlock(w),
         UNCHANGED recordVars
  PROVE  LocksHeld' /\ LeaderStands'
<1>1. ASSUME NEW y \in jobs', y \in jobs, y # w
      PROVE  /\ y.step = "checked" => dspLock' = Id(y)
             /\ y.epoch # 0 /\ y.step \in {"leading", "checked"} => ctlLock' = Id(y)
  <2>1. Id(y) # Id(w)
    BY <1>1 DEF CtIInv, JobsDistinct, SameKind, Id
  <2>2. /\ y.step = "checked" => dspLock = Id(y)
        /\ y.epoch # 0 /\ y.step \in {"leading", "checked"} => ctlLock = Id(y)
    BY <1>1 DEF CtIInv, LocksHeld
  <2> QED
    BY <2>1, <2>2 DEF Unlock, lockVars
<1>2. LocksHeld'
  BY <1>1 DEF LocksHeld, OnlyPassed, Id
<1>3. LeaderStands'
  BY DEF CtIInv, LeaderStands, OnlyPassed, recordVars
<1> QED
  BY <1>2, <1>3

\* The bookkeeping of a step that moves w: reserved follows the owners, and the
\* runtimes take no more than it gives back.
LEMMA SlotsFollow ==
  ASSUME CtIInv, NEW w \in jobs, NEW n \in Int,
         \A s \in Sups :
           Cardinality(Owners(s)') =
             IF s = w.sup THEN Cardinality(Owners(s)) + n ELSE Cardinality(Owners(s)),
         reserved' = [reserved EXCEPT ![w.sup] = reserved[w.sup] + n],
         runtimes' \in [Sups -> SUBSET Items],
         \A s \in Sups : IsFiniteSet(runtimes'[s]),
         \A s \in Sups \ {w.sup} : runtimes'[s] = runtimes[s],
         \/ n + Cardinality(runtimes'[w.sup]) <= Cardinality(runtimes[w.sup])
         \/ reserved[w.sup] + n + Cardinality(runtimes'[w.sup]) <= MaxRuntimes,
         IsFiniteSet(jobs')
  PROVE  SlotTyped' /\ SlotsAccounted' /\ Finite'
<1>1. w.sup \in Sups /\ reserved \in [Sups -> Nat] /\ MaxRuntimes \in Nat
  BY ControllerAssumption DEF CtIInv, Typed, SlotTyped, Jobs
<1>2. \A s \in Sups : /\ reserved[s] = Cardinality(Owners(s))
                      /\ reserved[s] + Cardinality(runtimes[s]) <= MaxRuntimes
  BY DEF CtIInv, SlotsAccounted, Owners
<1>3. \A s \in Sups : /\ Cardinality(runtimes[s]) \in Nat
                      /\ Cardinality(runtimes'[s]) \in Nat
  BY FS_CardinalityType DEF CtIInv, Finite
<1>4. ASSUME NEW s \in Sups
      PROVE  Cardinality(Owners(s)') \in Nat
  <2>1. Owners(s)' \in SUBSET jobs'
    BY DEF Owners
  <2>2. IsFiniteSet(Owners(s)')
    BY <2>1, FS_Subset
  <2> QED
    BY <2>2, FS_CardinalityType
<1>5. ASSUME NEW s \in Sups
      PROVE  /\ reserved'[s] = Cardinality(Owners(s)')
             /\ reserved'[s] + Cardinality(runtimes'[s]) <= MaxRuntimes
  <2>1. CASE s = w.sup
    <3>1. reserved'[s] = reserved[s] + n /\ reserved[s] \in Nat
      BY <1>1, <2>1
    <3> QED
      BY <1>1, <1>2, <1>3, <2>1, <3>1
  <2>2. CASE s # w.sup
    <3>1. reserved'[s] = reserved[s] /\ reserved[s] \in Nat
      BY <1>1, <2>2
    <3> QED
      BY <1>1, <1>2, <1>3, <2>2, <3>1
  <2> QED
    BY <2>1, <2>2
<1>6. reserved' \in [Sups -> Nat]
  BY <1>1, <1>4, <1>5
<1> QED
  BY <1>5, <1>6 DEF SlotTyped, SlotsAccounted, Owners, Finite

\* A dispatch counts for one reservation at most.
LEMMA OwnRange ==
  ASSUME NEW w
  PROVE  Own(w) \in {0, 1}
BY DEF Own

\* A dispatch that ends where it owns a reservation, or where it owns none.
LEMMA EndedDispatch ==
  ASSUME CtIInv, NEW w \in jobs, NEW result \in Results, Finish(w, result),
         runtimes' = runtimes, plan' = plan,
         \/ w.step \in Holding /\ ReleaseSlot(w)
         \/ w.step \notin Holding /\ UNCHANGED reserved
  PROVE  /\ jobs' \subseteq Jobs /\ JobsDistinct' /\ ManualSkips' /\ PlanFresh' /\ OnlyPassed(w)
         /\ SlotTyped' /\ SlotsAccounted' /\ Finite'
<1>1. /\ jobs' \subseteq Jobs /\ JobsDistinct' /\ ManualSkips' /\ PlanFresh' /\ OnlyPassed(w)
      /\ IsFiniteSet(jobs')
      /\ \A s \in Sups :
           Cardinality(Owners(s)') =
             IF s = w.sup THEN Cardinality(Owners(s)) - Own(w) ELSE Cardinality(Owners(s))
  BY JobFinished
<1>2. Own(w) \in {0, 1} /\ (-Own(w)) \in Int
  BY OwnRange
<1>3. \A s \in Sups : Cardinality(Owners(s)) \in Nat /\ Cardinality(runtimes[s]) \in Nat
  BY OwnersFinite, FS_CardinalityType DEF CtIInv, Finite
<1>4. /\ runtimes \in [Sups -> SUBSET Items] /\ reserved \in [Sups -> Nat]
      /\ w.sup \in Sups
  BY DEF CtIInv, Typed, SlotTyped, Jobs
<1>5. reserved' = [reserved EXCEPT ![w.sup] = reserved[w.sup] + (-Own(w))]
  <2>1. CASE w.step \in Holding /\ ReleaseSlot(w)
    <3>1. Reservation(w) = Own(w)
      BY <2>1 DEF Reservation, Own
    <3>2. reserved' = [reserved EXCEPT ![w.sup] = reserved[w.sup] - Own(w)]
      BY <2>1, <3>1 DEF ReleaseSlot
    <3>3. reserved[w.sup] - Own(w) = reserved[w.sup] + (-Own(w))
      BY <1>2, <1>4
    <3> QED
      BY <3>2, <3>3
  <2>2. CASE w.step \notin Holding /\ UNCHANGED reserved
    <3>1. Own(w) = 0
      BY <2>2 DEF Own
    <3> QED
      BY <1>4, <2>2, <3>1
  <2> QED
    BY <2>1, <2>2
<1>6. \A s \in Sups :
        Cardinality(Owners(s)') =
          IF s = w.sup THEN Cardinality(Owners(s)) + (-Own(w)) ELSE Cardinality(Owners(s))
  BY <1>1, <1>2, <1>3
<1>7. (-Own(w)) + Cardinality(runtimes'[w.sup]) <= Cardinality(runtimes[w.sup])
  BY <1>2, <1>3, <1>4
<1>8. \A s \in Sups : IsFiniteSet(runtimes'[s])
  BY DEF CtIInv, Finite
<1>9. SlotTyped' /\ SlotsAccounted' /\ Finite'
  BY <1>1, <1>2, <1>4, <1>5, <1>6, <1>7, <1>8, SlotsFollow
<1> QED
  BY <1>1, <1>9

\* A dispatch that goes on, with the reservation it needs.
LEMMA MovedDispatch ==
  ASSUME CtIInv, NEW w \in jobs, NEW step \in Steps, jobs' = Job(w, step),
         runtimes' = runtimes,
         LET x == [w EXCEPT !.step = step]
         IN \/ Own(x) = Own(w) /\ UNCHANGED reserved
            \/ /\ Own(w) = 0 /\ Own(x) = 1 /\ Room(w.sup)
               /\ reserved' = [reserved EXCEPT ![w.sup] = @ + 1]
  PROVE  SlotTyped' /\ SlotsAccounted' /\ Finite'
<1> DEFINE x == [w EXCEPT !.step = step]
           n == Own(x) - Own(w)
<1>1. /\ IsFiniteSet(jobs')
      /\ \A s \in Sups :
           Cardinality(Owners(s)') =
             IF s = w.sup THEN Cardinality(Owners(s)) - Own(w) + Own(x)
                          ELSE Cardinality(Owners(s))
  BY JobMoved
<1>2. /\ runtimes \in [Sups -> SUBSET Items] /\ reserved \in [Sups -> Nat]
      /\ w.sup \in Sups /\ MaxRuntimes \in Nat
  BY ControllerAssumption DEF CtIInv, Typed, SlotTyped, Jobs
<1>3. Own(w) \in {0, 1} /\ Own(x) \in {0, 1} /\ n \in Int
  BY OwnRange
<1>4. \/ n = 0 /\ UNCHANGED reserved
      \/ /\ n = 1 /\ Room(w.sup)
         /\ reserved' = [reserved EXCEPT ![w.sup] = reserved[w.sup] + 1]
  BY <1>3
<1> HIDE DEF x
<1>5. \A s \in Sups : Cardinality(Owners(s)) \in Nat /\ Cardinality(runtimes[s]) \in Nat
  BY OwnersFinite, FS_CardinalityType DEF CtIInv, Finite
<1>6. \A s \in Sups :
        Cardinality(Owners(s)') =
          IF s = w.sup THEN Cardinality(Owners(s)) + n ELSE Cardinality(Owners(s))
  BY <1>1, <1>3, <1>5
<1> HIDE DEF n
<1>7. \A s \in Sups : IsFiniteSet(runtimes'[s])
  BY DEF CtIInv, Finite
<1>8. \/ n + Cardinality(runtimes'[w.sup]) <= Cardinality(runtimes[w.sup])
      \/ reserved[w.sup] + n + Cardinality(runtimes'[w.sup]) <= MaxRuntimes
  BY <1>2, <1>4, <1>5 DEF Room
<1>9. reserved' = [reserved EXCEPT ![w.sup] = reserved[w.sup] + n]
  BY <1>2, <1>4
<1> QED
  BY <1>1, <1>2, <1>3, <1>6, <1>7, <1>8, <1>9, SlotsFollow

\* Putting the pieces together for a step of a dispatch.
LEMMA DispatchMoves ==
  ASSUME CtIInv, jobs' \subseteq Jobs, JobsDistinct', ManualSkips', PlanFresh',
         LocksHeld', LeaderStands', SlotTyped', SlotsAccounted', Finite', CheckStands', KeyExclusive',
         UNCHANGED <<recordVars, loopVars, scan>>,
         item' \in [Items -> Snapshots], view' \in [Sups -> [Items -> Snapshots]]
  PROVE  CtIInv'
BY DEF CtIInv, Typed, RecordTyped, LoopTyped, IndexTyped, recordVars, loopVars, LeadsAnEpoch

\* The same for one that ends without a commit.
LEMMA DispatchEnds ==
  ASSUME CtIInv, NEW w \in jobs, NEW result \in Results, Finish(w, result),
         UNCHANGED <<recordVars, loopVars, indexVars, item, runtimes>>,
         \/ w.step \in Holding /\ ReleaseSlot(w)
         \/ w.step \notin Holding /\ UNCHANGED reserved,
         UNCHANGED lockVars \/ Unlock(w)
  PROVE  CtIInv'
<1>1. /\ jobs' \subseteq Jobs /\ JobsDistinct' /\ ManualSkips' /\ PlanFresh' /\ OnlyPassed(w)
      /\ SlotTyped' /\ SlotsAccounted' /\ Finite'
  BY EndedDispatch DEF loopVars
<1>2. LocksHeld' /\ LeaderStands'
  BY <1>1, FlocksKept
<1>3. item' \in [Items -> Snapshots] /\ view' \in [Sups -> [Items -> Snapshots]]
  BY DEF CtIInv, Typed, IndexTyped, indexVars
<1>4. CheckStands' /\ KeyExclusive'
  BY <1>1, <1>3, SameItems, ChecksStand DEF OnlyPassed
<1> QED
  BY <1>1, <1>2, <1>3, <1>4, DispatchMoves DEF indexVars

\* reserveAdmission counts the dispatch it admits.
LEMMA ReserveAdmissionStep ==
  ASSUME CtIInv, NEW w \in jobs, ReserveAdmission(w)
  PROVE  CtIInv'
<1>1. /\ UNCHANGED <<recordVars, lockVars, item, loopVars, indexVars, runtimes>>
      /\ w.step = "new" /\ w.step \notin Holding
  BY DEF ReserveAdmission, Holding
<1>2. CASE Finish(w, "other") /\ UNCHANGED reserved
  BY <1>1, <1>2, DispatchEnds DEF Results
<1>3. CASE Finish(w, "capacity") /\ UNCHANGED reserved
  BY <1>1, <1>3, DispatchEnds DEF Results
<1>4. CASE /\ Room(w.sup) /\ jobs' = Job(w, "admitted")
           /\ reserved' = [reserved EXCEPT ![w.sup] = @ + 1]
  <2> DEFINE x == [w EXCEPT !.step = "admitted"]
  <2>1. "admitted" \in Steps /\ "admitted" \in Holding /\ w.epoch # 0
    BY <1>1 DEF CtIInv, ManualSkips, Steps, Holding
  <2>2. /\ jobs' \subseteq Jobs /\ JobsDistinct' /\ ManualSkips' /\ PlanFresh'
        /\ x.step = "admitted" /\ x.epoch = w.epoch /\ jobs' = (jobs \ {w}) \cup {x}
    BY <1>1, <1>4, <2>1, JobMoved DEF loopVars
  <2>3. OnlyPassed(w)
    BY <2>2 DEF OnlyPassed
  <2>4. LocksHeld' /\ LeaderStands'
    BY <1>1, <2>3, FlocksKept
  <2>5. Own(w) = 0 /\ Own(x) = 1
    BY <1>1, <2>1, <2>2 DEF Own
  <2>6. SlotTyped' /\ SlotsAccounted' /\ Finite'
    BY <1>1, <1>4, <2>1, <2>5, MovedDispatch DEF loopVars
  <2>7. item' \in [Items -> Snapshots] /\ view' \in [Sups -> [Items -> Snapshots]]
    BY <1>1 DEF CtIInv, Typed, IndexTyped, indexVars
  <2>8. CheckStands' /\ KeyExclusive'
    BY <1>1, <2>3, <2>7, SameItems, ChecksStand DEF OnlyPassed
  <2> QED
    BY <1>1, <2>2, <2>4, <2>6, <2>7, <2>8, DispatchMoves DEF indexVars
<1> QED
  BY <1>2, <1>3, <1>4 DEF ReserveAdmission

\* WithLeader leaves the flock with the dispatch whose leader it has checked.
LEMMA WithLeaderStep ==
  ASSUME CtIInv, NEW w \in jobs, WithLeader(w)
  PROVE  CtIInv'
<1>1. /\ UNCHANGED <<recordVars, dspLock, item, loopVars, indexVars, runtimes>>
      /\ w.step = "admitted" /\ w.step \in Holding
  BY DEF WithLeader, Holding
<1>2. CASE Finish(w, "other") /\ ReleaseSlot(w) /\ UNCHANGED ctlLock
  BY <1>1, <1>2, DispatchEnds DEF Results, lockVars
<1>3. CASE Finish(w, "not_leader") /\ ReleaseSlot(w) /\ UNCHANGED ctlLock
  BY <1>1, <1>3, DispatchEnds DEF Results, lockVars
<1>4. CASE /\ ctlLock = None /\ LeaderIs(w) /\ KeepControllerLock(w)
           /\ jobs' = Job(w, "leading") /\ UNCHANGED reserved
  <2> DEFINE x == [w EXCEPT !.step = "leading"]
  <2>1. "leading" \in Steps /\ "leading" \in Holding /\ w.epoch # 0
    BY <1>1 DEF CtIInv, ManualSkips, Steps, Holding
  <2>2. /\ jobs' \subseteq Jobs /\ JobsDistinct' /\ ManualSkips' /\ PlanFresh'
        /\ x.step = "leading" /\ x.epoch = w.epoch /\ x.sup = w.sup /\ x.item = w.item
        /\ jobs' = (jobs \ {w}) \cup {x}
    BY <1>1, <1>4, <2>1, JobMoved DEF loopVars
  <2>3. Own(x) = Own(w)
    BY <1>1, <2>1, <2>2 DEF Own
  <2>4. SlotTyped' /\ SlotsAccounted' /\ Finite'
    BY <1>1, <1>4, <2>1, <2>3, MovedDispatch
  <2> HIDE DEF x
  <2>5. \A y \in jobs : ~(y.epoch # 0 /\ y.step \in {"leading", "checked"})
    BY <1>4, IdNotNone DEF CtIInv, Typed, LocksHeld
  <2>6. LocksHeld'
    BY <1>1, <1>4, <2>2, <2>5 DEF CtIInv, LocksHeld, KeepControllerLock, Id
  <2>7. LeaderStands'
    BY <1>1, <1>4, <2>2, <2>5 DEF LeaderStands, LeaderIs, recordVars
  <2>8. item' \in [Items -> Snapshots] /\ view' \in [Sups -> [Items -> Snapshots]]
    BY <1>1 DEF CtIInv, Typed, IndexTyped, indexVars
  <2>9. CheckStands' /\ KeyExclusive'
    BY <1>1, <2>2, <2>8, SameItems, ChecksStand
  <2> QED
    BY <1>1, <2>2, <2>4, <2>6, <2>7, <2>8, <2>9, DispatchMoves DEF indexVars
<1> QED
  BY <1>2, <1>3, <1>4 DEF WithLeader

\* BeginDispatch takes dispatch.lock before it reads the item and the keys.
LEMMA CheckStartStep ==
  ASSUME CtIInv, NEW w \in jobs, CheckStart(w)
  PROVE  CtIInv'
<1>1. /\ UNCHANGED <<recordVars, item, loopVars, indexVars, runtimes>>
      /\ w.step = "leading" /\ w.step \in Holding /\ dspLock = None
  BY DEF CheckStart, Holding
<1>2. CASE Finish(w, "other") /\ ReleaseSlot(w) /\ Unlock(w)
  BY <1>1, <1>2, DispatchEnds DEF Results
<1>3. CASE /\ Startable(w) /\ ~KeyHeld(w.item) /\ LockDispatch(w)
           /\ jobs' = Job(w, "checked") /\ UNCHANGED <<ctlLock, reserved>>
  <2> DEFINE x == [w EXCEPT !.step = "checked"]
  <2>1. "checked" \in Steps /\ "checked" \in Holding
    BY DEF Steps, Holding
  <2>2. /\ jobs' \subseteq Jobs /\ JobsDistinct' /\ ManualSkips' /\ PlanFresh'
        /\ x.step = "checked" /\ x.epoch = w.epoch /\ x.sup = w.sup /\ x.item = w.item
        /\ x.rev = w.rev /\ jobs' = (jobs \ {w}) \cup {x}
    BY <1>1, <1>3, <2>1, JobMoved DEF loopVars
  <2>3. Own(x) = Own(w)
    BY <1>1, <2>1, <2>2 DEF Own
  <2>4. SlotTyped' /\ SlotsAccounted' /\ Finite'
    BY <1>1, <1>3, <2>1, <2>3, MovedDispatch
  <2> HIDE DEF x
  <2>5. \A y \in jobs : y.step # "checked"
    BY <1>1, IdNotNone DEF CtIInv, Typed, LocksHeld
  <2>6. LocksHeld'
    BY <1>1, <1>3, <2>2, <2>5 DEF CtIInv, LocksHeld, LockDispatch, Id
  <2>7. LeaderStands'
    BY <1>1, <2>2 DEF CtIInv, LeaderStands, recordVars
  <2>8. item' \in [Items -> Snapshots] /\ view' \in [Sups -> [Items -> Snapshots]]
    BY <1>1 DEF CtIInv, Typed, IndexTyped, indexVars
  <2>9. item[w.item].rev = w.rev /\ w.rev \in Nat
        /\ item[w.item].st = IF w.epoch = 0 THEN "leased" ELSE "ready"
    BY <1>3 DEF Startable, AtRevision, CtIInv, Typed, Jobs
  <2>10. CheckStands'
    BY <1>1, <1>3, <2>2, <2>5, <2>9 DEF CheckStands, KeyHeld, AtRevision
  <2>11. KeyExclusive'
    BY <1>1 DEF CtIInv, KeyExclusive
  <2> QED
    BY <1>1, <2>2, <2>4, <2>6, <2>7, <2>8, <2>10, <2>11, DispatchMoves DEF indexVars
<1> QED
  BY <1>2, <1>3 DEF CheckStart

\* The commit starts the one item that was checked, and frees both flocks.
LEMMA CommitStartStep ==
  ASSUME CtIInv, NEW w \in jobs, CommitStart(w)
  PROVE  CtIInv'
<1>1. /\ UNCHANGED <<recordVars, loopVars, recent, scan, runtimes>> /\ Unlock(w)
      /\ w.step = "checked" /\ w.step \in Holding
  BY DEF CommitStart, Holding
<1>2. CASE Finish(w, "other") /\ ReleaseSlot(w) /\ UNCHANGED <<item, view>>
  BY <1>1, <1>2, DispatchEnds DEF Results, indexVars
<1>3. CASE /\ AtRevision(w) /\ jobs' = Job(w, "begun") /\ UNCHANGED reserved
           /\ CommitItem(w.sup, w.item, "running", IF w.epoch = 0 THEN "manual" ELSE "ctl")
  <2> DEFINE x == [w EXCEPT !.step = "begun"]
  <2>1. "begun" \in Steps /\ "begun" \in Holding
    BY DEF Steps, Holding
  <2>2. /\ jobs' \subseteq Jobs /\ JobsDistinct' /\ ManualSkips' /\ PlanFresh'
        /\ x.step = "begun" /\ x.epoch = w.epoch /\ x.sup = w.sup /\ x.item = w.item
        /\ jobs' = (jobs \ {w}) \cup {x}
    BY <1>1, <1>3, <2>1, JobMoved DEF loopVars
  <2>3. Own(x) = Own(w)
    BY <1>1, <2>1, <2>2 DEF Own
  <2>4. SlotTyped' /\ SlotsAccounted' /\ Finite'
    BY <1>1, <1>3, <2>1, <2>3, MovedDispatch
  <2> HIDE DEF x
  <2>5. \A y \in jobs : y # w => y.step # "checked"
    BY <1>1 DEF CtIInv, LocksHeld, Id, JobsDistinct, SameKind
  <2>6. OnlyPassed(w)
    BY <2>2 DEF OnlyPassed
  <2>7. LocksHeld' /\ LeaderStands'
    BY <1>1, <2>6, FlocksKept
  <2>8. w.sup \in Sups /\ w.item \in Items
    BY DEF CtIInv, Typed, Jobs
  <2>9. /\ item' \in [Items -> Snapshots] /\ view' \in [Sups -> [Items -> Snapshots]]
        /\ \A j \in Items \ {w.item} : item'[j] = item[j]
    BY <1>3, <2>8, CommittedItem
  <2>10. CheckStands'
    BY <2>2, <2>5 DEF CheckStands
  <2>11. ~KeyHeld(w.item)
    BY <1>1 DEF CtIInv, CheckStands
  <2>12. KeyExclusive'
    BY <2>8, <2>9, <2>11 DEF CtIInv, KeyExclusive, KeyHeld
  <2> QED
    BY <1>1, <2>2, <2>4, <2>7, <2>9, <2>10, <2>12, DispatchMoves
<1> QED
  BY <1>2, <1>3 DEF CommitStart

\* An attempt that ends starts nothing.
LEMMA TerminatedItem ==
  ASSUME CtIInv, NEW s \in Sups, NEW i \in Items, NEW st \in {"ready", "closed"},
         Terminate(s, i, st)
  PROVE  /\ item' \in [Items -> Snapshots]
         /\ view' \in [Sups -> [Items -> Snapshots]]
         /\ RevisionsRise /\ NothingStarts
         /\ item'[i].by = None /\ \A j \in Items \ {i} : item'[j] = item[j]
<1> DEFINE to == IF item[i].st = "running" THEN st ELSE item[i].st
<1>1. to \in {"ready", "leased", "closed"}
  BY DEF CtIInv, Typed, Snapshots
<1>2. CommitItem(s, i, to, None)
  BY DEF Terminate
<1> HIDE DEF to
<1>3. /\ item' \in [Items -> Snapshots] /\ view' \in [Sups -> [Items -> Snapshots]]
      /\ RevisionsRise /\ NothingStarts
      /\ item'[i] = Snapshot(item[i].rev + 1, to, None)
      /\ \A j \in Items \ {i} : item'[j] = item[j]
  <2>1. to \in {"ready", "leased", "running", "closed"} /\ to # "running"
    BY <1>1
  <2> QED
    BY <1>2, <2>1, CommittedItem
<1> QED
  BY <1>3 DEF Snapshot

\* The executor hands the reservation over to the runtime, or gives it back.
LEMMA StartRuntimeStep ==
  ASSUME CtIInv, NEW w \in jobs, StartRuntime(w)
  PROVE  CtIInv'
<1>1. /\ UNCHANGED <<recordVars, lockVars, loopVars, recent, scan>> /\ ReleaseSlot(w)
      /\ w.step = "begun" /\ w.step \in Holding
  BY DEF StartRuntime, Holding
<1>2. w.sup \in Sups /\ w.item \in Items /\ w \in Jobs
  BY DEF CtIInv, Typed, Jobs
<1>3. /\ item' \in [Items -> Snapshots] /\ view' \in [Sups -> [Items -> Snapshots]]
      /\ RevisionsRise /\ NothingStarts
  <2>1. CASE UNCHANGED <<item, view>>
    BY <2>1, SameItems DEF CtIInv, Typed, IndexTyped
  <2>2. CASE CommitItem(w.sup, w.item, item[w.item].st, item[w.item].by)
    <3>1. item[w.item] \in Snapshots
      BY <1>2 DEF CtIInv, Typed
    <3>2. /\ item[w.item].st \in {"ready", "leased", "running", "closed"}
          /\ item[w.item].by \in {None, "ctl", "manual"}
      BY <3>1 DEF Snapshots
    <3> QED
      BY <1>2, <2>2, <3>2, CommittedItem DEF Live
  <2>3. CASE Terminate(w.sup, w.item, AfterFailure(w.item))
    BY <1>2, <2>3, TerminatedItem DEF AfterFailure
  <2> QED
    BY <2>1, <2>2, <2>3 DEF StartRuntime, FinalizeDispatch
<1>4. PICK result \in Results : Finish(w, result)
  BY DEF StartRuntime, Results
<1>5. /\ jobs' \subseteq Jobs /\ JobsDistinct' /\ ManualSkips' /\ IsFiniteSet(jobs')
      /\ PlanFresh' /\ OnlyPassed(w)
      /\ \A s \in Sups :
           Cardinality(Owners(s)') =
             IF s = w.sup THEN Cardinality(Owners(s)) - Own(w) ELSE Cardinality(Owners(s))
  BY <1>1, <1>4, JobFinished DEF loopVars
<1>6. SlotTyped' /\ SlotsAccounted' /\ Finite'
  <2>1. CASE UNCHANGED runtimes
    BY <1>1, <1>4, <2>1, EndedDispatch DEF loopVars
  <2>2. CASE /\ w.epoch = 0 => Room(w.sup)
             /\ runtimes' = [runtimes EXCEPT ![w.sup] = @ \cup {w.item}]
    <3> DEFINE n == -Own(w)
    <3>1. Own(w) = (IF w.epoch = 0 THEN 0 ELSE 1) /\ Reservation(w) = Own(w) /\ n \in Int
      BY <1>1 DEF Own, Reservation
    <3>2. \A s \in Sups : /\ Cardinality(Owners(s)) \in Nat /\ Cardinality(runtimes[s]) \in Nat
                          /\ IsFiniteSet(runtimes[s])
      BY OwnersFinite, FS_CardinalityType DEF CtIInv, Finite
    <3>3. /\ runtimes \in [Sups -> SUBSET Items] /\ reserved \in [Sups -> Nat]
          /\ MaxRuntimes \in Nat
      BY ControllerAssumption DEF CtIInv, Typed, SlotTyped
    <3>4. /\ runtimes'[w.sup] = runtimes[w.sup] \cup {w.item}
          /\ \A s \in Sups \ {w.sup} : runtimes'[s] = runtimes[s]
          /\ runtimes' \in [Sups -> SUBSET Items]
      BY <1>2, <2>2, <3>3
    <3>5. /\ IsFiniteSet(runtimes'[w.sup]) /\ Cardinality(runtimes'[w.sup]) \in Nat
          /\ Cardinality(runtimes'[w.sup]) <= Cardinality(runtimes[w.sup]) + 1
      <4>1. /\ IsFiniteSet(runtimes[w.sup] \cup {w.item})
            /\ Cardinality(runtimes[w.sup] \cup {w.item}) =
                 IF w.item \in runtimes[w.sup] THEN Cardinality(runtimes[w.sup])
                 ELSE Cardinality(runtimes[w.sup]) + 1
        BY <1>2, <3>2, FS_AddElement
      <4> QED
        BY <1>2, <3>2, <3>4, <4>1
    <3>6. \A s \in Sups : IsFiniteSet(runtimes'[s])
      BY <3>2, <3>4, <3>5
    <3>7. reserved' = [reserved EXCEPT ![w.sup] = reserved[w.sup] + n]
      <4>1. reserved[w.sup] - Own(w) = reserved[w.sup] + n
        BY <1>2, <3>1, <3>3
      <4> QED
        BY <1>1, <3>1, <4>1 DEF ReleaseSlot
    <3>8. \A s \in Sups :
            Cardinality(Owners(s)') =
              IF s = w.sup THEN Cardinality(Owners(s)) + n ELSE Cardinality(Owners(s))
      BY <1>5, <3>1, <3>2
    <3>9. \/ n + Cardinality(runtimes'[w.sup]) <= Cardinality(runtimes[w.sup])
          \/ reserved[w.sup] + n + Cardinality(runtimes'[w.sup]) <= MaxRuntimes
      BY <1>2, <2>2, <3>1, <3>2, <3>3, <3>5 DEF Room
    <3> QED
      BY <1>5, <3>1, <3>4, <3>6, <3>7, <3>8, <3>9, SlotsFollow
  <2> QED
    BY <2>1, <2>2 DEF StartRuntime
<1>7. LocksHeld' /\ LeaderStands'
  BY <1>1, <1>5, FlocksKept
<1>8. CheckStands' /\ KeyExclusive'
  BY <1>3, <1>5, ChecksStand DEF OnlyPassed
<1> QED
  BY <1>1, <1>3, <1>5, <1>6, <1>7, <1>8, DispatchMoves

-----------------------------------------------------------------------------
(* Steps that add dispatches, and those that take away. *)

\* A new dispatch owns nothing yet.
LEMMA JobAdded ==
  ASSUME CtIInv, NEW x \in Jobs, jobs' = jobs \cup {x}, x.epoch = 0 \/ x.step \notin Holding,
         \A w \in jobs : ~SameKind(w, x), UNCHANGED slotVars
  PROVE  JobsDistinct' /\ SlotTyped' /\ SlotsAccounted' /\ Finite'
<1>1. JobsDistinct'
  BY DEF CtIInv, JobsDistinct, SameKind
<1>2. IsFiniteSet(jobs')
  BY FS_AddElement DEF CtIInv, Finite
<1>3. \A s \in Sups : Owners(s)' = Owners(s)
  BY DEF Owners
<1>4. SlotTyped' /\ SlotsAccounted' /\ Finite'
  BY <1>2, <1>3 DEF CtIInv, Typed, SlotTyped, SlotsAccounted, Finite, slotVars, Owners
<1> QED
  BY <1>1, <1>4

\* An operator's start joins at the key check, without a reservation.
LEMMA StartStep ==
  ASSUME CtIInv, NEW s \in Sups, NEW i \in Items, Start(s, i)
  PROVE  CtIInv'
<1> DEFINE x == [sup |-> s, item |-> i, rev |-> item[i].rev, epoch |-> 0, step |-> "leading"]
<1>1. x \in Jobs /\ x.epoch = 0 /\ x.step = "leading" /\ x.item = i
  BY DEF CtIInv, Typed, Snapshots, Jobs, Steps
<1>2. /\ jobs' = jobs \cup {x} /\ \A w \in jobs : w.item = i => w.epoch # 0
      /\ UNCHANGED <<recordVars, lockVars, item, loopVars, indexVars, slotVars>>
  BY DEF Start
<1> HIDE DEF x
<1>3. JobsDistinct' /\ SlotTyped' /\ SlotsAccounted' /\ Finite'
  BY <1>1, <1>2, JobAdded DEF SameKind
<1>4. jobs' \subseteq Jobs /\ ManualSkips' /\ PlanFresh' /\ LocksHeld' /\ LeaderStands'
  BY <1>1, <1>2 DEF CtIInv, Typed, ManualSkips, PlanFresh, LocksHeld, LeaderStands, Id,
                    recordVars, lockVars, loopVars
<1>5. item' \in [Items -> Snapshots] /\ view' \in [Sups -> [Items -> Snapshots]]
  BY <1>2 DEF CtIInv, Typed, IndexTyped, indexVars
<1>6. CheckStands' /\ KeyExclusive'
  BY <1>1, <1>2, <1>5, SameItems, ChecksStand
<1> QED
  BY <1>2, <1>3, <1>4, <1>5, <1>6, DispatchMoves DEF indexVars

\* A hand-off dispatches what the pass planned, under the leader's epoch.
LEMMA HandOffStep ==
  ASSUME CtIInv, NEW s \in Sups, NEW d \in plan[s], HandOff(s, d)
  PROVE  CtIInv'
<1>1. /\ UNCHANGED <<desired, leader, epoch, lockVars, item, indexVars, slotVars>>
      /\ pc[s] = "lead"
  BY DEF HandOff
<1>2. plan \in [Sups -> SUBSET Decisions] /\ d \in Decisions
  BY DEF CtIInv, Typed, LoopTyped
<1>3. CASE plan' = [plan EXCEPT ![s] = {}] /\ UNCHANGED <<pc, mine, jobs>>
  <2>1. LoopTyped' /\ LeadsAnEpoch' /\ PlanFresh'
    BY <1>2, <1>3 DEF CtIInv, Typed, LoopTyped, LeadsAnEpoch, PlanFresh
  <2>2. Typed'
    BY <1>1, <1>3, <2>1 DEF CtIInv, Typed, RecordTyped, IndexTyped, SlotTyped, indexVars, slotVars
  <2> QED
    BY <1>1, <1>3, <2>1, <2>2, SameItems, SteadyDispatches DEF RecordGuarded
<1>4. CASE Rest(s, "follow") /\ UNCHANGED jobs
  <2>1. LoopTyped' /\ LeadsAnEpoch' /\ PlanFresh'
    BY <1>4, RestFacts DEF Places
  <2>2. Typed'
    BY <1>1, <1>4, <2>1 DEF CtIInv, Typed, RecordTyped, IndexTyped, SlotTyped, indexVars, slotVars
  <2> QED
    BY <1>1, <1>4, <2>1, <2>2, SameItems, SteadyDispatches DEF RecordGuarded
<1>5. CASE /\ plan' = [plan EXCEPT ![s] = @ \ {d}] /\ UNCHANGED <<pc, mine>>
           /\ jobs' = jobs \cup {[sup |-> s, item |-> d.item, rev |-> d.rev,
                                  epoch |-> mine[s], step |-> "new"]}
  <2> DEFINE x == [sup |-> s, item |-> d.item, rev |-> d.rev, epoch |-> mine[s], step |-> "new"]
  <2>1. mine[s] \in Nat \ {0}
    BY <1>1 DEF CtIInv, Typed, LoopTyped, LeadsAnEpoch
  <2>2. /\ x \in Jobs /\ x.epoch # 0 /\ x.step = "new" /\ x.sup = s /\ x.item = d.item
        /\ x.step \notin Holding
    BY <1>2, <2>1 DEF Decisions, Jobs, Steps, Holding
  <2>3. jobs' = jobs \cup {x}
    BY <1>5
  <2> HIDE DEF x
  <2>4. \A w \in jobs : ~SameKind(w, x)
    BY <2>2 DEF CtIInv, PlanFresh, SameKind
  <2>5. JobsDistinct' /\ SlotTyped' /\ SlotsAccounted' /\ Finite'
    BY <1>1, <2>2, <2>3, <2>4, JobAdded
  <2>6. jobs' \subseteq Jobs /\ ManualSkips' /\ LocksHeld' /\ LeaderStands'
    BY <1>1, <2>2, <2>3 DEF CtIInv, Typed, ManualSkips, LocksHeld, LeaderStands, Id, lockVars
  <2>7. LoopTyped' /\ LeadsAnEpoch'
    BY <1>2, <1>5 DEF CtIInv, Typed, LoopTyped, LeadsAnEpoch
  <2>8. PlanFresh'
    <3>1. ASSUME NEW t \in Sups, NEW e \in plan'[t]
          PROVE  /\ \A w \in jobs' : ~(w.sup = t /\ w.item = e.item /\ w.epoch # 0)
                 /\ \A f \in plan'[t] : f.item = e.item => f = e
      <4>1. plan'[t] \subseteq plan[t] /\ (t = s => d \notin plan'[t])
        BY <1>2, <1>5
      <4>2. /\ \A w \in jobs : ~(w.sup = t /\ w.item = e.item /\ w.epoch # 0)
            /\ \A f \in plan[t] : f.item = e.item => f = e
        BY <3>1, <4>1 DEF CtIInv, PlanFresh
      <4>3. ~(x.sup = t /\ x.item = e.item)
        BY <2>2, <3>1, <4>1, <4>2
      <4> QED
        BY <2>3, <4>1, <4>2, <4>3
    <3> QED
      BY <3>1 DEF PlanFresh
  <2>9. item' \in [Items -> Snapshots]
    BY <1>1 DEF CtIInv, Typed
  <2>10. CheckStands' /\ KeyExclusive'
    BY <1>1, <2>2, <2>3, <2>9, SameItems, ChecksStand
  <2>11. Typed'
    BY <1>1, <2>5, <2>6, <2>7 DEF CtIInv, Typed, RecordTyped, IndexTyped, indexVars
  <2> QED
    BY <2>5, <2>6, <2>7, <2>8, <2>10, <2>11 DEF CtIInv
<1> QED
  BY <1>3, <1>4, <1>5 DEF HandOff, Drop

\* A result removes a dispatch that owns nothing any more.
LEMMA HandleResultStep ==
  ASSUME CtIInv, NEW s \in Sups, NEW w \in jobs, HandleResult(s, w)
  PROVE  CtIInv'
<1>1. /\ jobs' = jobs \ {w} /\ w.step \in Results
      /\ UNCHANGED <<recordVars, lockVars, item, indexVars, slotVars>>
      /\ \/ UNCHANGED <<pc, mine, plan>>
         \/ Rest(s, "follow")
  BY DEF HandleResult, Drop, loopVars
<1>2. Own(w) = 0
  BY <1>1 DEF Own, Results, Holding
<1>3. /\ jobs' \subseteq Jobs /\ JobsDistinct' /\ ManualSkips' /\ IsFiniteSet(jobs')
      /\ plan' = plan => PlanFresh'
      /\ \A s_1 \in Sups :
           Cardinality(Owners(s_1)') =
             IF s_1 = w.sup THEN Cardinality(Owners(s_1)) - Own(w) ELSE Cardinality(Owners(s_1))
  BY <1>1, JobRemoved
<1>4. SlotTyped' /\ SlotsAccounted' /\ Finite'
  <2>1. \A t \in Sups : Owners(t)' = Owners(t)
    BY <1>1, <1>2 DEF Owners, Own
  <2> QED
    BY <1>1, <1>3, <2>1 DEF CtIInv, Typed, SlotTyped, SlotsAccounted, Finite, slotVars, Owners
<1>5. LoopTyped' /\ LeadsAnEpoch' /\ PlanFresh'
  <2>1. CASE UNCHANGED <<pc, mine, plan>>
    BY <1>3, <2>1 DEF CtIInv, Typed, LoopTyped, LeadsAnEpoch
  <2>2. CASE Rest(s, "follow")
    BY <1>1, <2>2, RestFacts DEF Places
  <2> QED
    BY <1>1, <2>1, <2>2
<1>6. LocksHeld' /\ LeaderStands'
  BY <1>1, FlocksKept DEF OnlyPassed
<1>7. item' \in [Items -> Snapshots]
  BY <1>1 DEF CtIInv, Typed
<1>8. CheckStands' /\ KeyExclusive'
  BY <1>1, <1>7, SameItems, ChecksStand
<1>9. Typed'
  BY <1>1, <1>3, <1>4, <1>5 DEF CtIInv, Typed, RecordTyped, IndexTyped, indexVars, recordVars
<1> QED
  BY <1>3, <1>4, <1>5, <1>6, <1>8, <1>9 DEF CtIInv

\* A runtime that ends frees its slot and ends its attempt.
LEMMA RuntimeEndsStep ==
  ASSUME CtIInv, NEW s \in Sups, NEW i \in Items, RuntimeEnds(s, i)
  PROVE  CtIInv'
<1>1. /\ UNCHANGED <<recordVars, lockVars, loopVars, scan, jobs, reserved>>
      /\ runtimes' = [runtimes EXCEPT ![s] = @ \ {i}]
  BY DEF RuntimeEnds
<1>2. PICK st \in {"closed", AfterFailure(i)} : Terminate(s, i, st)
  BY DEF RuntimeEnds
<1>3. /\ item' \in [Items -> Snapshots] /\ view' \in [Sups -> [Items -> Snapshots]]
      /\ RevisionsRise /\ NothingStarts
  BY <1>2, TerminatedItem DEF AfterFailure
<1>4. runtimes \in [Sups -> SUBSET Items] /\ reserved \in [Sups -> Nat] /\ MaxRuntimes \in Nat
  BY ControllerAssumption DEF CtIInv, Typed, SlotTyped
<1>5. ASSUME NEW t \in Sups
      PROVE  /\ IsFiniteSet(runtimes'[t])
             /\ reserved[t] + Cardinality(runtimes'[t]) <= MaxRuntimes
  <2>1. runtimes'[t] \in SUBSET runtimes[t] /\ IsFiniteSet(runtimes[t])
    BY <1>1, <1>4 DEF CtIInv, Finite
  <2>2. /\ IsFiniteSet(runtimes'[t]) /\ Cardinality(runtimes'[t]) <= Cardinality(runtimes[t])
        /\ Cardinality(runtimes[t]) \in Nat
    BY <2>1, FS_Subset, FS_CardinalityType
  <2>3. Cardinality(runtimes'[t]) \in Nat
    BY <2>2, FS_CardinalityType
  <2>4. reserved[t] + Cardinality(runtimes[t]) <= MaxRuntimes
    BY DEF CtIInv, SlotsAccounted
  <2> QED
    BY <1>4, <2>2, <2>3, <2>4
<1>6. SlotTyped' /\ Finite'
  BY <1>1, <1>4, <1>5 DEF SlotTyped, CtIInv, Finite
<1>7. SlotsAccounted'
  BY <1>1, <1>5 DEF CtIInv, SlotsAccounted
<1>8. /\ jobs' \subseteq Jobs /\ JobsDistinct' /\ ManualSkips' /\ PlanFresh' /\ LocksHeld'
      /\ LeaderStands'
  BY <1>1 DEF CtIInv, Typed, JobsDistinct, ManualSkips, PlanFresh, LocksHeld, LeaderStands,
              recordVars, lockVars, loopVars
<1>9. CheckStands' /\ KeyExclusive'
  BY <1>1, <1>3, ChecksStand
<1> QED
  BY <1>1, <1>3, <1>6, <1>7, <1>8, <1>9, DispatchMoves

\* A crash drops the dispatches of a supervisor together with what they held.
LEMMA CrashStep ==
  ASSUME CtIInv, NEW s \in Sups, Crash(s)
  PROVE  CtIInv'
<1>1. /\ UNCHANGED <<recordVars, item, view>> /\ Rest(s, "down")
      /\ scan' = [scan EXCEPT ![s] = Nothing]
      /\ jobs' = {w \in jobs : w.sup # s}
      /\ reserved' = [reserved EXCEPT ![s] = 0]
      /\ runtimes' = [runtimes EXCEPT ![s] = {}]
  BY DEF Crash
<1>2. LoopTyped' /\ LeadsAnEpoch' /\ PlanFresh'
  BY <1>1, RestFacts DEF Places
<1>3. Nothing \in [{} -> Snapshots]
  BY DEF Nothing
<1>4. IndexTyped'
  <2>1. Nothing \in Scans
    BY <1>3 DEF Scans
  <2> QED
    BY <1>1, <2>1 DEF CtIInv, Typed, IndexTyped
<1>5. /\ runtimes \in [Sups -> SUBSET Items] /\ reserved \in [Sups -> Nat]
      /\ MaxRuntimes \in Nat
  BY ControllerAssumption DEF CtIInv, Typed, SlotTyped
<1>6. Typed'
  BY <1>1, <1>2, <1>4, <1>5 DEF CtIInv, Typed, RecordTyped, SlotTyped, recordVars
<1>7. JobsDistinct' /\ ManualSkips' /\ LeaderStands'
  BY <1>1 DEF CtIInv, JobsDistinct, ManualSkips, LeaderStands, recordVars
<1>8. LocksHeld'
  <2>1. ASSUME NEW w \in jobs'
        PROVE  /\ dspLock = Id(w) => dspLock' = Id(w)
               /\ ctlLock = Id(w) => ctlLock' = Id(w)
    <3>1. w.sup # s
      BY <1>1
    <3> QED
      BY <3>1 DEF Crash, Id
  <2> QED
    BY <1>1, <2>1 DEF CtIInv, LocksHeld, Id
<1>9. Finite'
  <2>1. IsFiniteSet(jobs')
    BY <1>1, FS_Subset DEF CtIInv, Finite
  <2>2. \A t \in Sups : IsFiniteSet(runtimes'[t])
    BY <1>1, <1>5, FS_EmptySet DEF CtIInv, Finite
  <2> QED
    BY <2>1, <2>2 DEF Finite
<1>10. SlotsAccounted'
  <2>1. ASSUME NEW t \in Sups
        PROVE  /\ reserved'[t] = Cardinality(Owners(t)')
               /\ reserved'[t] + Cardinality(runtimes'[t]) <= MaxRuntimes
    <3>1. CASE t = s
      <4>1. Owners(t)' = {} /\ reserved'[t] = 0 /\ runtimes'[t] = {}
        BY <1>1, <1>5, <3>1 DEF Owners
      <4> QED
        BY <1>5, <4>1, FS_EmptySet
    <3>2. CASE t # s
      <4>1. Owners(t)' = Owners(t) /\ reserved'[t] = reserved[t] /\ runtimes'[t] = runtimes[t]
        BY <1>1, <1>5, <3>2 DEF Owners
      <4> QED
        BY <4>1 DEF CtIInv, SlotsAccounted, Owners
    <3> QED
      BY <3>1, <3>2
  <2> QED
    BY <2>1 DEF SlotsAccounted, Owners
<1>11. CheckStands' /\ KeyExclusive'
  BY <1>1, SameItems, ChecksStand DEF CtIInv, Typed
<1> QED
  BY <1>2, <1>6, <1>7, <1>8, <1>9, <1>10, <1>11 DEF CtIInv

-----------------------------------------------------------------------------
(***************************************************************************)
(* The theorems.                                                           *)
(***************************************************************************)
\* The initial state.
LEMMA InitCtIInv == Init => CtIInv
<1> SUFFICES ASSUME Init PROVE CtIInv
  OBVIOUS
<1>1. Snapshot(1, "ready", None) \in Snapshots
  BY DEF Snapshot, Snapshots
<1>2. item \in [Items -> Snapshots]
  BY <1>1 DEF Init
<1>3. Nothing \in [{} -> Snapshots]
  BY DEF Nothing
<1>4. Nothing \in Scans
  BY <1>3 DEF Scans
<1>5. Typed
  BY <1>2, <1>4 DEF Init, Typed, RecordTyped, LoopTyped, IndexTyped, SlotTyped, Places
<1>6. /\ LeadsAnEpoch /\ JobsDistinct /\ ManualSkips /\ PlanFresh /\ LocksHeld
      /\ LeaderStands /\ CheckStands
  BY DEF Init, LeadsAnEpoch, JobsDistinct, ManualSkips, PlanFresh, LocksHeld, LeaderStands,
         CheckStands
<1>7. KeyExclusive
  BY DEF Init, KeyExclusive, Live, Snapshot
<1>8. Finite /\ SlotsAccounted
  <2>1. jobs = {} /\ \A s \in Sups : runtimes[s] = {} /\ reserved[s] = 0
    BY DEF Init
  <2>2. \A s \in Sups : {w \in jobs : w.sup = s /\ w.epoch # 0 /\ w.step \in Holding} = {}
    BY <2>1
  <2>3. MaxRuntimes \in Nat /\ 0 + Cardinality({}) <= MaxRuntimes
    BY FS_EmptySet, ControllerAssumption
  <2>4. Finite
    BY <2>1, FS_EmptySet DEF Finite
  <2>5. SlotsAccounted
    BY <2>1, <2>2, <2>3, FS_EmptySet DEF SlotsAccounted
  <2> QED
    BY <2>4, <2>5
<1> QED
  BY <1>5, <1>6, <1>7, <1>8 DEF CtIInv

\* Every step preserves the invariant.
LEMMA NextCtIInv == CtIInv /\ [Next]_vars => CtIInv'
<1> SUFFICES ASSUME CtIInv, [Next]_vars PROVE CtIInv'
  OBVIOUS
<1>1. CASE UNCHANGED vars
  <2>1. Typed' /\ LeadsAnEpoch' /\ PlanFresh'
    BY <1>1 DEF vars, recordVars, lockVars, loopVars, indexVars, slotVars, CtIInv, Typed,
                RecordTyped, LoopTyped, IndexTyped, SlotTyped, LeadsAnEpoch, PlanFresh
  <2> QED
    BY <1>1, <2>1, SameItems, SteadyDispatches DEF vars, recordVars, RecordGuarded
<1>2. CASE \E s \in Sups : Enable(s) \/ Disable(s) \/ Crash(s) \/ Boot(s)
  BY <1>2, EnableStep, DisableStep, CrashStep, BootStep
<1>3. CASE \E s \in Sups : LoopStep(s)
  BY <1>3, AcquireStep, DrainStep, PassStep, HandOffStep, HandleResultStep DEF LoopStep
<1>4. CASE \E s \in Sups : IndexStep(s)
  BY <1>4, ScanItemStep, RebuildStep, ElapseStep DEF IndexStep
<1>5. CASE \E s \in Sups, i \in Items :
             Claim(s, i) \/ Start(s, i) \/ RuntimeEnds(s, i) \/ ExpireLease(s, i) \/ Cancel(s, i)
  BY <1>5, ClaimStep, StartStep, RuntimeEndsStep, ExpireLeaseStep, CancelStep
<1>6. CASE \E w \in jobs : DispatchStep(w)
  BY <1>6, ReserveAdmissionStep, WithLeaderStep, CheckStartStep, CommitStartStep,
     StartRuntimeStep DEF DispatchStep
<1>7. CASE Lapse \/ LapseLate
  BY <1>7, LapseStep
<1> QED
  BY <1>1, <1>2, <1>3, <1>4, <1>5, <1>6, <1>7 DEF Next

\* The invariant that the flocks, the revisions and the reservations of the
\* dispatch boundary maintain together, across crashes and leader changes.
THEOREM ControllerInductive == Spec => []CtIInv
BY InitCtIInv, NextCtIInv, PTL DEF Spec

\* Two items of one concurrency key never run together (dispatch.lock held from
\* the key check to the commit of the start).
THEOREM KeysExclude == Spec => []KeyExclusive
<1>1. CtIInv => KeyExclusive
  BY DEF CtIInv
<1> QED
  BY <1>1, ControllerInductive, PTL

\* The admission reservations are exactly those of the dispatches that own one,
\* and with the runtimes they stay within the limit (reserveAdmission, the
\* deferred Release and the executor's hand-over).
THEOREM SlotsAddUp == Spec => []SlotsAccounted
<1>1. CtIInv => SlotsAccounted
  BY DEF CtIInv
<1> QED
  BY <1>1, ControllerInductive, PTL

-----------------------------------------------------------------------------
(* What a step may do to an item. *)

\* An item begins to run, or to be the controller's, by the commit of a start.
Begins(i) == \/ item'[i].by = "ctl" /\ item[i].by # "ctl"
             \/ Live(item'[i]) /\ ~Live(item[i])

BegunByCommit ==
  \A i \in Items : Begins(i) =>
    \E w \in jobs : /\ w.item = i /\ w.step = "checked" /\ AtRevision(w)
                    /\ item'[i].by = IF w.epoch = 0 THEN "manual" ELSE "ctl"

\* A commit that is not of a start.
LEMMA OtherCommits ==
  ASSUME CtIInv, NEW s \in Sups, NEW i \in Items, NEW st, NEW by,
         CommitItem(s, i, st, by), st # "running" \/ st = item[i].st,
         by = None \/ by = item[i].by
  PROVE  BegunByCommit
<1>1. item' = [item EXCEPT ![i] = Snapshot(item[i].rev + 1, st, by)]
      /\ item \in [Items -> Snapshots]
  BY DEF CommitItem, CtIInv, Typed
<1>2. item'[i].st = st /\ item'[i].by = by /\ \A j \in Items \ {i} : item'[j] = item[j]
  BY <1>1 DEF Snapshot
<1> QED
  BY <1>2, ControllerAssumption DEF BegunByCommit, Begins, Live

\* No step but the commit of a start begins an item.
LEMMA StepBegins ==
  ASSUME CtIInv, [Next]_vars
  PROVE  BegunByCommit
<1>1. CASE UNCHANGED item
  BY <1>1 DEF BegunByCommit, Begins
<1>2. ASSUME NEW s \in Sups, NEW i \in Items, Claim(s, i)
      PROVE  BegunByCommit
  <2>1. CommitItem(s, i, "leased", None)
    BY <1>2 DEF Claim
  <2> QED
    BY <2>1, OtherCommits
<1>3. ASSUME NEW s \in Sups, NEW i \in Items, Cancel(s, i)
      PROVE  BegunByCommit
  <2>1. CommitItem(s, i, "closed", item[i].by)
    BY <1>3 DEF Cancel
  <2> QED
    BY <2>1, OtherCommits
<1>4. ASSUME NEW s \in Sups, NEW i \in Items, ExpireLease(s, i)
      PROVE  BegunByCommit
  <2>1. CommitItem(s, i, "ready", None)
    BY <1>4 DEF ExpireLease, CommitItem, Expired
  <2> QED
    BY <2>1, OtherCommits
<1>5. ASSUME NEW s \in Sups, NEW i \in Items, NEW st \in {"ready", "closed"}, Terminate(s, i, st)
      PROVE  BegunByCommit
  <2> DEFINE to == IF item[i].st = "running" THEN st ELSE item[i].st
  <2>1. CommitItem(s, i, to, None) /\ (to # "running" \/ to = item[i].st)
    BY <1>5 DEF Terminate
  <2> HIDE DEF to
  <2> QED
    BY <2>1, OtherCommits
<1>6. ASSUME NEW s \in Sups, NEW i \in Items, RuntimeEnds(s, i)
      PROVE  BegunByCommit
  BY <1>5, <1>6 DEF RuntimeEnds, AfterFailure
<1>7. ASSUME \A i \in Items : item'[i] \in Recovered(i)
      PROVE  BegunByCommit
  BY <1>7, RecoveredItem DEF BegunByCommit, Begins
<1>8. ASSUME NEW s \in Sups, NEW i \in Items, ScanItem(s, i)
      PROVE  BegunByCommit
  <2>1. PICK x \in Recovered(i) : item' = [item EXCEPT ![i] = x]
    BY <1>8 DEF ScanItem
  <2>2. item \in [Items -> Snapshots]
    BY DEF CtIInv, Typed
  <2>3. \A j \in Items : item'[j] \in Recovered(j)
    BY <2>1, <2>2 DEF Recovered
  <2> QED
    BY <1>7, <2>3
<1>9. ASSUME NEW w \in jobs, StartRuntime(w)
      PROVE  BegunByCommit
  <2>1. w.sup \in Sups /\ w.item \in Items
    BY DEF CtIInv, Typed, Jobs
  <2>2. CASE UNCHANGED item
    BY <1>1, <2>2
  <2>3. CASE CommitItem(w.sup, w.item, item[w.item].st, item[w.item].by)
    BY <2>1, <2>3, OtherCommits
  <2>4. CASE Terminate(w.sup, w.item, AfterFailure(w.item))
    BY <1>5, <2>1, <2>4 DEF AfterFailure
  <2> QED
    BY <1>9, <2>2, <2>3, <2>4 DEF StartRuntime, FinalizeDispatch
<1>10. ASSUME NEW w \in jobs, CommitStart(w)
       PROVE  BegunByCommit
  <2>1. w.sup \in Sups /\ w.item \in Items
    BY DEF CtIInv, Typed, Jobs
  <2>2. CASE UNCHANGED item
    BY <1>1, <2>2
  <2>3. CASE /\ w.step = "checked" /\ AtRevision(w)
             /\ CommitItem(w.sup, w.item, "running", IF w.epoch = 0 THEN "manual" ELSE "ctl")
    <3> DEFINE by == IF w.epoch = 0 THEN "manual" ELSE "ctl"
    <3>1. item' = [item EXCEPT ![w.item] = Snapshot(item[w.item].rev + 1, "running", by)]
          /\ item \in [Items -> Snapshots]
      BY <2>3 DEF CommitItem, CtIInv, Typed
    <3>2. item'[w.item].by = by /\ \A j \in Items \ {w.item} : item'[j] = item[j]
      BY <2>1, <3>1 DEF Snapshot
    <3> QED
      BY <2>3, <3>2 DEF BegunByCommit, Begins
  <2> QED
    BY <1>10, <2>2, <2>3 DEF CommitStart
<1>11. CASE \E s \in Sups : Enable(s) \/ Disable(s) \/ Crash(s) \/ LoopStep(s)
  BY <1>1, <1>11 DEF Enable, Disable, Crash, LoopStep, Acquire, Drain, Pass, HandOff, HandleResult
<1>12. CASE \E s \in Sups : Boot(s)
  BY <1>7, <1>12 DEF Boot
<1>13. CASE \E s \in Sups : IndexStep(s)
  BY <1>1, <1>8, <1>13 DEF IndexStep, Rebuild, Elapse
<1>14. CASE \E w \in jobs : DispatchStep(w)
  BY <1>1, <1>9, <1>10, <1>14 DEF DispatchStep, ReserveAdmission, WithLeader, CheckStart
<1>15. CASE \E s \in Sups, i \in Items :
              Claim(s, i) \/ Start(s, i) \/ RuntimeEnds(s, i) \/ ExpireLease(s, i) \/ Cancel(s, i)
  BY <1>1, <1>2, <1>3, <1>4, <1>6, <1>15 DEF Start
<1>16. CASE Lapse \/ LapseLate \/ UNCHANGED vars
  BY <1>1, <1>16 DEF Lapse, LapseLate, vars
<1> QED
  BY <1>11, <1>12, <1>13, <1>14, <1>15, <1>16 DEF Next

\* No attempt of a replaced leader, or of a disabled controller, is committed
\* (WithLeader holds the controller's flock around BeginDispatch).
THEOREM DispatchFenced == Spec => FencedDispatch
<1> DEFINE Fenced ==
      \A i \in Items :
        (item'[i].by = "ctl" /\ item[i].by # "ctl") =>
          desired /\ \E w \in jobs : /\ w.item = i /\ w.step = "checked"
                                     /\ w.sup = leader /\ w.epoch = epoch
<1>1. CtIInv /\ [Next]_vars => [Fenced]_vars
  <2> SUFFICES ASSUME CtIInv, [Next]_vars, NEW i \in Items,
                      item'[i].by = "ctl", item[i].by # "ctl"
               PROVE  desired /\ \E w \in jobs : /\ w.item = i /\ w.step = "checked"
                                                 /\ w.sup = leader /\ w.epoch = epoch
    OBVIOUS
  <2>1. PICK w \in jobs : /\ w.item = i /\ w.step = "checked"
                          /\ item'[i].by = IF w.epoch = 0 THEN "manual" ELSE "ctl"
    BY StepBegins DEF BegunByCommit, Begins
  <2>2. desired /\ leader = w.sup /\ epoch = w.epoch
    BY <2>1 DEF CtIInv, LeaderStands
  <2> QED
    BY <2>1, <2>2
<1> QED
  BY <1>1, ControllerInductive, PTL DEF Spec, FencedDispatch

\* A start takes effect only on an item that is as the start found it (the
\* expected revision of the command).
THEOREM ClaimsRespected == Spec => ClaimRespected
<1> DEFINE Respected ==
      \A i \in Items :
        (Live(item'[i]) /\ ~Live(item[i])) =>
          item[i].st = IF item'[i].by = "ctl" THEN "ready" ELSE "leased"
<1>1. CtIInv /\ [Next]_vars => [Respected]_vars
  <2> SUFFICES ASSUME CtIInv, [Next]_vars, NEW i \in Items, Live(item'[i]), ~Live(item[i])
               PROVE  item[i].st = IF item'[i].by = "ctl" THEN "ready" ELSE "leased"
    OBVIOUS
  <2>1. PICK w \in jobs : /\ w.item = i /\ w.step = "checked" /\ AtRevision(w)
                          /\ item'[i].by = IF w.epoch = 0 THEN "manual" ELSE "ctl"
    BY StepBegins DEF BegunByCommit, Begins
  <2>2. item[i].st = IF w.epoch = 0 THEN "leased" ELSE "ready"
    BY <2>1 DEF CtIInv, CheckStands
  <2> QED
    BY <2>1, <2>2
<1> QED
  BY <1>1, ControllerInductive, PTL DEF Spec, ClaimRespected
=============================================================================
