----------------------- MODULE AdmissionBudgetProofs ------------------------
(***************************************************************************)
(* Proofs about the tree admission budget, for every number of supervisor  *)
(* processes, every supply of tokens and every capacity.                   *)
(*                                                                         *)
(* NeverOversubscribed is not inductive.  A holder's token is safe because *)
(* the file records it under the holder's own PID: then no other release   *)
(* frees it, a reaper that finds the PID alive leaves it, and a new        *)
(* acquisition cannot overwrite it, its token being fresh.                 *)
(***************************************************************************)
EXTENDS AdmissionBudget, FiniteSetTheorems, TLAPS

\* The operation under the flock is one a live process started.
OpOK ==
  \/ op = Unlocked
  \/ op \in [by : running, kind : {"acquire", "release", "reap"},
             token : SUBSET Tokens, at : {"read", "truncate"}]

\* A held token is recorded under its holder's PID, and the dead hold none.
RecordedUnderHolder ==
  /\ \A p \in Pids : \A t \in holding[p] : active[t] = p
  /\ \A p \in Pids \ running : holding[p] = {}

\* A token not generated yet is not in the file.
UnspentIsAbsent == \A t \in Tokens \ spent : active[t] = NoPid

\* The acquisition under way is of one token: fresh until it is written, then
\* recorded under the acquirer.
AcquireOK ==
  op.kind = "acquire" =>
    /\ \E t \in Tokens : op.token = {t}
    /\ op.at = "read" => op.token \cap spent = {}
    /\ op.at = "truncate" => \A t \in op.token : active[t] = op.by

\* What is being released, nobody holds.
ReleaseOK ==
  op.kind = "release" => \A p \in Pids : holding[p] \cap op.token = {}

\* The file's reservations fit the capacity.
FileFits == Cardinality(Reserved(active)) <= Capacity

AbIInv ==
  /\ AbTypeOK /\ OpOK /\ RecordedUnderHolder /\ UnspentIsAbsent
  /\ AcquireOK /\ ReleaseOK /\ FileFits

-----------------------------------------------------------------------------
(* What the operations make of the file. *)

\* The reservations of a file are finitely many.
LEMMA ReservedFinite ==
  ASSUME NEW file
  PROVE  /\ IsFiniteSet(Reserved(file))
         /\ Cardinality(Reserved(file)) \in Nat
BY BudgetAssumption, FS_Subset, FS_CardinalityType DEF Reserved

\* Rewriting the file records an acquired token under the acquirer, frees a
\* released one, and otherwise frees at most what a dead PID is recorded with.
LEMMA RewrittenEntry ==
  ASSUME AbIInv, op # Unlocked, NEW t \in Tokens
  PROVE  /\ op.kind = "acquire" =>
              Rewritten[t] = IF t \in op.token THEN op.by ELSE active[t]
         /\ op.kind = "release" =>
              Rewritten[t] = IF t \in op.token THEN NoPid ELSE active[t]
         /\ op.kind = "reap" =>
              Rewritten[t] = IF active[t] # NoPid /\ active[t] \notin running
                             THEN NoPid ELSE active[t]
BY DEF Rewritten, pidAlive, AbIInv, OpOK

\* The rewritten file is a file: each token has a PID or none.
LEMMA RewrittenType ==
  ASSUME AbIInv, op # Unlocked
  PROVE  Rewritten \in [Tokens -> Pids \cup {NoPid}]
<1>1. \A t \in Tokens : Rewritten[t] \in Pids \cup {NoPid}
  BY RewrittenEntry DEF AbIInv, AbTypeOK, OpOK
<1> QED
  BY <1>1 DEF Rewritten

\* An acquisition writes one more reservation only when the file it read was
\* below the capacity, and the other operations write none.
LEMMA RewrittenFits ==
  ASSUME AbIInv, op # Unlocked, op.kind = "acquire" => ~Full
  PROVE  Cardinality(Reserved(Rewritten)) <= Capacity
<1>1. CASE op.kind = "acquire"
  <2>1. PICK t \in Tokens : op.token = {t}
    BY <1>1 DEF AbIInv, AcquireOK
  <2>2. Reserved(Rewritten) \subseteq Reserved(active) \cup {t}
    BY <1>1, <2>1, RewrittenEntry DEF Reserved
  <2>3. /\ IsFiniteSet(Reserved(active) \cup {t})
        /\ Cardinality(Reserved(active) \cup {t}) <= Cardinality(Reserved(active)) + 1
    BY FS_AddElement, ReservedFinite
  <2>4. Cardinality(Reserved(Rewritten)) <= Cardinality(Reserved(active) \cup {t})
    BY <2>2, <2>3, FS_Subset
  <2> QED
    BY <1>1, <2>3, <2>4, ReservedFinite, FS_CardinalityType, BudgetAssumption DEF Full
<1>2. CASE op.kind # "acquire"
  <2>1. Reserved(Rewritten) \subseteq Reserved(active)
    BY <1>2, RewrittenEntry DEF Reserved, AbIInv, OpOK
  <2>2. Cardinality(Reserved(Rewritten)) <= Cardinality(Reserved(active))
    BY <2>1, ReservedFinite, FS_Subset
  <2> QED
    BY <2>2, ReservedFinite, BudgetAssumption DEF AbIInv, FileFits
<1> QED
  BY <1>1, <1>2

-----------------------------------------------------------------------------
(* The inductive invariant holds initially and every action keeps it. *)

\* An empty file under no lock.
LEMMA AbInitIInv == AbInit => AbIInv
<1> SUFFICES ASSUME AbInit PROVE AbIInv
  OBVIOUS
<1>1. FileFits
  <2>1. Reserved(active) = {}
    BY DEF AbInit, Reserved
  <2> QED
    BY <2>1, FS_EmptySet, BudgetAssumption DEF FileFits
<1>2. AbTypeOK
  BY DEF AbInit, AbTypeOK, Unlocked
<1> QED
  BY <1>1, <1>2 DEF AbInit, AbIInv, OpOK, RecordedUnderHolder, UnspentIsAbsent,
     AcquireOK, ReleaseOK, Unlocked

\* TreeBudget.Acquire, release and reap take the flock; a holder forgets its
\* token before it releases it.
LEMMA LockIInv ==
  ASSUME AbIInv, NEW p \in Pids, Acquire(p) \/ Release(p) \/ Reap(p)
  PROVE  AbIInv'
<1>1. CASE Acquire(p)
  <2>1. PICK t \in Tokens \ spent : Lock(p, "acquire", {t})
    BY <1>1 DEF Acquire
  <2>2. op' = [by |-> p, kind |-> "acquire", token |-> {t}, at |-> "read"]
    BY <2>1 DEF Lock
  <2>3. p \in running /\ UNCHANGED <<running, holding, active, readable, spent>>
    BY <2>1 DEF Lock
  <2> QED
    BY <2>2, <2>3 DEF AbIInv, AbTypeOK, OpOK, RecordedUnderHolder, UnspentIsAbsent,
       AcquireOK, ReleaseOK, FileFits, Reserved
<1>2. CASE Release(p)
  <2>1. PICK t \in holding[p] : Lock(p, "release", {t})
    BY <1>2 DEF Release
  <2>2. op' = [by |-> p, kind |-> "release", token |-> {t}, at |-> "read"]
    BY <2>1 DEF Lock
  <2>3. /\ p \in running /\ UNCHANGED <<running, active, readable, spent>>
        /\ holding' = [holding EXCEPT ![p] = @ \ {t}]
    BY <2>1 DEF Lock
  <2>4. \A q \in Pids : holding'[q] = IF q = p THEN holding[p] \ {t} ELSE holding[q]
    BY <2>3 DEF AbIInv, AbTypeOK
  <2>5. \A q \in Pids : t \notin holding'[q]
    BY <2>4 DEF AbIInv, RecordedUnderHolder
  <2>6. t \in Tokens
    BY DEF AbIInv, AbTypeOK
  <2> QED
    BY <2>2, <2>3, <2>4, <2>5, <2>6 DEF AbIInv, AbTypeOK, OpOK, RecordedUnderHolder,
       UnspentIsAbsent, AcquireOK, ReleaseOK, FileFits, Reserved
<1>3. CASE Reap(p)
  <2>1. op' = [by |-> p, kind |-> "reap", token |-> {}, at |-> "read"]
    BY <1>3 DEF Reap, Lock
  <2>2. p \in running /\ UNCHANGED <<running, holding, active, readable, spent>>
    BY <1>3 DEF Reap, Lock
  <2> QED
    BY <2>1, <2>2 DEF AbIInv, AbTypeOK, OpOK, RecordedUnderHolder, UnspentIsAbsent,
       AcquireOK, ReleaseOK, FileFits, Reserved
<1> QED
  BY <1>1, <1>2, <1>3

\* The operation reads and gives up.
LEMMA GiveUpIInv == ASSUME AbIInv, GiveUp PROVE AbIInv'
BY DEF GiveUp, Unlocked, AbIInv, AbTypeOK, OpOK, RecordedUnderHolder, UnspentIsAbsent,
   AcquireOK, ReleaseOK, FileFits, Reserved

\* writeLocked rewrites the file in place, whether or not the write completes.
LEMMA WriteBudgetIInv == ASSUME AbIInv, WriteBudget PROVE AbIInv'
<1>1. op # Unlocked /\ (op.kind = "acquire" => ~Full)
  BY DEF WriteBudget, Unlocked
<1>2. active' = Rewritten /\ UNCHANGED <<running, holding>>
  BY DEF WriteBudget
<1>3. op \in [by : running, kind : {"acquire", "release", "reap"},
              token : SUBSET Tokens, at : {"read", "truncate"}]
  BY <1>1 DEF AbIInv, OpOK
<1>4. op' = Unlocked \/ op' = [op EXCEPT !.at = "truncate"]
  BY DEF WriteBudget
<1>5. AbTypeOK'
  <2>1. active' \in [Tokens -> Pids \cup {NoPid}]
    BY <1>1, <1>2, RewrittenType
  <2>2. spent' \subseteq Tokens /\ readable' \in BOOLEAN
    BY <1>3 DEF WriteBudget, AbIInv, AbTypeOK
  <2> QED
    BY <1>2, <1>3, <1>4, <2>1, <2>2 DEF AbIInv, AbTypeOK, Unlocked
<1>6. OpOK'
  BY <1>2, <1>3, <1>4 DEF OpOK
<1>7. RecordedUnderHolder'
  <2>1. ASSUME NEW p \in Pids, NEW t \in holding[p] PROVE Rewritten[t] = p
    <3>1. active[t] = p /\ p \in running /\ t \in Tokens /\ p # NoPid
      BY BudgetAssumption DEF AbIInv, AbTypeOK, RecordedUnderHolder
    <3>2. CASE op.kind = "acquire"
      BY <1>1, <3>1, <3>2, RewrittenEntry DEF AbIInv, UnspentIsAbsent, AcquireOK, WriteBudget
    <3>3. CASE op.kind = "release"
      BY <1>1, <3>1, <3>3, RewrittenEntry DEF AbIInv, ReleaseOK
    <3>4. CASE op.kind = "reap"
      BY <1>1, <3>1, <3>4, RewrittenEntry
    <3> QED
      BY <1>3, <3>2, <3>3, <3>4
  <2> QED
    BY <1>2, <2>1 DEF AbIInv, RecordedUnderHolder
<1>8. UnspentIsAbsent'
  BY <1>1, <1>2, <1>3, RewrittenEntry DEF WriteBudget, AbIInv, UnspentIsAbsent
<1>9. AcquireOK'
  <2>1. CASE op' = Unlocked
    BY <2>1 DEF AcquireOK, Unlocked
  <2>2. CASE op' = [op EXCEPT !.at = "truncate"]
    BY <1>1, <1>2, <1>3, <2>2, RewrittenEntry DEF AbIInv, AcquireOK
  <2> QED
    BY <1>4, <2>1, <2>2
<1>10. ReleaseOK'
  BY <1>2, <1>3, <1>4 DEF AbIInv, ReleaseOK, Unlocked
<1>11. FileFits'
  <2>1. Reserved(active)' = Reserved(Rewritten)
    BY <1>2 DEF Reserved
  <2> QED
    BY <1>1, <2>1, RewrittenFits DEF FileFits
<1> QED
  BY <1>5, <1>6, <1>7, <1>8, <1>9, <1>10, <1>11 DEF AbIInv

\* The file is truncated and synced; only then does an acquirer hold.
LEMMA TruncateIInv == ASSUME AbIInv, Truncate PROVE AbIInv'
<1>1. op \in [by : running, kind : {"acquire", "release", "reap"},
              token : SUBSET Tokens, at : {"read", "truncate"}]
  BY DEF AbIInv, OpOK, Truncate, Unlocked
<1>2. op' = Unlocked /\ readable' = TRUE /\ UNCHANGED <<running, active, spent>>
  BY DEF Truncate
<1>3. /\ holding' \in [Pids -> SUBSET Tokens]
      /\ \A p \in Pids : \A t \in holding'[p] :
           t \in holding[p] \/ (p = op.by /\ op.kind = "acquire" /\ t \in op.token)
  BY <1>1 DEF Truncate, AbIInv, AbTypeOK
<1>4. RecordedUnderHolder'
  BY <1>1, <1>2, <1>3 DEF AbIInv, AbTypeOK, RecordedUnderHolder, AcquireOK, Truncate
<1> QED
  BY <1>2, <1>3, <1>4 DEF AbIInv, AbTypeOK, OpOK, UnspentIsAbsent, AcquireOK, ReleaseOK,
     FileFits, Reserved, Unlocked

\* A process dies: its flock goes with it and its memory of what it held.
LEMMA DieIInv == ASSUME AbIInv, NEW p \in Pids, Die(p) PROVE AbIInv'
<1>1. /\ running' = running \ {p} /\ UNCHANGED <<active, readable, spent>>
      /\ op' = IF op.by = p THEN Unlocked ELSE op
  BY DEF Die
<1>2. /\ holding' \in [Pids -> SUBSET Tokens]
      /\ \A q \in Pids : holding'[q] = IF q = p THEN {} ELSE holding[q]
  BY DEF Die, AbIInv, AbTypeOK
<1>3. OpOK'
  BY <1>1 DEF AbIInv, OpOK
<1>4. RecordedUnderHolder'
  BY <1>1, <1>2 DEF AbIInv, RecordedUnderHolder
<1> QED
  BY <1>1, <1>2, <1>3, <1>4 DEF AbIInv, AbTypeOK, UnspentIsAbsent, AcquireOK, ReleaseOK,
     FileFits, Reserved, Unlocked

\* A new process under a dead one's PID holds nothing of what the file still
\* records for it.
LEMMA PidReusedIInv == ASSUME AbIInv, NEW p \in Pids, PidReused(p) PROVE AbIInv'
BY DEF PidReused, AbIInv, AbTypeOK, OpOK, RecordedUnderHolder, UnspentIsAbsent,
   AcquireOK, ReleaseOK, FileFits, Reserved

\* Every step of the tree's supervisors keeps the inductive invariant.
LEMMA AbNextIInv == AbIInv /\ [AbNext]_abVars => AbIInv'
<1> SUFFICES ASSUME AbIInv, [AbNext]_abVars PROVE AbIInv'
  OBVIOUS
<1>1. CASE UNCHANGED abVars
  BY <1>1 DEF abVars, AbIInv, AbTypeOK, OpOK, RecordedUnderHolder, UnspentIsAbsent,
     AcquireOK, ReleaseOK, FileFits, Reserved
<1>2. CASE AbNext
  BY <1>2, LockIInv, GiveUpIInv, WriteBudgetIInv, TruncateIInv, DieIInv, PidReusedIInv
     DEF AbNext
<1> QED
  BY <1>1, <1>2

-----------------------------------------------------------------------------
\* What live processes hold is recorded in the file, and the file fits.
LEMMA IInvNeverOversubscribed == AbIInv => NeverOversubscribed
<1> SUFFICES ASSUME AbIInv PROVE NeverOversubscribed
  OBVIOUS
<1>1. \A p \in Pids : holding[p] \subseteq Reserved(active)
  BY BudgetAssumption DEF AbIInv, AbTypeOK, RecordedUnderHolder, Reserved
<1>2. UNION {holding[p] : p \in running} \subseteq Reserved(active)
  BY <1>1 DEF AbIInv, AbTypeOK
<1>3. /\ IsFiniteSet(UNION {holding[p] : p \in running})
      /\ Cardinality(UNION {holding[p] : p \in running}) <= Cardinality(Reserved(active))
  BY <1>2, ReservedFinite, FS_Subset
<1>4. Cardinality(UNION {holding[p] : p \in running}) <= Capacity
  BY <1>3, ReservedFinite, FS_CardinalityType, BudgetAssumption DEF AbIInv, FileFits
<1> QED
  BY <1>1, <1>4 DEF NeverOversubscribed, AbIInv, AbTypeOK

\* The budget keeps its inductive invariant, crashes and reused PIDs included.
THEOREM BudgetInductive == AbSpec => []AbIInv
<1> QED
  BY AbInitIInv, AbNextIInv, PTL DEF AbSpec

\* A tree never runs more than MaxTreeBudget processes' worth of admissions,
\* and no reaper or failed write takes a live holder's reservation away, for
\* any number of supervisors dying at any point of TreeBudget's operations.
THEOREM BudgetNeverOversubscribed == AbSpec => []NeverOversubscribed
<1> QED
  BY BudgetInductive, IInvNeverOversubscribed, PTL
=============================================================================
