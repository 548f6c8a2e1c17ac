-------------------------- MODULE AdmissionBudget ---------------------------
(***************************************************************************)
(* The tree admission budget: one file that the supervisors of a tree, in  *)
(* processes of their own, lock, read, rewrite in place and truncate.  A   *)
(* process may die at any point; the kernel then drops its lock and leaves *)
(* the file as it is, and a reaper removes the reservations of PIDs that   *)
(* do not exist.  PIDs are reused.                                         *)
(***************************************************************************)
EXTENDS Naturals, FiniteSets

CONSTANTS Pids,       \* the PIDs supervisors of the tree run under
          Tokens,     \* bound: the tokens the tree ever generates
          Capacity    \* MaxTreeBudget

NoPid == "no pid"

ASSUME BudgetAssumption ==
  Capacity \in Nat \ {0} /\ IsFiniteSet(Tokens) /\ NoPid \notin Pids

VARIABLES
  running,   \* PIDs of live processes
  holding,   \* the tokens each process believes it holds
  active,    \* the file's Active: token to the PID recorded with it
  readable,  \* the file parses
  spent,     \* tokens generated so far
  op         \* the operation under the flock

abVars == <<running, holding, active, readable, spent, op>>

Unlocked == [by |-> NoPid, kind |-> "none", token |-> {}, at |-> "none"]
Reserved(file) == {t \in Tokens : file[t] # NoPid}

AbInit ==
  /\ running = Pids
  /\ holding = [p \in Pids |-> {}]
  /\ active = [t \in Tokens |-> NoPid]
  /\ readable = TRUE /\ spent = {} /\ op = Unlocked

-----------------------------------------------------------------------------
\* The flock is taken for an operation.  A holder forgets its token before it
\* releases it.
Lock(p, kind, toks) ==
  /\ p \in running /\ op = Unlocked
  /\ op' = [by |-> p, kind |-> kind, token |-> toks, at |-> "read"]
  /\ holding' = IF kind = "release" THEN [holding EXCEPT ![p] = @ \ toks] ELSE holding
  /\ UNCHANGED <<running, active, readable, spent>>

Acquire(p) == \E t \in Tokens \ spent : Lock(p, "acquire", {t})
Release(p) == \E t \in holding[p] : Lock(p, "release", {t})
Reap(p) == Lock(p, "reap", {})

Full == Cardinality(Reserved(active)) >= Capacity

\* Mutant: a process of another user counts as dead.
pidAlive_Own(p) == p = op.by

pidAlive(p) == p \in running

\* What the operation makes of the file's reservations.
Rewritten ==
  [t \in Tokens |->
     CASE op.kind = "acquire" /\ t \in op.token -> op.by
       [] op.kind = "release" /\ t \in op.token -> NoPid
       [] op.kind = "reap" /\ active[t] # NoPid /\ ~pidAlive(active[t]) -> NoPid
       [] OTHER -> active[t]]

\* The operation reads and gives up: the file does not parse, the budget is
\* exhausted, or there is nothing to write.
GiveUp ==
  /\ op.at = "read"
  /\ ~readable \/ Rewritten = active \/ (op.kind = "acquire" /\ Full)
  /\ op' = Unlocked
  /\ UNCHANGED <<running, holding, active, readable, spent>>

\* The file is rewritten from its start: until it is truncated, a shorter
\* content is followed by the rest of the old one.  A write that fails part
\* way leaves a file that does not parse.
WriteBudget ==
  /\ op.at = "read" /\ readable /\ Rewritten # active
  /\ op.kind = "acquire" => ~Full
  /\ active' = Rewritten
  /\ spent' = IF op.kind = "acquire" THEN spent \cup op.token ELSE spent
  /\ \/ /\ op' = [op EXCEPT !.at = "truncate"]
        /\ readable' = (op.kind = "acquire")
     \/ /\ op' = Unlocked /\ readable' = FALSE
  /\ UNCHANGED <<running, holding>>

\* Truncated and synced, the operation succeeds; when the sync fails it
\* reports an error although the file has changed.
Truncate ==
  /\ op.at = "truncate"
  /\ readable' = TRUE /\ op' = Unlocked
  /\ holding' \in {holding, IF op.kind = "acquire" THEN [holding EXCEPT ![op.by] = @ \cup op.token]
                            ELSE holding}
  /\ UNCHANGED <<running, active, spent>>

Die(p) ==
  /\ p \in running
  /\ running' = running \ {p} /\ holding' = [holding EXCEPT ![p] = {}]
  /\ op' = IF op.by = p THEN Unlocked ELSE op
  /\ UNCHANGED <<active, readable, spent>>

\* A new process gets a PID that reservations of a dead one still name.
PidReused(p) ==
  /\ p \notin running
  /\ running' = running \cup {p}
  /\ UNCHANGED <<holding, active, readable, spent, op>>

AbNext ==
  \/ \E p \in Pids : Acquire(p) \/ Release(p) \/ Reap(p) \/ Die(p) \/ PidReused(p)
  \/ GiveUp \/ WriteBudget \/ Truncate

AbSpec == AbInit /\ [][AbNext]_abVars

-----------------------------------------------------------------------------
AbTypeOK ==
  /\ running \subseteq Pids /\ holding \in [Pids -> SUBSET Tokens]
  /\ active \in [Tokens -> Pids \cup {NoPid}]
  /\ readable \in BOOLEAN /\ spent \subseteq Tokens
  /\ op.kind \in {"none", "acquire", "release", "reap"} /\ op.at \in {"none", "read", "truncate"}

(* The tree never runs more than its capacity, whatever dies in the middle *)
(* of an operation: what live processes hold fits, and each token they     *)
(* hold is recorded in the file, so no reaper gave it away.                *)
NeverOversubscribed ==
  /\ Cardinality(UNION {holding[p] : p \in running}) <= Capacity
  /\ \A p \in running : holding[p] \subseteq Reserved(active)
=============================================================================
