----------------------------- MODULE ParentLink -----------------------------
(***************************************************************************)
(* The registration of a branch at its parent broker: messaging/parentlink *)
(* with the parent routes of runtime/broker.  The branch publishes its     *)
(* runs with their credentials; the parent keeps them in two places, the   *)
(* link's registry (who owns a run) and its own run records (who may act   *)
(* as it), each under a lock of its own.  A registration and a             *)
(* deregistration hold parentRegisterMu; a relay that was refused does not.*)
(* Posts may be lost, or be handled after their sender gave up.            *)
(*                                                                         *)
(* One branch identity: claims are namespaced by it, so branches do not    *)
(* meet.  Its processes follow one another; the generation stands for the  *)
(* endpoint too.  A credential is a number, 0 for none, never used twice.  *)
(***************************************************************************)
EXTENDS Naturals, FiniteSets

CONSTANTS BranchRuns,   \* run IDs of the branch
          Relayers,     \* concurrent relays into the branch
          MaxTokens,    \* bound: credentials minted
          MaxGens,      \* bound: generations of the branch's ask store
          MaxPosts,     \* bound: posts on their way at once
          MaxLate       \* bound: registrations that are lost or late

ASSUME ParentAssumption ==
  /\ MaxTokens \in Nat \ {0} /\ MaxGens \in Nat \ {0} /\ MaxPosts \in Nat \ {0}
  /\ MaxLate \in Nat

VARIABLES
  branch,     \* process of the branch: up, closed (its link), draining, down
  gen,        \* generation of its ask store
  minted,     \* credentials minted so far
  own,        \* run -> its credential in the branch
  syncing,    \* the registration that Sync waits for: a set of at most one
  published,  \* the registration the parent last accepted
  posts,      \* registrations and deregistrations on their way
  late,       \* registrations lost or late so far
  registry,   \* the parent's registry: generation and claims of the branch
  record,     \* run -> credential of the parent's record
  handler,    \* the request that holds parentRegisterMu
  relay       \* the relays into the branch

plVars == <<branch, gen, minted, own, syncing, published, posts, late, registry,
            record, handler, relay>>
branchVars == <<branch, gen, minted, own, published, late>>

NoTokens == [r \in BranchRuns |-> 0]
NoRegistration == [gen |-> 0, claims |-> NoTokens]
Notice(kind, reg) == [kind |-> kind, reg |-> reg]
\* gone: records to delete, with their credential; todo: claims to apply; fresh:
\* those of them that the registry did not hold before.
Free == [at |-> "free", reg |-> NoRegistration, gone |-> {}, todo |-> {}, fresh |-> {}]
Quiet == [at |-> "idle", run |-> "none", gen |-> 0, token |-> 0, gone |-> {}]

PlInit ==
  /\ branch = "up" /\ gen = 1 /\ minted = 0 /\ own = NoTokens
  /\ syncing = {} /\ published = NoRegistration /\ posts = {} /\ late = 0
  /\ registry = NoRegistration /\ record = NoTokens /\ handler = Free
  /\ relay = [x \in Relayers |-> Quiet]

Held(r) == registry.claims[r] # 0

-----------------------------------------------------------------------------
(* The branch. *)

\* CreateRun and DeleteRun in the branch's broker: a run that is started again
\* has a new credential.
StartRun(r) ==
  /\ branch = "up" /\ own[r] = 0 /\ minted < MaxTokens
  /\ minted' = minted + 1 /\ own' = [own EXCEPT ![r] = minted']
  /\ UNCHANGED <<branch, gen, published, late, syncing, posts, registry, record, handler, relay>>

EndRun(r) ==
  /\ branch = "up" /\ own[r] # 0
  /\ own' = [own EXCEPT ![r] = 0]
  /\ UNCHANGED <<branch, gen, minted, published, late, syncing, posts, registry, record, handler, relay>>

\* Sync: one registration at a time, on a change and on every refresh.
Claims == [gen |-> gen, claims |-> own]
Sync ==
  /\ branch = "up" /\ syncing = {} /\ Cardinality(posts) < MaxPosts
  /\ syncing' = {Claims} /\ posts' = posts \cup {Notice("register", Claims)}
  /\ UNCHANGED <<branchVars, registry, record, handler, relay>>

\* The registration gets no answer in time: it is lost, or it is still on its way.
\* (A deregistration that is lost is a process that ends without Close.)
SyncTimesOut ==
  /\ syncing # {} /\ late < MaxLate
  /\ syncing' = {} /\ late' = late + 1
  /\ posts' \in {posts, {m \in posts : m.reg \notin syncing}}
  /\ UNCHANGED <<branch, gen, minted, own, published, registry, record, handler, relay>>

\* Close: the publication loop has ended; the deregistration carries the view that
\* the parent last accepted.
Close ==
  /\ branch = "up" /\ syncing = {} /\ Cardinality(posts) < MaxPosts
  /\ branch' = "closed" /\ posts' = posts \cup {Notice("deregister", published)}
  /\ published' = NoRegistration
  /\ UNCHANGED <<gen, minted, own, late, syncing, registry, record, handler, relay>>

\* Broker.Stop rotates the generation under requests that are still being served.
StopBroker ==
  /\ branch = "closed" /\ gen < MaxGens
  /\ branch' = "draining" /\ gen' = gen + 1
  /\ UNCHANGED <<minted, own, published, late, syncing, posts, registry, record, handler, relay>>

\* The process ends, cleanly or not, and its runs with it.
Die ==
  /\ branch # "down"
  /\ branch' = "down" /\ own' = NoTokens /\ syncing' = {} /\ published' = NoRegistration
  /\ UNCHANGED <<gen, minted, late, posts, registry, record, handler, relay>>

\* A replacement comes back under the same identity.
Return ==
  /\ branch = "down" /\ gen < MaxGens
  /\ branch' = "up" /\ gen' = gen + 1
  /\ UNCHANGED <<minted, own, published, late, syncing, posts, registry, record, handler, relay>>

-----------------------------------------------------------------------------
(* handleParentRegister, under parentRegisterMu. *)

\* A record the registry does not own is not the branch's to take.
Foreign(r) == record[r] # 0 /\ ~Held(r)

Claimed(reg) == {r \in BranchRuns : reg.claims[r] # 0}

\* The claim is refused whole.  The guard reads the two maps one after the other;
\* what lands in between is refused here or in the next step.
RefuseClaim(m) ==
  /\ handler.at = "free" /\ m.kind = "register"
  /\ \E r \in Claimed(m.reg) : Foreign(r)
  /\ posts' = posts \ {m} /\ syncing' = syncing \ {m.reg}
  /\ UNCHANGED <<branchVars, registry, record, handler, relay>>

GuardClaim(m) ==
  /\ handler.at = "free" /\ m.kind = "register"
  /\ \A r \in Claimed(m.reg) : ~Foreign(r)
  /\ handler' = [Free EXCEPT !.at = "guarded", !.reg = m.reg]
  /\ posts' = posts \ {m}
  /\ UNCHANGED <<branchVars, syncing, registry, record, relay>>

\* Registry.Register: the claim replaces the one before.
Register ==
  LET claimed == Claimed(handler.reg)
  IN /\ handler.at = "guarded"
     /\ registry' = handler.reg
     /\ handler' = [handler EXCEPT !.at = "applying",
                      !.gone = {r \in BranchRuns : Held(r)} \ claimed,
                      !.todo = claimed, !.fresh = {r \in claimed : ~Held(r)}]
     /\ UNCHANGED <<branchVars, syncing, posts, record, relay>>

\* DeleteRun of the runs that are not claimed any more.
DropRecord(r) ==
  /\ handler.at = "applying" /\ r \in handler.gone
  /\ record' = [record EXCEPT ![r] = 0]
  /\ handler' = [handler EXCEPT !.gone = @ \ {r}]
  /\ UNCHANGED <<branchVars, syncing, posts, registry, relay>>

\* Mutant: a record keeps the credential it has.
Adopted_Keeps(r) == IF record[r] = 0 THEN handler.reg.claims[r] ELSE record[r]

\* ownRun: a new record takes the credential of the claim, and so does a record
\* whose run the registry held before.
Adopted(r) ==
  IF record[r] # 0 /\ r \in handler.fresh THEN record[r] ELSE handler.reg.claims[r]

ownRun(r) ==
  /\ handler.at = "applying" /\ handler.gone = {} /\ r \in handler.todo
  /\ record' = [record EXCEPT ![r] = Adopted(r)]
  /\ handler' = [handler EXCEPT !.todo = @ \ {r}]
  /\ UNCHANGED <<branchVars, syncing, posts, registry, relay>>

\* The answer, which counts if Sync still waits for it.
AcceptClaim ==
  /\ handler.at = "applying" /\ handler.gone = {} /\ handler.todo = {}
  /\ published' = IF handler.reg \in syncing THEN handler.reg ELSE published
  /\ syncing' = syncing \ {handler.reg}
  /\ handler' = Free
  /\ UNCHANGED <<branch, gen, minted, own, late, posts, registry, record, relay>>

-----------------------------------------------------------------------------
(* handleParentDeregister, under parentRegisterMu. *)

registrationMatches(view) ==
  /\ registry.gen = view.gen
  /\ \A r \in Claimed(registry) : view.claims[r] = registry.claims[r]

Retired(reg) == {<<r, reg.claims[r]>> : r \in Claimed(reg)}

Deregister(m) ==
  /\ handler.at = "free" /\ m.kind = "deregister"
  /\ posts' = posts \ {m}
  /\ IF registry # NoRegistration /\ registrationMatches(m.reg)
       THEN /\ registry' = NoRegistration
            /\ handler' = [Free EXCEPT !.at = "retiring", !.gone = Retired(registry)]
       ELSE UNCHANGED <<registry, handler>>
  /\ UNCHANGED <<branchVars, syncing, record, relay>>

\* DeleteRunIfToken.
DeletedIfToken(t) == IF record[t[1]] = t[2] THEN [record EXCEPT ![t[1]] = 0] ELSE record

RetireRecord ==
  /\ handler.at = "retiring"
  /\ IF handler.gone = {}
       THEN handler' = Free /\ UNCHANGED record
       ELSE \E t \in handler.gone :
              record' = DeletedIfToken(t) /\ handler' = [handler EXCEPT !.gone = @ \ {t}]
  /\ UNCHANGED <<branchVars, syncing, posts, registry, relay>>

-----------------------------------------------------------------------------
(* Relays into the branch: they hold no lock of the broker. *)

Goes(x, to) == relay' = [relay EXCEPT ![x] = to]

\* hop: the claim is read and posted to.
hop(x, r) ==
  /\ relay[x] = Quiet /\ Held(r)
  /\ Goes(x, [Quiet EXCEPT !.at = "posted", !.run = r, !.gen = registry.gen,
                           !.token = registry.claims[r]])
  /\ UNCHANGED <<branchVars, syncing, posts, registry, record, handler>>

\* handleRelay in the branch, behind withAuth.  A relay that is delivered, or
\* that nobody answers, leaves the claim alone.
handleRelay(x) ==
  /\ relay[x].at = "posted"
  /\ Goes(x, IF branch = "down" THEN Quiet
             ELSE IF own[relay[x].run] # relay[x].token
               THEN [relay[x] EXCEPT !.at = "refusedRun"]
             ELSE IF gen # relay[x].gen
               THEN [relay[x] EXCEPT !.at = "refusedBranch"]
             ELSE Quiet)
  /\ UNCHANGED <<branchVars, syncing, posts, registry, record, handler>>

RelayLost(x) ==
  /\ relay[x].at = "posted"
  /\ Goes(x, Quiet)
  /\ UNCHANGED <<branchVars, syncing, posts, registry, record, handler>>

\* Mutant: a claim of the branch matches whatever its credential is.
claimMatchesHop_Branch(x) == registry.gen = relay[x].gen /\ Held(relay[x].run)

claimMatchesHop(x) ==
  registry.gen = relay[x].gen /\ registry.claims[relay[x].run] = relay[x].token

\* ForgetIfStale: the claim of one run.
ForgetIfStale(x) ==
  /\ relay[x].at = "refusedRun"
  /\ IF claimMatchesHop(x)
       THEN /\ registry' = [registry EXCEPT !.claims[relay[x].run] = 0]
            /\ Goes(x, [relay[x] EXCEPT !.at = "retiring",
                          !.gone = {<<relay[x].run, relay[x].token>>}])
       ELSE Goes(x, Quiet) /\ UNCHANGED registry
  /\ UNCHANGED <<branchVars, syncing, posts, record, handler>>

\* ForgetChildIfStale: the whole registration.
ForgetChildIfStale(x) ==
  /\ relay[x].at = "refusedBranch"
  /\ IF claimMatchesHop(x)
       THEN /\ registry' = NoRegistration
            /\ Goes(x, [relay[x] EXCEPT !.at = "retiring", !.gone = Retired(registry)])
       ELSE Goes(x, Quiet) /\ UNCHANGED registry
  /\ UNCHANGED <<branchVars, syncing, posts, record, handler>>

\* RetireRun: the records of the forgotten claims.
RetireRun(x) ==
  /\ relay[x].at = "retiring"
  /\ \E t \in relay[x].gone :
       /\ record' = DeletedIfToken(t)
       /\ Goes(x, IF relay[x].gone = {t} THEN Quiet ELSE [relay[x] EXCEPT !.gone = @ \ {t}])
  /\ UNCHANGED <<branchVars, syncing, posts, registry, handler>>

-----------------------------------------------------------------------------
HandlerStep ==
  \/ \E m \in posts : RefuseClaim(m) \/ GuardClaim(m) \/ Deregister(m)
  \/ Register \/ (\E r \in BranchRuns : DropRecord(r) \/ ownRun(r))
  \/ AcceptClaim \/ RetireRecord
RelayStep(x) ==
  handleRelay(x) \/ ForgetIfStale(x) \/ ForgetChildIfStale(x) \/ RetireRun(x)

PlNext ==
  \/ \E r \in BranchRuns : StartRun(r) \/ EndRun(r)
  \/ Sync \/ SyncTimesOut \/ Close \/ StopBroker \/ Die \/ Return
  \/ HandlerStep
  \/ \E x \in Relayers : RelayStep(x) \/ RelayLost(x) \/ \E r \in BranchRuns : hop(x, r)

\* The publication loop of a live branch ticks, and the parent's handlers and relays
\* run.
PlFairness ==
  /\ WF_plVars(Sync) /\ WF_plVars(HandlerStep)
  /\ \A x \in Relayers : WF_plVars(RelayStep(x))

PlSpec == PlInit /\ [][PlNext]_plVars
PlFairSpec == PlSpec /\ PlFairness

-----------------------------------------------------------------------------
(* Properties. *)

Healthy(r) == branch = "up" /\ registry.gen = gen /\ own[r] # 0 /\ registry.claims[r] = own[r]

\* A live run whose claim the parent holds stays routed and keeps its record,
\* whatever late deregistration of an earlier process or delayed refusal of an
\* old relay is handled: only a registration may change either (Deregister,
\* ForgetIfStale, ForgetChildIfStale, DeleteRunIfToken).
HealthyClaimKept ==
  [][\A r \in BranchRuns : Healthy(r) /\ handler.at \notin {"guarded", "applying"} =>
       /\ registry'.claims[r] = registry.claims[r]
       /\ record[r] = own[r] => record'[r] = record[r]]_plVars

Working == handler # Free \/ \E x \in Relayers : relay[x].at = "retiring"
LeftBehind == \E r \in BranchRuns : record[r] # 0 /\ ~Held(r)

\* A branch that stays up, and has had a run, is registered in the end with the runs
\* it has: the registry and the records both name their credentials.  Lost and late
\* posts, restarts and refused relays delay it.  A record that was left behind keeps
\* the branch out, see RecordsAreOwned.
BranchIsRouted ==
  <>[](branch = "up" /\ minted # 0 => LeftBehind \/ (registry = Claims /\ record = own))

\* Between two requests the parent has no record of the branch whose claim is
\* gone: "the claim and the host's run record go together" (relay.go).
RecordsAreOwned == ~Working => ~LeftBehind
=============================================================================
