--------------------------- MODULE MessagingProofs ---------------------------
(***************************************************************************)
(* What the broker promises its runs, for any number of runs, messages,    *)
(* waiters, relays and restarts: a branch keeps the claims of its live     *)
(* runs (ParentLink), a message is never replayed, the records of the ask  *)
(* store stay bounded, and an ask has one outcome (AskStore, AskPromise).  *)
(***************************************************************************)
EXTENDS AskStore, ParentLink, FiniteSetTheorems, SequenceTheorems, TLAPS

-----------------------------------------------------------------------------
(***************************************************************************)
(* ParentLink: the inductive invariant.                                    *)
(***************************************************************************)
Tokens == BranchRuns \X (Nat \ {0})
Registrations == [gen : Nat, claims : [BranchRuns -> Nat]]
Handlers == [at : {"free", "guarded", "applying", "retiring"}, reg : Registrations,
             gone : SUBSET (BranchRuns \cup Tokens), todo : SUBSET BranchRuns,
             fresh : SUBSET BranchRuns]
Relays == [at : {"idle", "posted", "refusedRun", "refusedBranch", "retiring"},
           run : BranchRuns \cup {"none"}, gen : Nat, token : Nat, gone : SUBSET Tokens]

BranchTyped ==
  /\ branch \in {"up", "closed", "draining", "down"}
  /\ gen \in Nat /\ minted \in Nat /\ own \in [BranchRuns -> Nat]
  /\ syncing \subseteq Registrations /\ published \in Registrations
  /\ posts \subseteq [kind : {"register", "deregister"}, reg : Registrations]
  /\ branch = "down" => own = NoTokens
ParentTyped ==
  /\ registry \in Registrations /\ record \in [BranchRuns -> Nat]
  /\ handler \in Handlers /\ (handler.at = "retiring" => handler.gone \subseteq Tokens)
  /\ relay \in [Relayers -> Relays]

\* A registration is no newer than the branch, and the credentials of an
\* earlier generation are not those of the runs the branch has now.
KnownReg(reg) ==
  /\ reg.gen <= gen
  /\ \A r \in BranchRuns :
       /\ reg.claims[r] <= minted
       /\ reg.gen < gen /\ branch # "draining" /\ reg.claims[r] # 0 => reg.claims[r] # own[r]

RegsKnown ==
  /\ KnownReg(registry) /\ KnownReg(published) /\ KnownReg(handler.reg)
  /\ \A reg \in syncing : KnownReg(reg)
  /\ \A m \in posts : KnownReg(m.reg)

OwnMinted == \A r \in BranchRuns : own[r] <= minted

\* While a branch is up, deregistrations on their way are of earlier processes.
LateViews == \A m \in posts : m.kind = "deregister" /\ branch = "up" => m.reg.gen < gen

\* Records that are being retired are not those of runs the branch has.
Departed(t) == t[2] <= minted /\ (branch = "up" => own[t[1]] # t[2])
GoneDeparted ==
  /\ handler.at = "retiring" => \A t \in handler.gone : Departed(t)
  /\ \A x \in Relayers : \A t \in relay[x].gone : Departed(t)

\* A relay that was refused was refused for good.
RelaysOK ==
  \A x \in Relayers :
    relay[x].at # "idle" =>
      /\ relay[x].run \in BranchRuns
      /\ relay[x].gen <= gen /\ relay[x].token # 0 /\ relay[x].token <= minted
      /\ relay[x].at = "refusedRun" => own[relay[x].run] # relay[x].token
      /\ relay[x].at = "refusedBranch" => relay[x].gen < gen

PlIInv == /\ BranchTyped /\ ParentTyped /\ RegsKnown /\ OwnMinted /\ LateViews
          /\ GoneDeparted /\ RelaysOK

-----------------------------------------------------------------------------
\* The records the actions build are typed.
LEMMA ParentValues ==
  /\ NoTokens \in [BranchRuns -> Nat]
  /\ NoRegistration \in Registrations
  /\ Free \in Handlers /\ Free.at = "free"
  /\ Quiet \in Relays /\ Quiet.at = "idle" /\ Quiet.gone = {}
  /\ \A reg \in Registrations : Claimed(reg) \subseteq BranchRuns /\ Retired(reg) \subseteq Tokens
  /\ BranchTyped => Claims \in Registrations
BY DEF NoTokens, NoRegistration, Registrations, Free, Handlers, Quiet, Relays, Claimed,
       Retired, Tokens, Claims, BranchTyped

\* The branch starts up, unregistered and without runs.
LEMMA ParentInit == PlInit => PlIInv
<1>. SUFFICES ASSUME PlInit PROVE PlIInv
  OBVIOUS
<1>1. BranchTyped /\ ParentTyped
  BY ParentValues DEF PlInit, BranchTyped, ParentTyped, Free, Quiet
<1>2. RegsKnown /\ OwnMinted /\ LateViews /\ GoneDeparted /\ RelaysOK
  BY DEF PlInit, RegsKnown, KnownReg, OwnMinted, LateViews, GoneDeparted, RelaysOK,
         NoRegistration, NoTokens, Free, Quiet
<1>. QED  BY <1>1, <1>2 DEF PlIInv

\* The steps of the branch keep its state typed, and leave the parent's alone.
LEMMA BranchActs ==
  ASSUME PlIInv,
         \/ \E r \in BranchRuns : StartRun(r) \/ EndRun(r)
         \/ Sync \/ SyncTimesOut \/ Close \/ StopBroker \/ Die \/ Return
  PROVE  PlIInv'
<1>. USE DEF PlIInv
<1>1. CASE \E r \in BranchRuns : StartRun(r)
  <2>. PICK r \in BranchRuns : StartRun(r)
    BY <1>1
  <2>1. BranchTyped'
    BY DEF StartRun, BranchTyped
  <2>2. ParentTyped'
    BY DEF StartRun, ParentTyped
  <2>3. RegsKnown' /\ OwnMinted' /\ LateViews'
    BY DEF StartRun, BranchTyped, ParentTyped, RegsKnown, KnownReg, OwnMinted, LateViews,
           Registrations, Handlers
  <2>4. GoneDeparted' /\ RelaysOK'
    BY DEF StartRun, BranchTyped, ParentTyped, GoneDeparted, Departed, RelaysOK, Tokens,
           Relays, Handlers
  <2>. QED  BY <2>1, <2>2, <2>3, <2>4
<1>2. CASE \E r \in BranchRuns : EndRun(r)
  <2>. PICK r \in BranchRuns : EndRun(r)
    BY <1>2
  <2>1. BranchTyped'
    BY DEF EndRun, BranchTyped
  <2>2. ParentTyped'
    BY DEF EndRun, ParentTyped
  <2>3. RegsKnown' /\ OwnMinted' /\ LateViews'
    BY DEF EndRun, BranchTyped, ParentTyped, RegsKnown, KnownReg, OwnMinted, LateViews,
           Registrations, Handlers
  <2>4. GoneDeparted' /\ RelaysOK'
    BY DEF EndRun, BranchTyped, ParentTyped, GoneDeparted, Departed, RelaysOK, Tokens,
           Relays, Handlers
  <2>. QED  BY <2>1, <2>2, <2>3, <2>4
<1>3. CASE Sync \/ SyncTimesOut
  <2>1. BranchTyped' /\ ParentTyped'
    BY <1>3, ParentValues DEF Sync, SyncTimesOut, BranchTyped, ParentTyped, branchVars, Notice
  <2>2. RegsKnown' /\ LateViews'
    BY <1>3 DEF Sync, SyncTimesOut, BranchTyped, RegsKnown, KnownReg, OwnMinted, LateViews,
                branchVars, Notice, Claims
  <2>3. OwnMinted' /\ GoneDeparted' /\ RelaysOK'
    BY <1>3 DEF Sync, SyncTimesOut, OwnMinted, GoneDeparted, Departed, RelaysOK, branchVars
  <2>. QED  BY <2>1, <2>2, <2>3
<1>4. CASE Close \/ StopBroker \/ Die \/ Return
  <2>1. BranchTyped' /\ ParentTyped'
    BY <1>4, ParentValues DEF Close, StopBroker, Die, Return, BranchTyped, ParentTyped, Notice
  <2>2. RegsKnown'
    BY <1>4 DEF Close, StopBroker, Die, Return, BranchTyped, ParentTyped, RegsKnown, KnownReg,
                Notice, NoRegistration, NoTokens, Registrations, Handlers
  <2>3. LateViews' /\ OwnMinted'
    BY <1>4 DEF Close, StopBroker, Die, Return, BranchTyped, RegsKnown, KnownReg, LateViews,
                OwnMinted, NoTokens, Registrations
  <2>4. GoneDeparted' /\ RelaysOK'
    BY <1>4 DEF Close, StopBroker, Die, Return, BranchTyped, ParentTyped, GoneDeparted, Departed,
                RelaysOK, NoTokens, Tokens, Relays, Handlers
  <2>. QED  BY <2>1, <2>2, <2>3, <2>4
<1>. QED  BY <1>1, <1>2, <1>3, <1>4

\* The handlers of the parent: the branch stays as it is, and what they write is
\* a registration they have read.
LEMMA HandlerActs ==
  ASSUME PlIInv, HandlerStep
  PROVE  PlIInv'
<1>. USE DEF PlIInv
<1>1. CASE \E m \in posts : RefuseClaim(m) \/ GuardClaim(m)
  <2>. PICK m \in posts : RefuseClaim(m) \/ GuardClaim(m)
    BY <1>1
  <2>0. (handler' = handler \/ handler'.reg = m.reg) /\ UNCHANGED <<registry, branchVars>>
        /\ syncing' \subseteq syncing /\ posts' \subseteq posts
    BY DEF RefuseClaim, GuardClaim, Free
  <2>1. BranchTyped' /\ ParentTyped'
    BY ParentValues DEF RefuseClaim, GuardClaim, BranchTyped, ParentTyped, branchVars, Free, Handlers
  <2>2. RegsKnown' /\ LateViews' /\ OwnMinted'
    <3>1. RegsKnown'
      BY <2>0 DEF BranchTyped, ParentTyped, RegsKnown, KnownReg, branchVars
    <3>2. LateViews'
      BY <2>0 DEF LateViews, branchVars
    <3>3. OwnMinted'
      BY <2>0 DEF OwnMinted, branchVars
    <3>. QED  BY <3>1, <3>2, <3>3
  <2>3. GoneDeparted' /\ RelaysOK'
    <3>1. UNCHANGED relay /\ (handler'.at = "retiring" => handler' = handler)
      BY DEF RefuseClaim, GuardClaim, Free
    <3>2. GoneDeparted'
      BY <2>0, <3>1 DEF GoneDeparted, Departed, branchVars
    <3>3. RelaysOK'
      BY <2>0, <3>1 DEF RelaysOK, branchVars
    <3>. QED  BY <3>2, <3>3
  <2>. QED  BY <2>1, <2>2, <2>3
<1>2. CASE \E m \in posts : Deregister(m)
  <2>. PICK m \in posts : Deregister(m)
    BY <1>2
  <2>0. /\ \/ UNCHANGED <<registry, handler>>
           \/ /\ registrationMatches(m.reg) /\ registry' = NoRegistration
              /\ handler' = [at |-> "retiring", reg |-> NoRegistration, gone |-> Retired(registry),
                             todo |-> {}, fresh |-> {}]
        /\ UNCHANGED <<branchVars, syncing, record, relay>> /\ posts' \subseteq posts
    BY DEF Deregister, Free
  <2>1. BranchTyped' /\ ParentTyped'
    <3>1. BranchTyped'
      BY <2>0 DEF BranchTyped, branchVars
    <3>2. Retired(registry) \subseteq Tokens
      BY ParentValues DEF ParentTyped
    <3>3. handler' \in Handlers /\ (handler'.at = "retiring" => handler'.gone \subseteq Tokens)
      BY <2>0, <3>2, ParentValues DEF ParentTyped, Handlers
    <3>4. ParentTyped'
      BY <2>0, <3>3, ParentValues DEF ParentTyped
    <3>. QED  BY <3>1, <3>4
  <2>2. RegsKnown' /\ LateViews' /\ OwnMinted'
    <3>1. KnownReg(NoRegistration)'
      BY <2>1 DEF KnownReg, NoRegistration, NoTokens, BranchTyped
    <3>. QED  BY <2>0, <3>1 DEF RegsKnown, KnownReg, LateViews, OwnMinted, branchVars
  <2>3. ASSUME registrationMatches(m.reg), NEW t \in Retired(registry)
        PROVE  Departed(t)
    BY <2>3 DEF Deregister, BranchTyped, ParentTyped, RegsKnown, KnownReg, LateViews, Departed,
       registrationMatches, Retired, Claimed, Registrations
  <2>4. GoneDeparted' /\ RelaysOK'
    BY <2>0, <2>3 DEF GoneDeparted, Departed, RelaysOK, branchVars
  <2>. QED  BY <2>1, <2>2, <2>4
<1>3. CASE Register
  <2>1. BranchTyped' /\ ParentTyped'
    BY <1>3, ParentValues DEF Register, BranchTyped, ParentTyped, branchVars, Handlers
  <2>2. RegsKnown' /\ LateViews' /\ OwnMinted' /\ GoneDeparted' /\ RelaysOK'
    BY <1>3 DEF Register, RegsKnown, KnownReg, LateViews, OwnMinted, branchVars, GoneDeparted,
                Departed, RelaysOK, ParentTyped, Handlers
  <2>. QED  BY <2>1, <2>2
<1>4. CASE \E r \in BranchRuns : DropRecord(r) \/ ownRun(r)
  <2>. PICK r \in BranchRuns : DropRecord(r) \/ ownRun(r)
    BY <1>4
  <2>1. BranchTyped' /\ ParentTyped'
    BY DEF DropRecord, ownRun, Adopted, BranchTyped, ParentTyped, branchVars, Handlers,
           Registrations
  <2>2. RegsKnown' /\ LateViews' /\ OwnMinted' /\ GoneDeparted' /\ RelaysOK'
    BY DEF DropRecord, ownRun, RegsKnown, KnownReg, LateViews, OwnMinted, branchVars,
           GoneDeparted, Departed, RelaysOK, ParentTyped, Handlers
  <2>. QED  BY <2>1, <2>2
<1>5. CASE AcceptClaim
  <2>1. BranchTyped' /\ ParentTyped'
    BY <1>5, ParentValues DEF AcceptClaim, BranchTyped, ParentTyped, Handlers
  <2>2. RegsKnown' /\ LateViews' /\ OwnMinted'
    BY <1>5 DEF AcceptClaim, RegsKnown, KnownReg, LateViews, OwnMinted, Free, NoRegistration,
                NoTokens, BranchTyped
  <2>3. GoneDeparted' /\ RelaysOK'
    BY <1>5 DEF AcceptClaim, GoneDeparted, Departed, RelaysOK, Free
  <2>. QED  BY <2>1, <2>2, <2>3
<1>6. CASE RetireRecord
  <2>1. BranchTyped' /\ ParentTyped'
    BY <1>6, ParentValues DEF RetireRecord, DeletedIfToken, BranchTyped, ParentTyped, branchVars,
                              Handlers, Tokens
  <2>2. RegsKnown' /\ LateViews' /\ OwnMinted'
    BY <1>6 DEF RetireRecord, RegsKnown, KnownReg, LateViews, OwnMinted, Free, NoRegistration,
                NoTokens, BranchTyped, ParentTyped, Handlers, branchVars
  <2>3. GoneDeparted' /\ RelaysOK'
    BY <1>6 DEF RetireRecord, GoneDeparted, Departed, RelaysOK, Free, ParentTyped, Handlers,
                branchVars
  <2>. QED  BY <2>1, <2>2, <2>3
<1>. QED  BY <1>1, <1>2, <1>3, <1>4, <1>5, <1>6 DEF HandlerStep

\* The relays: a refusal is final, since credentials and generations are not
\* used twice.
LEMMA RelayActs ==
  ASSUME PlIInv, NEW x \in Relayers,
         RelayStep(x) \/ RelayLost(x) \/ \E r \in BranchRuns : hop(x, r)
  PROVE  PlIInv'
<1>. USE DEF PlIInv
<1>0. relay[x] \in Relays /\ DOMAIN relay = Relayers
  BY DEF ParentTyped
<1>1. CASE RelayLost(x) \/ (\E r \in BranchRuns : hop(x, r))
  <2>0. PICK to \in Relays :
          /\ Goes(x, to) /\ to.gone = {}
          /\ \/ to.at = "idle"
             \/ /\ to.at = "posted" /\ to.run \in BranchRuns /\ to.gen = registry.gen
                /\ to.token = registry.claims[to.run] /\ to.token # 0
    <3>1. CASE RelayLost(x)
      BY <3>1, ParentValues DEF RelayLost
    <3>2. CASE \E r \in BranchRuns : hop(x, r)
      <4>. PICK r \in BranchRuns : hop(x, r)
        BY <3>2
      <4>. DEFINE to == [Quiet EXCEPT !.at = "posted", !.run = r, !.gen = registry.gen,
                                      !.token = registry.claims[r]]
      <4>1. /\ to \in Relays /\ to.gone = {} /\ to.at = "posted" /\ to.run = r
            /\ to.gen = registry.gen /\ to.token = registry.claims[r]
        BY ParentValues DEF Relays, ParentTyped, Registrations
      <4>2. Goes(x, to) /\ registry.claims[r] # 0
        BY DEF hop, Held
      <4>. QED  BY <4>1, <4>2
    <3>. QED  BY <1>1, <3>1, <3>2
  <2>1. BranchTyped' /\ ParentTyped'
    BY <1>1, <2>0 DEF RelayLost, hop, Goes, BranchTyped, ParentTyped, branchVars
  <2>2. RegsKnown' /\ LateViews' /\ OwnMinted'
    BY <1>1 DEF RelayLost, hop, RegsKnown, KnownReg, LateViews, OwnMinted, branchVars
  <2>3. GoneDeparted' /\ RelaysOK'
    <3>1. UNCHANGED <<branch, gen, minted, own, handler>>
      BY <1>1 DEF RelayLost, hop, branchVars
    <3>2. to.at = "posted" => to.gen <= gen /\ to.token <= minted
      BY <2>0 DEF RegsKnown, KnownReg
    <3>. QED  BY <1>0, <2>0, <3>1, <3>2 DEF Goes, GoneDeparted, Departed, RelaysOK
  <2>. QED  BY <2>1, <2>2, <2>3
<1>2. CASE handleRelay(x)
  <2>1. BranchTyped' /\ ParentTyped'
    BY <1>0, <1>2, ParentValues DEF handleRelay, Goes, BranchTyped, ParentTyped, branchVars,
       Relays
  <2>2. RegsKnown' /\ LateViews' /\ OwnMinted'
    BY <1>2 DEF handleRelay, RegsKnown, KnownReg, LateViews, OwnMinted, branchVars
  <2>3. GoneDeparted' /\ RelaysOK'
    BY <1>0, <1>2 DEF handleRelay, Goes, GoneDeparted, Departed, RelaysOK, branchVars, Quiet,
       Relays, BranchTyped
  <2>. QED  BY <2>1, <2>2, <2>3
<1>3. CASE ForgetIfStale(x)
  <2>0. PICK to \in Relays :
          /\ Goes(x, to)
          /\ \/ to.at = "idle" /\ to.gone = {} /\ UNCHANGED registry
             \/ /\ to.at = "retiring" /\ to.run = relay[x].run /\ to.gen = relay[x].gen
                /\ to.token = relay[x].token /\ to.gone = {<<relay[x].run, relay[x].token>>}
                /\ registry' = [registry EXCEPT !.claims[relay[x].run] = 0]
    <3>1. <<relay[x].run, relay[x].token>> \in Tokens
      BY <1>0, <1>3 DEF ForgetIfStale, RelaysOK, Tokens, Relays
    <3>2. CASE claimMatchesHop(x)
      <4>. DEFINE to == [relay[x] EXCEPT !.at = "retiring",
                                         !.gone = {<<relay[x].run, relay[x].token>>}]
      <4>1. to \in Relays
        BY <1>0, <3>1 DEF Relays
      <4>2. /\ to.at = "retiring" /\ to.run = relay[x].run /\ to.gen = relay[x].gen
            /\ to.token = relay[x].token /\ to.gone = {<<relay[x].run, relay[x].token>>}
        BY <1>0 DEF Relays
      <4>3. Goes(x, to) /\ registry' = [registry EXCEPT !.claims[relay[x].run] = 0]
        BY <1>3, <3>2 DEF ForgetIfStale
      <4>. QED  BY <4>1, <4>2, <4>3
    <3>3. CASE ~claimMatchesHop(x)
      BY <1>3, <3>3, ParentValues DEF ForgetIfStale
    <3>. QED  BY <3>2, <3>3
  <2>1. BranchTyped' /\ ParentTyped'
    <3>1. registry' \in Registrations
      BY <1>0, <1>3, <2>0 DEF ForgetIfStale, RelaysOK, Registrations, ParentTyped
    <3>. QED  BY <1>3, <2>0, <3>1 DEF ForgetIfStale, Goes, BranchTyped, ParentTyped, branchVars
  <2>2. RegsKnown' /\ LateViews' /\ OwnMinted'
    BY <1>3 DEF ForgetIfStale, RegsKnown, KnownReg, LateViews, OwnMinted, branchVars,
                ParentTyped, Registrations, BranchTyped
  <2>3. GoneDeparted' /\ RelaysOK'
    <3>1. UNCHANGED <<branch, gen, minted, own, handler>> /\ relay[x].at = "refusedRun"
      BY <1>3 DEF ForgetIfStale, branchVars
    <3>2. Departed(<<relay[x].run, relay[x].token>>)
      BY <3>1 DEF RelaysOK, Departed
    <3>3. GoneDeparted'
      BY <1>0, <2>0, <3>1, <3>2 DEF Goes, GoneDeparted, Departed
    <3>4. RelaysOK'
      BY <1>0, <2>0, <3>1 DEF Goes, RelaysOK
    <3>. QED  BY <3>3, <3>4
  <2>. QED  BY <2>1, <2>2, <2>3
<1>4. CASE ForgetChildIfStale(x)
  <2>0. PICK to \in Relays :
          /\ Goes(x, to)
          /\ \/ to.at = "idle" /\ to.gone = {} /\ UNCHANGED registry
             \/ /\ to.at = "retiring" /\ to.run = relay[x].run /\ to.gen = relay[x].gen
                /\ to.token = relay[x].token /\ to.gone = Retired(registry)
                /\ registry' = NoRegistration /\ claimMatchesHop(x)
    <3>2. CASE claimMatchesHop(x)
      <4>. DEFINE to == [relay[x] EXCEPT !.at = "retiring", !.gone = Retired(registry)]
      <4>0. Retired(registry) \subseteq Tokens
        BY ParentValues DEF ParentTyped
      <4>1. to \in Relays
        BY <1>0, <4>0 DEF Relays
      <4>2. /\ to.at = "retiring" /\ to.run = relay[x].run /\ to.gen = relay[x].gen
            /\ to.token = relay[x].token /\ to.gone = Retired(registry)
        BY <1>0 DEF Relays
      <4>3. Goes(x, to) /\ registry' = NoRegistration
        BY <1>4, <3>2 DEF ForgetChildIfStale
      <4>. QED  BY <3>2, <4>1, <4>2, <4>3
    <3>3. CASE ~claimMatchesHop(x)
      BY <1>4, <3>3, ParentValues DEF ForgetChildIfStale
    <3>. QED  BY <3>2, <3>3
  <2>1. BranchTyped' /\ ParentTyped'
    BY <1>4, <2>0, ParentValues DEF ForgetChildIfStale, Goes, BranchTyped, ParentTyped, branchVars
  <2>2. RegsKnown' /\ LateViews' /\ OwnMinted'
    BY <1>4 DEF ForgetChildIfStale, RegsKnown, KnownReg, LateViews, OwnMinted, branchVars,
                NoRegistration, NoTokens, BranchTyped
  <2>3. ASSUME claimMatchesHop(x), NEW t \in Retired(registry)
        PROVE  Departed(t)
    BY <1>0, <1>4, <2>3 DEF ForgetChildIfStale, RelaysOK, ParentTyped, RegsKnown, KnownReg, Departed,
       claimMatchesHop, Retired, Claimed, Registrations
  <2>4. GoneDeparted' /\ RelaysOK'
    <3>1. UNCHANGED <<branch, gen, minted, own, handler>> /\ relay[x].at = "refusedBranch"
      BY <1>4 DEF ForgetChildIfStale, branchVars
    <3>2. GoneDeparted'
      BY <1>0, <2>0, <2>3, <3>1 DEF Goes, GoneDeparted, Departed
    <3>3. RelaysOK'
      BY <1>0, <2>0, <3>1 DEF Goes, RelaysOK
    <3>. QED  BY <3>2, <3>3
  <2>. QED  BY <2>1, <2>2, <2>4
<1>5. CASE RetireRun(x)
  <2>. PICK t \in relay[x].gone :
         /\ record' = DeletedIfToken(t)
         /\ Goes(x, IF relay[x].gone = {t} THEN Quiet ELSE [relay[x] EXCEPT !.gone = @ \ {t}])
    BY <1>5 DEF RetireRun
  <2>1. BranchTyped' /\ ParentTyped'
    BY <1>0, <1>5, ParentValues DEF RetireRun, DeletedIfToken, Goes, BranchTyped, ParentTyped,
       branchVars, Relays, Tokens
  <2>2. RegsKnown' /\ LateViews' /\ OwnMinted'
    BY <1>5 DEF RetireRun, RegsKnown, KnownReg, LateViews, OwnMinted, branchVars
  <2>3. GoneDeparted' /\ RelaysOK'
    BY <1>0, <1>5 DEF RetireRun, Goes, GoneDeparted, Departed, RelaysOK, branchVars, Quiet, Relays
  <2>. QED  BY <2>1, <2>2, <2>3
<1>. QED  BY <1>1, <1>2, <1>3, <1>4, <1>5 DEF RelayStep

\* The registration of a branch at its parent keeps the invariant, for any runs,
\* relays, lost posts and restarts.
THEOREM LinkInductive == PlSpec => []PlIInv
<1>1. PlInit => PlIInv
  BY ParentInit
<1>2. PlIInv /\ [PlNext]_plVars => PlIInv'
  <2>. SUFFICES ASSUME PlIInv, [PlNext]_plVars PROVE PlIInv'
    OBVIOUS
  <2>1. CASE PlNext
    BY <2>1, BranchActs, HandlerActs, RelayActs DEF PlNext
  <2>2. CASE UNCHANGED plVars
    BY <2>2 DEF plVars, PlIInv, BranchTyped, ParentTyped, RegsKnown, KnownReg, OwnMinted,
                LateViews, GoneDeparted, Departed, RelaysOK
  <2>. QED  BY <2>1, <2>2
<1>. QED  BY <1>1, <1>2, PTL DEF PlSpec

\* Outside a registration no step takes a live run's claim or record away.
LEMMA ClaimStep ==
  ASSUME PlIInv, [PlNext]_plVars, NEW r \in BranchRuns, Healthy(r),
         handler.at \notin {"guarded", "applying"}
  PROVE  /\ registry'.claims[r] = registry.claims[r]
         /\ record[r] = own[r] => record'[r] = record[r]
<1>. USE DEF PlIInv
<1>1. CASE \/ \E q \in BranchRuns : StartRun(q) \/ EndRun(q)
           \/ Sync \/ SyncTimesOut \/ Close \/ StopBroker \/ Die \/ Return
  BY <1>1 DEF StartRun, EndRun, Sync, SyncTimesOut, Close, StopBroker, Die, Return
<1>2. CASE \E m \in posts : RefuseClaim(m) \/ GuardClaim(m)
  BY <1>2 DEF RefuseClaim, GuardClaim
<1>3. CASE \E m \in posts : Deregister(m)
  BY <1>3 DEF Deregister, registrationMatches, LateViews, Healthy, BranchTyped
<1>4. CASE Register \/ (\E q \in BranchRuns : DropRecord(q) \/ ownRun(q)) \/ AcceptClaim
  BY <1>4 DEF Register, DropRecord, ownRun, AcceptClaim
<1>5. CASE RetireRecord
  BY <1>5 DEF RetireRecord, DeletedIfToken, GoneDeparted, Departed, Healthy, ParentTyped, Tokens
<1>6. CASE \E x \in Relayers : handleRelay(x) \/ RelayLost(x) \/ \E q \in BranchRuns : hop(x, q)
  BY <1>6 DEF handleRelay, RelayLost, hop
<1>7. CASE \E x \in Relayers : ForgetIfStale(x)
  BY <1>7 DEF ForgetIfStale, claimMatchesHop, RelaysOK, Healthy, ParentTyped, Registrations
<1>8. CASE \E x \in Relayers : ForgetChildIfStale(x)
  BY <1>8 DEF ForgetChildIfStale, claimMatchesHop, RelaysOK, Healthy, ParentTyped, Relays, BranchTyped
<1>9. CASE \E x \in Relayers : RetireRun(x)
  BY <1>9 DEF RetireRun, DeletedIfToken, GoneDeparted, Departed, Healthy, ParentTyped, Tokens, Relays
<1>10. CASE UNCHANGED plVars
  BY <1>10 DEF plVars
<1>. QED
  BY <1>1, <1>2, <1>3, <1>4, <1>5, <1>6, <1>7, <1>8, <1>9, <1>10 DEF PlNext, HandlerStep, RelayStep

\* A live run keeps its route and its record, whatever late deregistration, late
\* registration answer or refused relay is handled.
THEOREM ClaimsKept == PlSpec => HealthyClaimKept
<1>1. PlIInv /\ [PlNext]_plVars =>
        [\A r \in BranchRuns : Healthy(r) /\ handler.at \notin {"guarded", "applying"} =>
           /\ registry'.claims[r] = registry.claims[r]
           /\ record[r] = own[r] => record'[r] = record[r]]_plVars
  BY ClaimStep
<1>. QED  BY <1>1, LinkInductive, PTL DEF PlSpec, HealthyClaimKept

-----------------------------------------------------------------------------
(***************************************************************************)
(* AskStore: the inductive invariant.                                      *)
(***************************************************************************)
Outcomes == {"open", "sent", "replied", "withdrawn", "timed-out", "lost"}
Entries == [kind : {"ask", "tell", "answer"}, id : Ids, n : Nat]
Fences == [outcome : Outcomes \cup {"none"}, absent : BOOLEAN, delivered : BOOLEAN,
           handle : Entries \cup {NoEntry}]
Admissions == [id : Ids, kind : {"ask", "tell"}]

AskTyped ==
  /\ inbox \in [Runs -> SUBSET Entries] /\ seen \subseteq Entries
  /\ sent \in Seq(Admissions) /\ outcome \in [Edges -> Outcomes]
  /\ active \in [Ids -> Nat] /\ fence \in [Ids -> Fences]
  /\ route \subseteq Ids \X {"message", "reply"}
  /\ past \subseteq Ids /\ withdrawn \subseteq Ids
  /\ waiting \in [Waiters -> Nat]
  /\ posting \subseteq [id : Ids, late : BOOLEAN, done : BOOLEAN]

OneEdge == \A m, n \in Edges : sent[m].id = sent[n].id => m = n

\* A live edge is that of an ask without a record; an ask that is open has one.
LiveEdges ==
  \A i \in Ids : active[i] # 0 =>
    /\ active[i] \in Edges /\ sent[active[i]].id = i /\ sent[active[i]].kind = "ask"
    /\ fence[i] = NoFence /\ outcome[active[i]] \in {"open", "replied"}
OpenIsLive ==
  \A n \in Edges :
    /\ sent[n].kind = "tell" <=> outcome[n] = "sent"
    /\ outcome[n] = "open" => active[sent[n].id] = n
WaitsForAsks == \A w \in Waiters : waiting[w] # 0 =>
                  waiting[w] \in Edges /\ sent[waiting[w]].kind = "ask"

\* The store knows an ID until its deadline, once it was sent or withdrawn.
Known(i) == i \in past \/ active[i] # 0 \/ Fenced(i)
Remembered ==
  /\ \A n \in Edges : Known(sent[n].id)
  /\ \A i \in withdrawn : Known(i)
  /\ \A i \in Ids : <<i, "withdrawn">> \in told => Known(i)

\* A record says how its message ended, or that it was withdrawn before it came.
Recorded(i) ==
  \/ \E n \in Edges : /\ sent[n].id = i /\ fence[i].outcome = outcome[n]
                      /\ ~fence[i].absent /\ (fence[i].delivered <=> outcome[n] = "sent")
  \/ /\ \A n \in Edges : sent[n].id # i
     /\ fence[i].absent /\ ~fence[i].delivered
     /\ fence[i].outcome = "withdrawn" /\ <<i, "withdrawn">> \in told
FencesTrue ==
  \A i \in Ids :
    /\ Fenced(i) => Recorded(i) /\ fence[i].outcome # "none"
    /\ fence[i].handle.kind = "ask" =>
         /\ fence[i].handle.n \in Edges /\ fence[i].handle.id = i
         /\ sent[fence[i].handle.n].id = i /\ sent[fence[i].handle.n].kind = "ask"
ToldWithdrawn ==
  \A i \in Ids : \A n \in Edges :
    <<i, "withdrawn">> \in told /\ sent[n].id = i => outcome[n] = "withdrawn"

\* What is queued was admitted, and what was withdrawn unseen is not queued.
QueuedWasSent ==
  \A r \in Runs : \A e \in inbox[r] :
    e.kind # "answer" => e.n \in Edges /\ sent[e.n].id = e.id /\ sent[e.n].kind = e.kind
WithdrawnUnseen ==
  \A i \in withdrawn :
    Unseen(i) /\ \A r \in Runs : \A e \in inbox[r] : e.id = i => e.kind = "answer"

\* What a message is charged: its edge or its record, never both.
Charged == {i \in Ids \ past : active[i] # 0 \/ (Fenced(i) /\ ~fence[i].absent)}
Absent(r) == {i \in Ids : From[i] = r /\ fence[i].absent}
WithinBounds ==
  /\ Cardinality(Charged) + Cardinality(route) <= FenceCapacity + 1
  /\ \A r \in Runs : Cardinality(Absent(r)) <= AbsentQuota

Ledger == /\ AskTyped /\ OneEdge /\ LiveEdges /\ OpenIsLive /\ WaitsForAsks /\ Remembered
          /\ FencesTrue /\ ToldWithdrawn
AskIInv == Ledger /\ QueuedWasSent /\ WithdrawnUnseen /\ WithinBounds

-----------------------------------------------------------------------------
(***************************************************************************)
(* Every step that admits nothing moves the ledger in the same few ways:   *)
(* the message of an ID stays as it is (its record may be reclaimed after  *)
(* the deadline), is answered, ends, or is barred before it came.          *)
(***************************************************************************)
Settling == {"replied", "withdrawn", "timed-out", "lost"}

Stays(i) ==
  /\ active'[i] = active[i]
  /\ \A n \in Edges : sent[n].id = i => outcome'[n] = outcome[n]
  /\ \/ /\ fence'[i].outcome = fence[i].outcome /\ fence'[i].absent = fence[i].absent
        /\ fence'[i].delivered = fence[i].delivered
        /\ fence[i] = NoFence => fence'[i] = NoFence
     \/ i \in past /\ fence'[i] = NoFence
Answered(i) ==
  /\ active[i] # 0 /\ outcome[active[i]] = "open" /\ outcome'[active[i]] = "replied"
  /\ active'[i] = active[i] /\ fence'[i] = fence[i]
Ended(i) ==
  \E n \in Edges :
    /\ sent[n].id = i /\ sent[n].kind = "ask"
    /\ outcome'[n] \in Settling /\ outcome[n] \in {"open", outcome'[n]}
    /\ active'[i] = 0 /\ fence'[i].outcome = outcome'[n]
    /\ ~fence'[i].absent /\ ~fence'[i].delivered
Barred(i) ==
  /\ ~Known(i) /\ active'[i] = 0 /\ fence'[i] = AbsentFence /\ <<i, "withdrawn">> \in told'

KeepsHandle(i) ==
  fence'[i].handle.kind = "ask" =>
    \/ fence'[i].handle = fence[i].handle
    \/ \E n \in Edges : /\ sent[n].id = i /\ sent[n].kind = "ask"
                         /\ fence'[i].handle = Asked(n)

Reports(i, o) ==
  /\ told' = told \cup {<<i, o>>}
  /\ \/ o = "gave-up"
     \/ o \in Settling /\ \E n \in Edges : sent[n].id = i /\ outcome'[n] = o
     \/ o = "withdrawn" /\ Known(i)' /\ \A n \in Edges : sent[n].id # i

LedgerMove ==
  /\ sent' = sent /\ past \subseteq past'
  /\ \A i \in Ids : (Stays(i) \/ Answered(i) \/ Ended(i) \/ Barred(i)) /\ KeepsHandle(i)
  /\ \A w \in Waiters : waiting'[w] = waiting[w] \/ waiting'[w] = 0
                          \/ \E i \in Ids : active[i] # 0 /\ waiting'[w] = active[i]
  /\ \A i \in withdrawn' : i \in withdrawn \/ Known(i)'
  /\ told' = told \/ \E i \in Ids : \E o \in Settling \cup {"gave-up"} : Reports(i, o)

\* The fences the actions write.
LEMMA FenceFields ==
  /\ NoFence \in Fences /\ NoFence.outcome = "none" /\ ~NoFence.absent /\ ~NoFence.delivered
  /\ NoFence.handle = NoEntry /\ NoEntry.kind = "none"
  /\ AbsentFence \in Fences /\ AbsentFence.outcome = "withdrawn" /\ AbsentFence.absent
  /\ ~AbsentFence.delivered /\ AbsentFence.handle = NoEntry
  /\ DeliveredFence \in Fences /\ DeliveredFence.outcome = "sent" /\ ~DeliveredFence.absent
  /\ DeliveredFence.delivered /\ DeliveredFence.handle = NoEntry
  /\ \A o \in Settling : \A h \in Entries \cup {NoEntry} :
       /\ Fence(o, h) \in Fences /\ Fence(o, h).outcome = o /\ ~Fence(o, h).absent
       /\ ~Fence(o, h).delivered /\ Fence(o, h).handle = h
BY DEF NoFence, NoEntry, AbsentFence, DeliveredFence, Fence, Fences, Outcomes, Settling

\* What the type says of an edge.
LEMMA EdgeFields ==
  ASSUME AskTyped
  PROVE  Edges = 1..Len(sent) /\ Len(sent) \in Nat
         /\ \A n \in Edges : sent[n] \in Admissions /\ sent[n].id \in Ids
                               /\ sent[n].kind \in {"ask", "tell"} /\ n \in Nat /\ n # 0
                               /\ Asked(n) \in Entries /\ Asked(n).n = n
                               /\ Asked(n).id = sent[n].id /\ Asked(n).kind = "ask"
<1>1. Edges = 1..Len(sent) /\ Len(sent) \in Nat
  BY DEF AskTyped, Edges
<1>2. \A n \in Edges : sent[n] \in Admissions /\ n \in Nat /\ n # 0
  BY <1>1 DEF AskTyped
<1>3. \A n \in Edges : sent[n].id \in Ids /\ sent[n].kind \in {"ask", "tell"}
  BY <1>2 DEF Admissions
<1>. QED  BY <1>1, <1>2, <1>3 DEF Asked, Entry, Entries

\* What a move does to the message of one ID.
LEMMA MoveOfOne ==
  ASSUME Ledger, AskTyped', LedgerMove, NEW i \in Ids
  PROVE  /\ Known(i) => Known(i)'
         /\ \A n \in Edges : sent[n].id = i =>
              /\ outcome'[n] # outcome[n] => outcome[n] = "open" /\ outcome'[n] \in Settling
              /\ sent[n].kind = "tell" <=> outcome'[n] = "sent"
              /\ outcome'[n] = "open" => active'[i] = n
         /\ active'[i] # 0 => /\ active'[i] = active[i] /\ fence'[i] = NoFence
                              /\ outcome'[active[i]] \in {"open", "replied"}
<1>. USE DEF Ledger
<1>0. Stays(i) \/ Answered(i) \/ Ended(i) \/ Barred(i)
  BY DEF LedgerMove
<1>1. CASE Stays(i)
  BY <1>1, FenceFields DEF Stays, Known, Fenced, OpenIsLive, LiveEdges, LedgerMove, FencesTrue
<1>2. CASE Answered(i)
  BY <1>2 DEF Answered, Known, Fenced, OpenIsLive, LiveEdges, LedgerMove, OneEdge, Settling
<1>3. CASE Ended(i)
  BY <1>3, FenceFields DEF Ended, Known, Fenced, OpenIsLive, LiveEdges, LedgerMove, OneEdge, Settling
<1>4. CASE Barred(i)
  BY <1>4, FenceFields DEF Barred, Known, Fenced, Remembered
<1>. QED  BY <1>0, <1>1, <1>2, <1>3, <1>4

\* A move keeps the ledger.
LEMMA MoveKeepsLedger ==
  ASSUME Ledger, AskTyped', LedgerMove
  PROVE  Ledger'
<1>. USE DEF Ledger
<1>0. sent' = sent /\ Edges' = Edges /\ \A n \in Edges : sent[n].id \in Ids
  BY EdgeFields DEF LedgerMove, Edges
<1>1. OneEdge'
  BY <1>0 DEF OneEdge
<1>2. LiveEdges'
  BY <1>0, MoveOfOne DEF LiveEdges
<1>3. OpenIsLive'
  BY <1>0, MoveOfOne DEF OpenIsLive
<1>4. WaitsForAsks'
  BY <1>0 DEF WaitsForAsks, LedgerMove, LiveEdges
<1>5. Remembered'
  <2>1. ASSUME NEW i \in Ids, <<i, "withdrawn">> \in told' PROVE Known(i)'
    BY <1>0, <2>1, MoveOfOne DEF LedgerMove, Reports, Remembered, Settling
  <2>2. withdrawn' \subseteq Ids
    BY DEF AskTyped
  <2>. QED  BY <1>0, <2>1, <2>2, MoveOfOne DEF Remembered, LedgerMove
<1>6. FencesTrue'
  <2>. SUFFICES ASSUME NEW i \in Ids
                PROVE  /\ Fenced(i)' => Recorded(i)' /\ fence'[i].outcome # "none"
                       /\ fence'[i].handle.kind = "ask" =>
                            /\ fence'[i].handle.n \in Edges /\ fence'[i].handle.id = i
                            /\ sent[fence'[i].handle.n].id = i
                            /\ sent[fence'[i].handle.n].kind = "ask"
    BY <1>0 DEF FencesTrue
  <2>1. fence'[i].handle.kind = "ask" =>
          /\ fence'[i].handle.n \in Edges /\ fence'[i].handle.id = i
          /\ sent[fence'[i].handle.n].id = i /\ sent[fence'[i].handle.n].kind = "ask"
    BY EdgeFields DEF LedgerMove, KeepsHandle, FencesTrue
  <2>2. told \subseteq told'
    BY DEF LedgerMove, Reports
  <2>3. CASE Stays(i)
    BY <1>0, <2>1, <2>2, <2>3, FenceFields DEF Stays, Fenced, Recorded, FencesTrue
  <2>4. CASE Answered(i)
    BY <1>0, <2>1, <2>4, MoveOfOne DEF Answered, Fenced, LiveEdges
  <2>5. CASE Ended(i)
    BY <1>0, <2>1, <2>5 DEF Ended, Fenced, Recorded, Settling
  <2>6. CASE Barred(i)
    BY <1>0, <2>1, <2>6, FenceFields DEF Barred, Known, Fenced, Recorded, Remembered
  <2>. QED  BY <2>3, <2>4, <2>5, <2>6 DEF LedgerMove
<1>7. ToldWithdrawn'
  <2>. SUFFICES ASSUME NEW i \in Ids, NEW n \in Edges, <<i, "withdrawn">> \in told', sent[n].id = i
                PROVE  outcome'[n] = "withdrawn"
    BY <1>0 DEF ToldWithdrawn
  <2>1. CASE <<i, "withdrawn">> \in told
    BY <2>1, MoveOfOne DEF ToldWithdrawn
  <2>2. CASE <<i, "withdrawn">> \notin told
    BY <2>2 DEF LedgerMove, Reports, OneEdge, Settling
  <2>. QED  BY <2>1, <2>2
<1>. QED  BY <1>1, <1>2, <1>3, <1>4, <1>5, <1>6, <1>7

-----------------------------------------------------------------------------
(***************************************************************************)
(* Moves of the ledger are steps of AskPromise.                            *)
(***************************************************************************)
VerdictTrue ==
  \A i \in Ids :
    /\ \A n \in Edges : sent[n].id = i /\ sent[n].kind = "ask" => Verdict(i) = outcome[n]
    /\ (\A n \in Edges : sent[n].id = i => sent[n].kind # "ask") =>
         Verdict(i) = IF <<i, "withdrawn">> \in told THEN "withdrawn" ELSE "none"

\* The verdict of an ask is the outcome of its edge.
LEMMA VerdictOfEdge == Ledger => VerdictTrue
<1>. SUFFICES ASSUME Ledger, NEW i \in Ids
              PROVE  /\ \A n \in Edges : sent[n].id = i /\ sent[n].kind = "ask" =>
                                           Verdict(i) = outcome[n]
                     /\ (\A n \in Edges : sent[n].id = i => sent[n].kind # "ask") =>
                          Verdict(i) = IF <<i, "withdrawn">> \in told THEN "withdrawn" ELSE "none"
  BY DEF VerdictTrue
<1>. USE DEF Ledger
<1>1. ASSUME NEW n \in Edges, sent[n].id = i, sent[n].kind = "ask"
      PROVE  Verdict(i) = outcome[n]
  <2>1. Settled(i) = {outcome[n]}
    BY <1>1 DEF Settled, OneEdge, OpenIsLive
  <2>. QED  BY <2>1 DEF Verdict
<1>2. ASSUME \A n \in Edges : sent[n].id = i => sent[n].kind # "ask"
      PROVE  Settled(i) = {}
  BY <1>2, EdgeFields DEF Settled, OpenIsLive
<1>. QED  BY <1>1, <1>2 DEF Verdict

\* A move settles asks, and reports no other verdict than theirs.
LEMMA MoveIsPromised ==
  ASSUME Ledger, AskTyped', LedgerMove
  PROVE  [Promise!Next]_<<[i \in Ids |-> Verdict(i)], {t \in told : t[2] # "gave-up"}>>
<1>. DEFINE verdict == [i \in Ids |-> Verdict(i)]
            reported == {t \in told : t[2] # "gave-up"}
<1>0. sent' = sent /\ Edges' = Edges /\ Ledger'
  BY MoveKeepsLedger DEF LedgerMove, Edges
<1>1. VerdictTrue /\ VerdictTrue'
  BY <1>0, VerdictOfEdge, PTL
<1>2. ASSUME NEW i \in Ids
      PROVE  /\ Verdict(i)' \in Settling \cup {"none", "open"}
             /\ Verdict(i)' # Verdict(i) =>
                  Verdict(i) \in {"none", "open"} /\ Verdict(i)' \in Settling
  <2>1. CASE \E n \in Edges : sent[n].id = i /\ sent[n].kind = "ask"
    <3>. PICK n \in Edges : sent[n].id = i /\ sent[n].kind = "ask"
      BY <2>1
    <3>1. Verdict(i) = outcome[n] /\ Verdict(i)' = outcome'[n]
      BY <1>0, <1>1 DEF VerdictTrue
    <3>2. outcome'[n] \in Outcomes /\ outcome'[n] # "sent"
      BY <1>0 DEF AskTyped, OpenIsLive, Ledger
    <3>. QED  BY <3>1, <3>2, MoveOfOne DEF Outcomes, Settling
  <2>2. CASE ~ \E n \in Edges : sent[n].id = i /\ sent[n].kind = "ask"
    <3>1. told \subseteq told'
      BY DEF LedgerMove, Reports
    <3>. QED  BY <1>0, <1>1, <2>2, <3>1 DEF VerdictTrue, Settling
  <2>. QED  BY <2>1, <2>2
<1>3. ASSUME NEW i \in Ids, NEW o \in Settling, Reports(i, o)
      PROVE  Verdict(i)' = o /\ reported' = reported \cup {<<i, o>>}
  <2>0. reported' = reported \cup {<<i, o>>}
    <3>1. o # "gave-up" /\ told' = told \cup {<<i, o>>}
      BY <1>3 DEF Reports, Settling
    <3>. QED  BY <3>1
  <2>1. CASE \E n \in Edges : sent[n].id = i /\ outcome'[n] = o
    <3>. PICK n \in Edges : sent[n].id = i /\ outcome'[n] = o
      BY <2>1
    <3>1. sent[n].kind = "ask"
      BY <1>0, EdgeFields, MoveOfOne DEF Settling, Ledger
    <3>2. Verdict(i)' = outcome'[n]
      BY <1>0, <1>1, <3>1 DEF VerdictTrue
    <3>. QED  BY <2>0, <3>2
  <2>2. CASE ~ \E n \in Edges : sent[n].id = i /\ outcome'[n] = o
    <3>1. o = "withdrawn" /\ (\A n \in Edges : sent[n].id # i) /\ <<i, "withdrawn">> \in told'
      BY <1>3, <2>2 DEF Reports, Settling
    <3>2. Verdict(i)' = "withdrawn"
      BY <1>0, <1>1, <3>1 DEF VerdictTrue
    <3>. QED  BY <2>0, <3>1, <3>2
  <2>. QED  BY <2>1, <2>2
<1>4. \/ reported' = reported
      \/ \E i \in Ids : verdict'[i] \in Settling /\ reported' = reported \cup {<<i, verdict'[i]>>}
  <2>1. CASE told' = told
    BY <2>1
  <2>2. ASSUME NEW i \in Ids, Reports(i, "gave-up") PROVE reported' = reported
    BY <2>2 DEF Reports
  <2>3. ASSUME NEW i \in Ids, NEW o \in Settling, Reports(i, o)
        PROVE  verdict'[i] \in Settling /\ reported' = reported \cup {<<i, verdict'[i]>>}
    BY <1>3, <2>3
  <2>. QED  BY <2>1, <2>2, <2>3 DEF LedgerMove
<1>5. verdict' \in [Ids -> Settling \cup {"none", "open"}]
  BY <1>2
<1>6. Promise!Settle
  BY <1>2, <1>4, <1>5 DEF Promise!Settle, Promise!Final, Settling
<1>. QED  BY <1>6 DEF Promise!Next

\* A move charges nothing.
LEMMA MoveCharges ==
  ASSUME Ledger, AskTyped', LedgerMove
  PROVE  Charged' \subseteq Charged
<1>. SUFFICES ASSUME NEW i \in Ids, i \notin past',
                     active'[i] # 0 \/ (Fenced(i)' /\ ~fence'[i].absent)
              PROVE  i \notin past /\ (active[i] # 0 \/ (Fenced(i) /\ ~fence[i].absent))
  BY DEF Charged
<1>0. i \notin past
  BY DEF LedgerMove
<1>1. CASE Stays(i)
  BY <1>0, <1>1, FenceFields DEF Stays, Fenced, Ledger, FencesTrue
<1>2. CASE Answered(i)
  BY <1>0, <1>2 DEF Answered
<1>3. CASE Ended(i)
  <2>. PICK n \in Edges : sent[n].id = i
    BY <1>3 DEF Ended
  <2>1. active[i] # 0 \/ Fenced(i)
    BY <1>0 DEF Ledger, Remembered, Known
  <2>2. Fenced(i) => ~fence[i].absent
    BY DEF Ledger, FencesTrue, Recorded
  <2>. QED  BY <1>0, <2>1, <2>2
<1>4. CASE Barred(i)
  BY <1>4, FenceFields DEF Barred
<1>. QED  BY <1>1, <1>2, <1>3, <1>4 DEF LedgerMove

-----------------------------------------------------------------------------
(***************************************************************************)
(* The queues and the counters under a move.                               *)
(***************************************************************************)
BoxMove ==
  /\ \A r \in Runs : \A e \in inbox'[r] : e \in inbox[r] \/ e.kind = "answer"
  /\ \A e \in seen' : e \in seen \/ (e.kind # "answer" /\ \E r \in Runs : e \in inbox[r])
  /\ \A i \in withdrawn' \ withdrawn :
       Unseen(i)' /\ \A r \in Runs : \A e \in inbox'[r] : e.id = i => e.kind = "answer"

BoundMove ==
  /\ \/ route' \subseteq route
     \/ \E F \in {fence, Reclaimed} : \E k \in Ids \X {"message", "reply"} :
          fenceCount(F) < FenceCapacity /\ route' \subseteq route \cup {k}
  /\ \/ \A i \in Ids : fence'[i].absent => fence[i].absent
     \/ \E j \in Ids : /\ absentBySender(Reclaimed, From[j]) < AbsentQuota
                       /\ \A i \in Ids \ {j} : fence'[i].absent => Reclaimed[i].absent

StoreMove == AskTyped' /\ LedgerMove /\ BoxMove /\ BoundMove

\* Taking entries out of the inboxes leaves inboxes.
LEMMA TakeFields ==
  ASSUME NEW box \in [Runs -> SUBSET Entries], NEW E
  PROVE  Take(box, E) \in [Runs -> SUBSET Entries] /\ \A r \in Runs : Take(box, E)[r] = box[r] \ E
BY DEF Take

\* What reclaimLocked leaves.
LEMMA ReclaimFields ==
  ASSUME AskTyped
  PROVE  /\ Reclaimed \in [Ids -> Fences]
         /\ \A i \in Ids : Reclaimed[i] = IF i \in past THEN NoFence ELSE fence[i]
         /\ \A i \in Ids : Reclaimed[i].absent => fence[i].absent
         /\ ReclaimedBox \in [Runs -> SUBSET Entries]
         /\ \A r \in Runs : ReclaimedBox[r] \subseteq inbox[r]
<1>1. /\ Reclaimed \in [Ids -> Fences]
      /\ \A i \in Ids : Reclaimed[i] = IF i \in past THEN NoFence ELSE fence[i]
  BY FenceFields DEF Reclaimed, Reclaimable, AskTyped
<1>2. inbox \in [Runs -> SUBSET Entries]
  BY DEF AskTyped
<1>. QED  BY <1>1, <1>2, FenceFields, TakeFields DEF ReclaimedBox

\* The store counts at least what its live messages are charged.
LEMMA CountCovers ==
  ASSUME AskTyped, NEW F \in {fence, Reclaimed}
  PROVE  /\ IsFiniteSet(Charged) /\ IsFiniteSet(route)
         /\ Cardinality(Charged) \in Nat /\ Cardinality(route) \in Nat
         /\ fenceCount(F) \in Nat
         /\ Cardinality(Charged) + Cardinality(route) <= fenceCount(F)
<1>. DEFINE A == {i \in Ids : active[i] # 0}
            B == {i \in Ids : F[i] # NoFence /\ ~F[i].absent}
<1>1. IsFiniteSet(A) /\ IsFiniteSet(B) /\ IsFiniteSet(Charged)
  BY FS_Subset, AskAssumption DEF Charged
<1>2. Cardinality(A) \in Nat /\ Cardinality(B) \in Nat /\ Cardinality(Charged) \in Nat
  BY <1>1, FS_CardinalityType
<1>3. IsFiniteSet(Ids \X {"message", "reply"})
  <2>1. IsFiniteSet({"message", "reply"})
    <3>1. {"message", "reply"} = {"message"} \cup {"reply"}
      OBVIOUS
    <3>2. IsFiniteSet({"message"})
      BY FS_Singleton
    <3>3. IsFiniteSet({"message"} \cup {"reply"})
      BY <3>2, FS_AddElement
    <3>. QED  BY <3>1, <3>3
  <2>. QED  BY <2>1, FS_Product, AskAssumption
<1>4. IsFiniteSet(route) /\ Cardinality(route) \in Nat
  BY <1>3, FS_Subset, FS_CardinalityType DEF AskTyped
<1>5. Charged \subseteq A \cup B
  BY ReclaimFields DEF Charged, Fenced
<1>6. IsFiniteSet(A \cup B) /\ Cardinality(A \cup B) \in Nat
      /\ Cardinality(A \cup B) <= Cardinality(A) + Cardinality(B)
  <2>1. IsFiniteSet(A \cap B) /\ Cardinality(A \cap B) \in Nat
    BY <1>1, FS_Intersection, FS_CardinalityType
  <2>2. /\ IsFiniteSet(A \cup B) /\ Cardinality(A \cup B) \in Nat
        /\ Cardinality(A \cup B) = Cardinality(A) + Cardinality(B) - Cardinality(A \cap B)
    BY <1>1, FS_Union, FS_CardinalityType
  <2>. HIDE DEF A, B
  <2>. QED  BY <1>2, <2>1, <2>2
<1>7. Cardinality(Charged) <= Cardinality(A \cup B)
  BY <1>5, <1>6, FS_Subset
<1>8. fenceCount(F) = Cardinality(A) + Cardinality(route) + Cardinality(B)
  BY DEF fenceCount
<1>. HIDE DEF A, B
<1>. QED  BY <1>1, <1>2, <1>4, <1>6, <1>7, <1>8

\* The queues keep what was admitted, and nothing that was withdrawn unseen.
LEMMA MoveKeepsQueues ==
  ASSUME Ledger, QueuedWasSent, WithdrawnUnseen, StoreMove
  PROVE  QueuedWasSent' /\ WithdrawnUnseen'
<1>0. sent' = sent /\ Edges' = Edges
  BY DEF StoreMove, LedgerMove, Edges
<1>1. QueuedWasSent'
  BY <1>0 DEF StoreMove, BoxMove, QueuedWasSent
<1>2. ASSUME NEW i \in withdrawn'
      PROVE  Unseen(i)' /\ \A r \in Runs : \A e \in inbox'[r] : e.id = i => e.kind = "answer"
  <2>1. CASE i \in withdrawn
    BY <2>1 DEF StoreMove, BoxMove, WithdrawnUnseen, Unseen
  <2>2. CASE i \notin withdrawn
    BY <2>2 DEF StoreMove, BoxMove
  <2>. QED  BY <2>1, <2>2
<1>. QED  BY <1>1, <1>2 DEF WithdrawnUnseen

\* One more element.
LEMMA OneMore ==
  ASSUME NEW S, NEW x, IsFiniteSet(S)
  PROVE  /\ IsFiniteSet(S \cup {x}) /\ Cardinality(S \cup {x}) \in Nat
         /\ Cardinality(S \cup {x}) <= Cardinality(S) + 1
<1>1. IsFiniteSet(S \cup {x}) /\ Cardinality(S) \in Nat
  BY FS_AddElement, FS_CardinalityType
<1>2. Cardinality(S \cup {x}) = IF x \in S THEN Cardinality(S) ELSE Cardinality(S) + 1
  BY FS_AddElement
<1>. QED  BY <1>1, <1>2

\* The counters stay within their bounds.
LEMMA MoveKeepsBounds ==
  ASSUME Ledger, WithinBounds, StoreMove
  PROVE  WithinBounds'
<1>. USE DEF StoreMove
<1>0. AskTyped /\ AskTyped' /\ FenceCapacity \in Nat /\ AbsentQuota \in Nat /\ IsFiniteSet(Ids)
  BY AskAssumption DEF Ledger
<1>1. Charged' \subseteq Charged /\ Cardinality(Charged') \in Nat
      /\ Cardinality(Charged') <= Cardinality(Charged)
  <2>1. Charged' \subseteq Charged
    BY MoveCharges
  <2>2. IsFiniteSet(Charged)
    BY <1>0, CountCovers
  <2>. QED  BY <2>1, <2>2, FS_Subset, FS_CardinalityType
<1>2. /\ Cardinality(Charged) \in Nat /\ Cardinality(route) \in Nat /\ IsFiniteSet(route)
  BY <1>0, CountCovers
<1>3. Cardinality(Charged') + Cardinality(route') <= FenceCapacity + 1
  <2>1. CASE route' \subseteq route
    <3>1. Cardinality(route') \in Nat /\ Cardinality(route') <= Cardinality(route)
      BY <1>2, <2>1, FS_Subset, FS_CardinalityType
    <3>. QED  BY <1>0, <1>1, <1>2, <3>1 DEF WithinBounds
  <2>2. ASSUME NEW F \in {fence, Reclaimed}, NEW k, fenceCount(F) < FenceCapacity,
               route' \subseteq route \cup {k}
        PROVE  Cardinality(Charged') + Cardinality(route') <= FenceCapacity + 1
    <3>1. IsFiniteSet(route \cup {k}) /\ Cardinality(route \cup {k}) \in Nat
          /\ Cardinality(route \cup {k}) <= Cardinality(route) + 1
      BY <1>2, OneMore
    <3>2. Cardinality(route') \in Nat /\ Cardinality(route') <= Cardinality(route \cup {k})
      BY <2>2, <3>1, FS_Subset, FS_CardinalityType
    <3>3. Cardinality(Charged) + Cardinality(route) <= fenceCount(F) /\ fenceCount(F) \in Nat
      BY <1>0, CountCovers
    <3>. QED  BY <1>0, <1>1, <1>2, <2>2, <3>1, <3>2, <3>3
  <2>. QED  BY <2>1, <2>2 DEF BoundMove
<1>4. ASSUME NEW r \in Runs PROVE Cardinality(Absent(r)') <= AbsentQuota
  <2>1. CASE \A i \in Ids : fence'[i].absent => fence[i].absent
    <3>1. Absent(r)' \subseteq Absent(r) /\ IsFiniteSet(Absent(r))
      BY <1>0, <2>1, FS_Subset DEF Absent
    <3>2. Cardinality(Absent(r)') <= Cardinality(Absent(r))
          /\ Cardinality(Absent(r)') \in Nat /\ Cardinality(Absent(r)) \in Nat
      BY <3>1, FS_Subset, FS_CardinalityType
    <3>. QED  BY <1>0, <3>2 DEF WithinBounds
  <2>2. ASSUME NEW j \in Ids, absentBySender(Reclaimed, From[j]) < AbsentQuota,
               \A i \in Ids \ {j} : fence'[i].absent => Reclaimed[i].absent
        PROVE  Cardinality(Absent(r)') <= AbsentQuota
    <3>. DEFINE T == {i \in Ids : From[i] = r /\ Reclaimed[i].absent}
    <3>1. IsFiniteSet(T) /\ Cardinality(T) \in Nat /\ IsFiniteSet(Absent(r))
          /\ Cardinality(Absent(r)) \in Nat
      BY <1>0, FS_Subset, FS_CardinalityType DEF Absent
    <3>2. T \subseteq Absent(r)
      BY <1>0, ReclaimFields DEF Absent
    <3>3. Cardinality(T) <= Cardinality(Absent(r))
      BY <3>1, <3>2, FS_Subset
    <3>4. CASE From[j] # r
      <4>1. Absent(r)' \subseteq T
        BY <2>2, <3>4 DEF Absent
      <4>2. Cardinality(Absent(r)') <= Cardinality(T) /\ Cardinality(Absent(r)') \in Nat
        BY <3>1, <4>1, FS_Subset, FS_CardinalityType
      <4>. QED  BY <1>0, <3>1, <3>3, <4>2 DEF WithinBounds
    <3>5. CASE From[j] = r
      <4>0. Cardinality(T) < AbsentQuota
        BY <2>2, <3>5 DEF absentBySender
      <4>1. Absent(r)' \subseteq T \cup {j}
        BY <2>2 DEF Absent
      <4>. HIDE DEF T
      <4>2. IsFiniteSet(T \cup {j}) /\ Cardinality(T \cup {j}) \in Nat
            /\ Cardinality(T \cup {j}) <= Cardinality(T) + 1
        BY <3>1, OneMore
      <4>3. Cardinality(Absent(r)') <= Cardinality(T \cup {j}) /\ Cardinality(Absent(r)') \in Nat
        BY <4>1, <4>2, FS_Subset, FS_CardinalityType
      <4>. QED  BY <1>0, <3>1, <4>0, <4>2, <4>3
    <3>. QED  BY <3>4, <3>5
  <2>. QED  BY <2>1, <2>2 DEF BoundMove
<1>. QED  BY <1>3, <1>4 DEF WithinBounds

\* So a move keeps the whole invariant.
LEMMA MoveKeepsAll ==
  ASSUME AskIInv, StoreMove
  PROVE  /\ AskIInv'
         /\ [Promise!Next]_<<[i \in Ids |-> Verdict(i)], {t \in told : t[2] # "gave-up"}>>
BY MoveKeepsLedger, MoveIsPromised, MoveKeepsQueues, MoveKeepsBounds DEF AskIInv, StoreMove

-----------------------------------------------------------------------------
(***************************************************************************)
(* Every action but an admission is a move.                                *)
(***************************************************************************)
\* consumeLocked, for a replied edge that is live or not any more.
LEMMA ConsumeMoves ==
  ASSUME AskIInv, NEW n \in Edges, sent[n].kind = "ask", outcome' \in [Edges -> Outcomes],
         outcome'[n] = "replied", outcome[n] \in {"open", "replied"},
         \A m \in Edges \ {n} : outcome'[m] = outcome[m],
         Consume(sent[n].id)
  PROVE  /\ active' \in [Ids -> Nat] /\ fence' \in [Ids -> Fences]
         /\ inbox' \in [Runs -> SUBSET Entries] /\ \A r \in Runs : inbox'[r] \subseteq inbox[r]
         /\ \A i \in Ids : (Stays(i) \/ Ended(i)) /\ KeepsHandle(i)
         /\ \A i \in Ids : fence'[i].absent => fence[i].absent
<1>. DEFINE c == sent[n].id
<1>0. c \in Ids /\ AskTyped
  BY EdgeFields DEF AskIInv, Ledger
<1>1. /\ Fence("replied", NoEntry) \in Fences /\ Fence("replied", NoEntry).outcome = "replied"
      /\ ~Fence("replied", NoEntry).absent /\ ~Fence("replied", NoEntry).delivered
      /\ Fence("replied", NoEntry).handle.kind = "none"
  BY FenceFields DEF Settling
<1>2. /\ active' = [active EXCEPT ![c] = 0]
      /\ fence' = [fence EXCEPT ![c] = Fence("replied", NoEntry)]
      /\ inbox' = Take(inbox, {fence[c].handle})
  BY DEF Consume, SetFence
<1>3. inbox' \in [Runs -> SUBSET Entries] /\ \A r \in Runs : inbox'[r] \subseteq inbox[r]
  <2>1. inbox \in [Runs -> SUBSET Entries]
    BY <1>0 DEF AskTyped
  <2>. QED  BY <1>2, <2>1, TakeFields
<1>4. active' \in [Ids -> Nat] /\ fence' \in [Ids -> Fences]
  BY <1>0, <1>1, <1>2 DEF AskTyped
<1>5. Ended(c) /\ KeepsHandle(c) /\ ~fence'[c].absent
  BY <1>0, <1>1, <1>2 DEF Ended, KeepsHandle, AskTyped, Settling
<1>6. ASSUME NEW i \in Ids, i # c
      PROVE  Stays(i) /\ KeepsHandle(i) /\ fence'[i] = fence[i]
  BY <1>0, <1>2, <1>6 DEF Stays, KeepsHandle, AskTyped
<1>. QED  BY <1>3, <1>4, <1>5, <1>6

\* Steps that leave edges and records alone.
LEMMA StillMoves ==
  ASSUME UNCHANGED <<active, outcome, fence>>, NEW i \in Ids
  PROVE  Stays(i) /\ KeepsHandle(i)
BY DEF Stays, KeepsHandle

\* Wait reports a settled ask, consumes its answer or blocks.
LEMMA WaitMoves ==
  ASSUME AskIInv, NEW i \in Ids, NEW w \in Waiters, Wait(w, i)
  PROVE  StoreMove
<1>0. AskTyped /\ LiveEdges /\ FencesTrue
  BY DEF AskIInv, Ledger
<1>. DEFINE same == UNCHANGED <<live, leaving, seen, sent, outcome, gaveUp, route, past, posting,
                                withdrawn>>
<1>1. CASE active[i] # 0 /\ outcome[active[i]] = "replied" /\ Report(i, "replied") /\ Consume(i)
           /\ UNCHANGED waiting /\ same
  <2>. DEFINE n == active[i]
  <2>1. n \in Edges /\ sent[n].id = i /\ sent[n].kind = "ask"
    BY <1>0, <1>1 DEF LiveEdges
  <2>2. /\ active' \in [Ids -> Nat] /\ fence' \in [Ids -> Fences]
        /\ inbox' \in [Runs -> SUBSET Entries] /\ \A r \in Runs : inbox'[r] \subseteq inbox[r]
        /\ \A j \in Ids : (Stays(j) \/ Ended(j)) /\ KeepsHandle(j)
        /\ \A j \in Ids : fence'[j].absent => fence[j].absent
    <3>1. outcome' = outcome /\ outcome \in [Edges -> Outcomes]
      BY <1>0, <1>1 DEF AskTyped
    <3>. QED  BY <1>1, <2>1, <3>1, ConsumeMoves
  <2>3. Reports(i, "replied")
    BY <1>1, <2>1 DEF Report, Reports, Settling
  <2>4. AskTyped'
    BY <1>0, <1>1, <2>2 DEF AskTyped, Edges
  <2>5. LedgerMove
    BY <1>1, <2>2, <2>3 DEF LedgerMove, Settling
  <2>6. BoxMove /\ BoundMove
    BY <1>1, <2>2 DEF BoxMove, BoundMove
  <2>. QED  BY <2>4, <2>5, <2>6 DEF StoreMove
<1>2. CASE active[i] # 0 /\ waiting' = [waiting EXCEPT ![w] = active[i]]
           /\ UNCHANGED <<active, fence, inbox, told>> /\ same
  <2>1. AskTyped'
    BY <1>0, <1>2 DEF AskTyped, Edges
  <2>2. LedgerMove
    BY <1>0, <1>2, StillMoves DEF LedgerMove, AskTyped
  <2>3. BoxMove /\ BoundMove
    BY <1>2 DEF BoxMove, BoundMove
  <2>. QED  BY <2>1, <2>2, <2>3 DEF StoreMove
<1>3. CASE active[i] = 0 /\ fence[i].outcome \in {"withdrawn", "timed-out", "lost"}
           /\ Report(i, fence[i].outcome) /\ UNCHANGED <<active, fence, inbox, waiting>> /\ same
  <2>1. AskTyped'
    BY <1>0, <1>3 DEF AskTyped, Edges
  <2>2. Reports(i, fence[i].outcome)
    <3>1. Fenced(i) /\ Recorded(i) /\ Known(i)'
      BY <1>0, <1>3, FenceFields DEF Fenced, FencesTrue, Known
    <3>. QED  BY <1>3, <3>1 DEF Report, Reports, Recorded, Settling
  <2>3. LedgerMove
    BY <1>0, <1>3, <2>2, StillMoves DEF LedgerMove, Settling
  <2>4. BoxMove /\ BoundMove
    BY <1>3 DEF BoxMove, BoundMove
  <2>. QED  BY <2>1, <2>3, <2>4 DEF StoreMove
<1>. QED  BY <1>1, <1>2, <1>3 DEF Wait

\* A waiter wakes: its edge is done, or it gives up.
LEMMA WakeMoves ==
  ASSUME AskIInv, NEW w \in Waiters, WakeDone(w) \/ WakeTimeout(w)
  PROVE  StoreMove
<1>. DEFINE n == waiting[w]
            i == sent[n].id
<1>0. AskTyped /\ OpenIsLive /\ WaitsForAsks
  BY DEF AskIInv, Ledger
<1>1. n \in Edges /\ sent[n].kind = "ask" /\ i \in Ids /\ outcome[n] \in Outcomes \ {"sent"}
      /\ outcome \in [Edges -> Outcomes]
  <2>1. n \in Edges /\ sent[n].kind = "ask"
    BY <1>0 DEF WakeDone, WakeTimeout, WaitsForAsks
  <2>. QED  BY <1>0, <2>1, EdgeFields DEF OpenIsLive, AskTyped
<1>2. CASE WakeTimeout(w)
  <2>1. AskTyped'
    BY <1>0, <1>2 DEF WakeTimeout, AskTyped, Edges
  <2>2. LedgerMove
    BY <1>0, <1>1, <1>2, StillMoves DEF WakeTimeout, LedgerMove, Reports, AskTyped
  <2>3. BoxMove /\ BoundMove
    BY <1>2 DEF WakeTimeout, BoxMove, BoundMove
  <2>. QED  BY <2>1, <2>2, <2>3 DEF StoreMove
<1>3. CASE WakeDone(w)
  <2>1. outcome[n] \in Settling /\ Reports(i, outcome[n])
    BY <1>1, <1>3 DEF WakeDone, Report, Reports, Outcomes, Settling
  <2>2. /\ active' \in [Ids -> Nat] /\ fence' \in [Ids -> Fences]
        /\ inbox' \in [Runs -> SUBSET Entries] /\ \A r \in Runs : inbox'[r] \subseteq inbox[r]
        /\ \A j \in Ids : (Stays(j) \/ Ended(j)) /\ KeepsHandle(j)
        /\ \A j \in Ids : fence'[j].absent => fence[j].absent
    <3>1. CASE outcome[n] = "replied" /\ Consume(i)
      <4>1. outcome' = outcome
        BY <1>3 DEF WakeDone
      <4>. QED  BY <1>1, <3>1, <4>1, ConsumeMoves
    <3>2. CASE UNCHANGED <<active, fence, inbox>>
      <4>1. UNCHANGED <<active, outcome, fence>>
        BY <1>3, <3>2 DEF WakeDone
      <4>. QED  BY <1>0, <3>2, <4>1, StillMoves DEF AskTyped
    <3>. QED  BY <1>3, <3>1, <3>2 DEF WakeDone
  <2>3. AskTyped'
    BY <1>0, <1>3, <2>2 DEF WakeDone, AskTyped, Edges
  <2>4. LedgerMove
    BY <1>0, <1>1, <1>3, <2>1, <2>2 DEF WakeDone, LedgerMove, AskTyped
  <2>5. BoxMove /\ BoundMove
    BY <1>3, <2>2 DEF WakeDone, BoxMove, BoundMove
  <2>. QED  BY <2>3, <2>4, <2>5 DEF StoreMove
<1>. QED  BY <1>2, <1>3

\* An answer on its way.
LEMMA PostingFields ==
  ASSUME NEW i \in Ids
  PROVE  /\ [id |-> i, late |-> TRUE, done |-> FALSE] \in [id : Ids, late : BOOLEAN, done : BOOLEAN]
         /\ [id |-> i, late |-> FALSE, done |-> FALSE] \in [id : Ids, late : BOOLEAN, done : BOOLEAN]
OBVIOUS

\* A reply to a live edge answers it, or ends it when the asker gave up.
LEMMA ReplyMoves ==
  ASSUME AskIInv, NEW i \in Ids, Reply(i)
  PROVE  StoreMove
<1>. DEFINE n == active[i]
<1>0. AskTyped /\ LiveEdges /\ OneEdge
  BY DEF AskIInv, Ledger
<1>1. n \in Edges /\ n # 0 /\ sent[n].id = i /\ sent[n].kind = "ask" /\ outcome[n] = "open"
  BY <1>0 DEF Reply, LiveEdges
<1>2. outcome' \in [Edges -> Outcomes] /\ outcome'[n] = "replied"
      /\ \A m \in Edges \ {n} : outcome'[m] = outcome[m]
  BY <1>0, <1>1 DEF Reply, AskTyped, Outcomes
<1>3. route' = route \/ (fenceCount(fence) < FenceCapacity /\ route' = route \cup {ReplyID(i)})
  BY DEF Reply, RouteReply
<1>4. ReplyID(i) \in Ids \X {"message", "reply"}
  BY DEF ReplyID
<1>5. posting' \subseteq [id : Ids, late : BOOLEAN, done : BOOLEAN]
  <2>1. posting' \subseteq posting \cup {[id |-> i, late |-> TRUE, done |-> FALSE]}
    BY DEF Reply
  <2>. QED  BY <1>0, <2>1, PostingFields DEF AskTyped
<1>6. /\ active' \in [Ids -> Nat] /\ fence' \in [Ids -> Fences]
      /\ inbox' \in [Runs -> SUBSET Entries] /\ \A r \in Runs : inbox'[r] \subseteq inbox[r]
      /\ \A j \in Ids : (Stays(j) \/ Ended(j) \/ Answered(j)) /\ KeepsHandle(j)
      /\ \A j \in Ids : fence'[j].absent => fence[j].absent
  <2>1. CASE Consume(i)
    BY <1>1, <1>2, <2>1, ConsumeMoves
  <2>2. CASE UNCHANGED <<active, fence, inbox>>
    <3>1. Answered(i) /\ KeepsHandle(i)
      BY <1>1, <1>2, <2>2 DEF Answered, KeepsHandle
    <3>2. ASSUME NEW j \in Ids, j # i PROVE Stays(j) /\ KeepsHandle(j)
      BY <1>1, <1>2, <2>2, <3>2 DEF Stays, KeepsHandle
    <3>. QED  BY <1>0, <2>2, <3>1, <3>2 DEF AskTyped
  <2>. QED  BY <2>1, <2>2 DEF Reply
<1>7. AskTyped'
  BY <1>0, <1>2, <1>3, <1>4, <1>5, <1>6 DEF Reply, AskTyped, Edges
<1>8. LedgerMove
  BY <1>6 DEF Reply, LedgerMove
<1>9. BoxMove /\ BoundMove
  <2>1. \/ route' \subseteq route
        \/ \E F \in {fence, Reclaimed} : \E k \in Ids \X {"message", "reply"} :
             fenceCount(F) < FenceCapacity /\ route' \subseteq route \cup {k}
    BY <1>3, <1>4
  <2>. QED  BY <1>6, <2>1 DEF Reply, BoxMove, BoundMove
<1>. QED  BY <1>7, <1>8, <1>9 DEF StoreMove

\* Reclaiming forgets records of messages whose deadline has passed.
LEMMA ReclaimMoves ==
  ASSUME AskTyped, UNCHANGED <<active, outcome>>, NEW i \in Ids, fence'[i] = Reclaimed[i]
  PROVE  Stays(i) /\ KeepsHandle(i) /\ (fence'[i].absent => fence[i].absent)
BY ReclaimFields, FenceFields DEF Stays, KeepsHandle

\* A reply without an edge takes a route, within the capacity.
LEMMA ReplyAbsentMoves ==
  ASSUME AskIInv, NEW i \in Ids, ReplyAbsent(i)
  PROVE  StoreMove
<1>0. AskTyped
  BY DEF AskIInv, Ledger
<1>1. ReplyID(i) \in Ids \X {"message", "reply"}
  BY DEF ReplyID
<1>2. AskTyped'
  <2>1. posting' \subseteq [id : Ids, late : BOOLEAN, done : BOOLEAN]
    BY <1>0, PostingFields DEF ReplyAbsent, AskTyped
  <2>. QED  BY <1>0, <1>1, <2>1, ReclaimFields DEF ReplyAbsent, AskTyped, Edges
<1>3. \A j \in Ids : Stays(j) /\ KeepsHandle(j) /\ (fence'[j].absent => fence[j].absent)
  BY <1>0, ReclaimMoves DEF ReplyAbsent
<1>4. LedgerMove
  BY <1>3 DEF ReplyAbsent, LedgerMove
<1>5. BoxMove /\ BoundMove
  <2>1. \E F \in {fence, Reclaimed} : \E k \in Ids \X {"message", "reply"} :
             fenceCount(F) < FenceCapacity /\ route' \subseteq route \cup {k}
    BY <1>1 DEF ReplyAbsent
  <2>. QED  BY <1>0, <1>3, <2>1, ReclaimFields DEF ReplyAbsent, BoxMove, BoundMove
<1>. QED  BY <1>2, <1>4, <1>5 DEF StoreMove

\* An answer is queued for the asker.
LEMMA PostMoves ==
  ASSUME AskIInv, NEW p \in posting, Post(p)
  PROVE  StoreMove
<1>0. AskTyped /\ p.id \in Ids /\ p \in [id : Ids, late : BOOLEAN, done : BOOLEAN]
  BY DEF AskIInv, Ledger, AskTyped
<1>1. Entry("answer", p.id, 0) \in Entries /\ Entry("answer", p.id, 0).kind = "answer"
  BY <1>0 DEF Entry, Entries
<1>2. From[p.id] \in Runs /\ inbox \in [Runs -> SUBSET Entries]
  BY <1>0, AskAssumption DEF AskTyped
<1>3. inbox' \in [Runs -> SUBSET Entries]
      /\ \A r \in Runs : \A e \in inbox'[r] : e \in inbox[r] \/ e.kind = "answer"
  BY <1>1, <1>2 DEF Post, Deliver
<1>4. posting' \subseteq [id : Ids, late : BOOLEAN, done : BOOLEAN] /\ route' \subseteq route
  BY <1>0 DEF Post, AskTyped
<1>5. AskTyped'
  BY <1>0, <1>3, <1>4 DEF Post, AskTyped, Edges
<1>6. LedgerMove
  BY StillMoves DEF Post, LedgerMove
<1>7. BoxMove /\ BoundMove
  BY <1>3, <1>4 DEF Post, BoxMove, BoundMove
<1>. QED  BY <1>5, <1>6, <1>7 DEF StoreMove

\* The retraction handle of a late answer.
LEMMA KeepHandleMoves ==
  ASSUME AskIInv, NEW p \in posting, KeepHandle(p)
  PROVE  StoreMove
<1>0. AskTyped /\ p.id \in Ids /\ FencesTrue
  BY DEF AskIInv, Ledger, AskTyped
<1>1. Entry("answer", p.id, 0) \in Entries /\ Entry("answer", p.id, 0).kind = "answer"
  BY <1>0 DEF Entry, Entries
<1>2. fence' \in [Ids -> Fences]
      /\ \A i \in Ids : /\ fence'[i].outcome = fence[i].outcome /\ fence'[i].absent = fence[i].absent
                        /\ fence'[i].delivered = fence[i].delivered
                        /\ fence[i] = NoFence => fence'[i] = NoFence
                        /\ fence'[i].handle.kind = "ask" => fence'[i].handle = fence[i].handle
  <2>1. CASE fence' = fence
    BY <1>0, <2>1 DEF AskTyped
  <2>2. CASE Fenced(p.id) /\ fence' = [fence EXCEPT ![p.id].handle = Entry("answer", p.id, 0)]
    <3>. DEFINE f == fence[p.id]
                g == [f EXCEPT !.handle = Entry("answer", p.id, 0)]
    <3>1. f \in Fences /\ f # NoFence
      BY <1>0, <2>2 DEF AskTyped, Fenced
    <3>2. /\ g \in Fences /\ g.outcome = f.outcome /\ g.absent = f.absent
          /\ g.delivered = f.delivered /\ g.handle = Entry("answer", p.id, 0)
      BY <1>1, <3>1 DEF Fences
    <3>3. fence' = [fence EXCEPT ![p.id] = g]
      BY <2>2
    <3>. HIDE DEF g
    <3>. QED  BY <1>0, <1>1, <3>1, <3>2, <3>3 DEF AskTyped
  <2>. QED  BY <2>1, <2>2 DEF KeepHandle
<1>3. AskTyped'
  BY <1>0, <1>2 DEF KeepHandle, AskTyped, Edges
<1>4. LedgerMove
  BY <1>2 DEF KeepHandle, LedgerMove, Stays, KeepsHandle
<1>5. BoxMove /\ BoundMove
  BY <1>2 DEF KeepHandle, BoxMove, BoundMove
<1>. QED  BY <1>3, <1>4, <1>5 DEF StoreMove

\* A deadline, a deleted run and a poll leave the records alone.
LEMMA QuietMoves ==
  ASSUME AskIInv,
         \/ \E i \in Ids : PassDeadline(i)
         \/ \E r \in Runs : DeleteRun(r) \/ Poll(r)
  PROVE  StoreMove
<1>0. AskTyped
  BY DEF AskIInv, Ledger
<1>1. AskTyped'
  BY <1>0 DEF PassDeadline, DeleteRun, Poll, AskTyped, Edges
<1>2. LedgerMove
  <2>1. UNCHANGED <<active, outcome, fence, sent, waiting, withdrawn, told>> /\ past \subseteq past'
    BY DEF PassDeadline, DeleteRun, Poll
  <2>. QED  BY <2>1, StillMoves DEF LedgerMove
<1>3. BoxMove /\ BoundMove
  <2>1. /\ UNCHANGED <<fence, route, withdrawn>>
        /\ \A r \in Runs : inbox'[r] \subseteq inbox[r]
        /\ \A e \in seen' : e \in seen \/ (e.kind # "answer" /\ \E r \in Runs : e \in inbox[r])
    BY <1>0 DEF PassDeadline, DeleteRun, Poll, AskTyped
  <2>. QED  BY <2>1 DEF BoxMove, BoundMove
<1>. QED  BY <1>1, <1>2, <1>3 DEF StoreMove

\* A live edge ends: its ID has one edge, which was open or replied.
LEMMA EdgeEnds ==
  ASSUME AskIInv, NEW i \in Ids, active[i] # 0, NEW o \in Settling,
         outcome'[active[i]] = o, outcome[active[i]] \in {"open", o}, active'[i] = 0,
         NEW h \in Entries \cup {NoEntry}, fence'[i] = Fence(o, h),
         h.kind = "ask" => h = Asked(active[i])
  PROVE  Ended(i) /\ KeepsHandle(i) /\ ~fence'[i].absent
<1>1. active[i] \in Edges /\ sent[active[i]].id = i /\ sent[active[i]].kind = "ask"
  BY DEF AskIInv, Ledger, LiveEdges
<1>. QED  BY <1>1, FenceFields DEF Ended, KeepsHandle

\* What is queued of a message with an edge is its ask or an answer.
LEMMA QueuedOfEdge ==
  ASSUME AskIInv, NEW n \in Edges, sent[n].kind = "ask", NEW r \in Runs, NEW e \in inbox[r],
         e.id = sent[n].id, e.kind # "answer"
  PROVE  e = Asked(n)
<1>1. e \in Entries /\ AskTyped
  BY DEF AskIInv, Ledger, AskTyped
<1>2. e.n = n /\ e.kind = "ask"
  BY DEF AskIInv, Ledger, OneEdge, QueuedWasSent
<1>3. Asked(n) = [kind |-> "ask", id |-> sent[n].id, n |-> n]
  BY DEF Asked, Entry
<1>. QED  BY <1>1, <1>2, <1>3 DEF Entries

\* Withdraw ends an open ask, reports a settled one or bars an unknown ID.
LEMMA WithdrawMoves ==
  ASSUME AskIInv, NEW i \in Ids, Withdraw(i)
  PROVE  StoreMove
<1>. DEFINE n == active[i]
            f == Reclaimed[i]
            same == UNCHANGED <<live, leaving, seen, sent, gaveUp, route, past, waiting, posting>>
<1>0. AskTyped /\ LiveEdges /\ OneEdge /\ FencesTrue /\ Remembered
  BY DEF AskIInv, Ledger
<1>1. CASE /\ n # 0 /\ outcome[n] = "replied" /\ active' = [active EXCEPT ![i] = 0]
           /\ fence' = [Reclaimed EXCEPT ![i] = Fence("replied", NoEntry)]
           /\ inbox' = ReclaimedBox /\ Report(i, "replied") /\ UNCHANGED <<outcome, withdrawn>> /\ same
  <2>1. /\ active' \in [Ids -> Nat] /\ active'[i] = 0 /\ \A j \in Ids \ {i} : active'[j] = active[j]
        /\ fence' \in [Ids -> Fences] /\ fence'[i] = Fence("replied", NoEntry)
        /\ \A j \in Ids \ {i} : fence'[j] = Reclaimed[j]
    BY <1>0, <1>1, ReclaimFields, FenceFields DEF AskTyped, Settling
  <2>2. Ended(i) /\ KeepsHandle(i) /\ ~fence'[i].absent
    BY <1>1, <2>1, FenceFields, EdgeEnds DEF Settling
  <2>3. ASSUME NEW j \in Ids \ {i}
        PROVE  Stays(j) /\ KeepsHandle(j) /\ (fence'[j].absent => fence[j].absent)
    BY <1>0, <1>1, <2>1, ReclaimFields, FenceFields DEF Stays, KeepsHandle
  <2>4. Reports(i, "replied")
    BY <1>0, <1>1 DEF Report, Reports, Settling, LiveEdges
  <2>5. AskTyped'
    BY <1>0, <1>1, <2>1, ReclaimFields DEF AskTyped, Edges
  <2>6. LedgerMove
    BY <1>1, <2>2, <2>3, <2>4 DEF LedgerMove, Settling
  <2>7. BoxMove /\ BoundMove
    BY <1>0, <1>1, <2>2, <2>3, ReclaimFields DEF BoxMove, BoundMove
  <2>. QED  BY <2>5, <2>6, <2>7 DEF StoreMove
<1>2. CASE /\ n # 0 /\ outcome[n] = "open" /\ active' = [active EXCEPT ![i] = 0]
           /\ outcome' = [outcome EXCEPT ![n] = "withdrawn"]
           /\ fence' = [Reclaimed EXCEPT ![i] = Fence("withdrawn", NoEntry)]
           /\ inbox' = Take(ReclaimedBox, {Asked(n)}) /\ Report(i, "withdrawn") /\ Gone(i) /\ same
  <2>0. n \in Edges /\ sent[n].id = i /\ sent[n].kind = "ask"
    BY <1>0, <1>2 DEF LiveEdges
  <2>1. /\ active' \in [Ids -> Nat] /\ active'[i] = 0 /\ \A j \in Ids \ {i} : active'[j] = active[j]
        /\ fence' \in [Ids -> Fences] /\ fence'[i] = Fence("withdrawn", NoEntry)
        /\ \A j \in Ids \ {i} : fence'[j] = Reclaimed[j]
        /\ outcome' \in [Edges -> Outcomes] /\ outcome'[n] = "withdrawn"
        /\ \A m \in Edges \ {n} : outcome'[m] = outcome[m]
    BY <1>0, <1>2, <2>0, ReclaimFields, FenceFields DEF AskTyped, Settling, Outcomes
  <2>2. Ended(i) /\ KeepsHandle(i) /\ ~fence'[i].absent
    BY <1>2, <2>1, FenceFields, EdgeEnds DEF Settling
  <2>3. ASSUME NEW j \in Ids \ {i}
        PROVE  Stays(j) /\ KeepsHandle(j) /\ (fence'[j].absent => fence[j].absent)
    BY <1>0, <2>0, <2>1, ReclaimFields, FenceFields DEF Stays, KeepsHandle
  <2>4. Reports(i, "withdrawn")
    BY <1>2, <2>0, <2>1 DEF Report, Reports, Settling
  <2>5. inbox' \in [Runs -> SUBSET Entries]
        /\ \A r \in Runs : inbox'[r] \subseteq inbox[r] /\ Asked(n) \notin inbox'[r]
    BY <1>0, <1>2, ReclaimFields, TakeFields
  <2>6. AskTyped'
    BY <1>0, <1>2, <2>1, <2>5 DEF AskTyped, Edges, Gone
  <2>7. LedgerMove
    <3>1. Known(i)'
      BY <2>1, FenceFields DEF Known, Fenced, Settling
    <3>. QED  BY <1>2, <2>2, <2>3, <2>4, <3>1 DEF LedgerMove, Settling, Gone
  <2>8. BoxMove /\ BoundMove
    <3>1. \A r \in Runs : \A e \in inbox'[r] : e.id = i => e.kind = "answer"
      BY <2>0, <2>5, QueuedOfEdge
    <3>. QED  BY <1>2, <2>2, <2>3, <2>5, <3>1 DEF BoxMove, BoundMove, Gone, Unseen
  <2>. QED  BY <2>6, <2>7, <2>8 DEF StoreMove
<1>3. CASE /\ n = 0 /\ f # NoFence /\ fence' = [Reclaimed EXCEPT ![i].handle = NoEntry]
           /\ inbox' = Take(ReclaimedBox, {f.handle})
           /\ told' = (IF f.delivered THEN told ELSE told \cup {<<i, f.outcome>>})
           /\ \/ f.handle.kind = "ask" /\ Gone(i)
              \/ f.handle.kind # "ask" /\ UNCHANGED withdrawn
           /\ UNCHANGED <<active, outcome>> /\ same
  <2>0. f = fence[i] /\ f \in Fences /\ Fenced(i) /\ Recorded(i) /\ f.outcome # "none"
    BY <1>0, <1>3, ReclaimFields DEF Fenced, FencesTrue
  <2>. DEFINE g == [f EXCEPT !.handle = NoEntry]
  <2>1. /\ g \in Fences /\ g.outcome = f.outcome /\ g.absent = f.absent
        /\ g.delivered = f.delivered /\ g.handle = NoEntry
    BY <2>0 DEF Fences
  <2>2. fence' = [Reclaimed EXCEPT ![i] = g]
    BY <1>3
  <2>. HIDE DEF g
  <2>3. /\ fence' \in [Ids -> Fences] /\ fence'[i] = g
        /\ \A j \in Ids \ {i} : fence'[j] = Reclaimed[j]
    BY <1>0, <2>1, <2>2, ReclaimFields
  <2>4. Stays(i) /\ KeepsHandle(i) /\ (fence'[i].absent => fence[i].absent) /\ Known(i)'
    BY <1>3, <2>0, <2>1, <2>3, FenceFields DEF Stays, KeepsHandle, Known, Fenced
  <2>5. ASSUME NEW j \in Ids \ {i}
        PROVE  Stays(j) /\ KeepsHandle(j) /\ (fence'[j].absent => fence[j].absent)
    BY <1>0, <1>3, <2>3, ReclaimMoves
  <2>6. told' = told \/ (f.outcome \in Settling /\ Reports(i, f.outcome))
    <3>1. CASE f.absent
      BY <1>3, <2>0, <2>4, <3>1 DEF Recorded, Reports, Settling
    <3>2. CASE ~f.absent
      <4>. PICK m \in Edges : /\ sent[m].id = i /\ f.outcome = outcome[m]
                              /\ (f.delivered <=> outcome[m] = "sent")
        BY <2>0, <3>2 DEF Recorded
      <4>1. outcome[m] # "open" /\ outcome[m] \in Outcomes
        BY <1>0, <1>3, EdgeFields DEF AskIInv, Ledger, OpenIsLive, AskTyped
      <4>. QED  BY <1>3, <4>1 DEF Reports, Settling, Outcomes
    <3>. QED  BY <3>1, <3>2
  <2>7. inbox' \in [Runs -> SUBSET Entries]
        /\ \A r \in Runs : inbox'[r] \subseteq inbox[r] /\ f.handle \notin inbox'[r]
    BY <1>0, <1>3, ReclaimFields, TakeFields
  <2>8. AskTyped'
    BY <1>0, <1>3, <2>3, <2>7 DEF AskTyped, Edges, Gone
  <2>9. LedgerMove
    BY <1>3, <2>4, <2>5, <2>6 DEF LedgerMove, Gone
  <2>10. BoxMove
    <3>1. ASSUME f.handle.kind = "ask", NEW r \in Runs, NEW e \in inbox'[r], e.id = i
          PROVE  e.kind = "answer"
      <4>. DEFINE m == f.handle.n
      <4>1. /\ m \in Edges /\ f.handle.id = i /\ sent[m].id = i /\ sent[m].kind = "ask"
            /\ f.handle \in Entries
        BY <1>0, <2>0, <3>1, FenceFields DEF FencesTrue, Fences
      <4>2. e \in inbox[r] /\ e \in Entries /\ e # f.handle
        BY <1>0, <2>7, <3>1 DEF AskTyped
      <4>3. e.kind # "answer" => e.n = m /\ e.kind = "ask"
        BY <1>0, <3>1, <4>1, <4>2 DEF AskIInv, QueuedWasSent, OneEdge
      <4>. QED  BY <3>1, <4>1, <4>2, <4>3 DEF Entries
    <3>. QED  BY <1>3, <2>7, <3>1 DEF BoxMove, Gone, Unseen
  <2>11. BoundMove
    BY <1>3, <2>4, <2>5 DEF BoundMove
  <2>. QED  BY <2>8, <2>9, <2>10, <2>11 DEF StoreMove
<1>4. CASE /\ n = 0 /\ f = NoFence /\ i \notin past
           /\ absentBySender(Reclaimed, From[i]) < AbsentQuota
           /\ fence' = [Reclaimed EXCEPT ![i] = AbsentRecord] /\ inbox' = ReclaimedBox
           /\ Report(i, "withdrawn") /\ Gone(i) /\ UNCHANGED <<active, outcome>> /\ same
  <2>1. /\ fence' \in [Ids -> Fences] /\ fence'[i] = AbsentFence
        /\ \A j \in Ids \ {i} : fence'[j] = Reclaimed[j]
    BY <1>0, <1>4, ReclaimFields, FenceFields DEF AbsentRecord
  <2>2. ~Known(i) /\ (\A m \in Edges : sent[m].id # i)
    BY <1>0, <1>4, ReclaimFields DEF Known, Fenced, Remembered
  <2>3. Barred(i) /\ KeepsHandle(i) /\ Known(i)'
    BY <1>4, <2>1, <2>2, FenceFields DEF Barred, KeepsHandle, Report, Known, Fenced
  <2>4. ASSUME NEW j \in Ids \ {i}
        PROVE  Stays(j) /\ KeepsHandle(j) /\ (fence'[j].absent => Reclaimed[j].absent)
    BY <1>0, <1>4, <2>1, ReclaimMoves
  <2>5. Reports(i, "withdrawn")
    BY <1>4, <2>2, <2>3 DEF Report, Reports
  <2>6. AskTyped'
    BY <1>0, <1>4, <2>1, ReclaimFields DEF AskTyped, Edges, Gone
  <2>7. LedgerMove
    BY <1>4, <2>3, <2>4, <2>5 DEF LedgerMove, Gone, Settling
  <2>8. BoxMove
    <3>1. \A r \in Runs : \A e \in inbox'[r] : e.id = i => e.kind = "answer"
      BY <1>0, <1>4, <2>2, ReclaimFields DEF AskIInv, QueuedWasSent
    <3>. QED  BY <1>0, <1>4, <3>1, ReclaimFields DEF BoxMove, Gone, Unseen
  <2>9. BoundMove
    BY <1>4, <2>4 DEF BoundMove
  <2>. QED  BY <2>6, <2>7, <2>8, <2>9 DEF StoreMove
<1>. QED  BY <1>1, <1>2, <1>3, <1>4 DEF Withdraw

\* Prune ends the asks whose deadline has passed.
LEMMA PruneMoves ==
  ASSUME AskIInv, Prune
  PROVE  StoreMove
<1>0. AskTyped /\ LiveEdges
  BY DEF AskIInv, Ledger
<1>1. /\ fence' = [i \in Ids |-> IF i \in Overdue THEN ExpiredFence(active[i]) ELSE Reclaimed[i]]
      /\ inbox' = ReclaimedBox
      /\ active' = [i \in Ids |-> AfterPrune(i)]
      /\ outcome' = [n \in Edges |-> IF outcome[n] = "open" /\ n \in {active[i] : i \in Overdue}
                                       THEN "timed-out" ELSE outcome[n]]
      /\ route' \subseteq route
      /\ UNCHANGED <<live, leaving, seen, sent, gaveUp, past, waiting, posting, told, withdrawn>>
  BY DEF Prune
<1>2. ASSUME NEW i \in Ids, i \in Overdue
      PROVE  /\ fence'[i] \in Fences /\ active'[i] = 0
             /\ Ended(i) /\ KeepsHandle(i) /\ ~fence'[i].absent
  <2>. DEFINE n == active[i]
  <2>1. n # 0 /\ n \in Edges /\ outcome[n] \in {"open", "replied"} /\ active'[i] = 0
        /\ fence'[i] = ExpiredFence(n)
    BY <1>0, <1>1, <1>2 DEF Overdue, LiveEdges, AfterPrune
  <2>2. Asked(n) \in Entries /\ Asked(n).kind = "ask" /\ NoEntry.kind = "none"
    BY <1>0, <2>1, EdgeFields, FenceFields
  <2>3. CASE outcome[n] = "replied"
    <3>1. fence'[i] = Fence("replied", NoEntry) /\ outcome'[n] = "replied"
      BY <1>1, <2>1, <2>3 DEF ExpiredFence
    <3>. QED  BY <2>1, <2>2, <2>3, <3>1, EdgeEnds, FenceFields DEF Settling
  <2>4. CASE outcome[n] = "open"
    <3>1. fence'[i] = Fence("timed-out", Asked(n)) /\ outcome'[n] = "timed-out"
      BY <1>1, <1>2, <2>1, <2>4 DEF ExpiredFence
    <3>. QED  BY <2>1, <2>2, <2>4, <3>1, EdgeEnds, FenceFields DEF Settling
  <2>. QED  BY <2>1, <2>3, <2>4
<1>3. ASSUME NEW i \in Ids, i \notin Overdue
      PROVE  /\ fence'[i] \in Fences /\ active'[i] \in Nat
             /\ Stays(i) /\ KeepsHandle(i) /\ (fence'[i].absent => fence[i].absent)
  <2>1. fence'[i] = Reclaimed[i] /\ active'[i] = active[i]
    BY <1>1, <1>3 DEF AfterPrune
  <2>2. \A n \in Edges : sent[n].id = i => outcome'[n] = outcome[n]
    BY <1>0, <1>1, <1>3 DEF Overdue, LiveEdges, AskTyped
  <2>. QED  BY <1>0, <2>1, <2>2, ReclaimFields, FenceFields DEF Stays, KeepsHandle, AskTyped
<1>4. AskTyped'
  <2>1. active' \in [Ids -> Nat] /\ fence' \in [Ids -> Fences]
    BY <1>1, <1>2, <1>3
  <2>2. outcome' \in [Edges -> Outcomes]
    BY <1>0, <1>1 DEF AskTyped, Outcomes
  <2>. QED  BY <1>0, <1>1, <2>1, <2>2, ReclaimFields DEF AskTyped, Edges
<1>5. LedgerMove
  BY <1>1, <1>2, <1>3 DEF LedgerMove
<1>6. BoxMove /\ BoundMove
  BY <1>0, <1>1, <1>2, <1>3, ReclaimFields DEF BoxMove, BoundMove
<1>. QED  BY <1>4, <1>5, <1>6 DEF StoreMove

\* The open asks of a removed run are lost.
LEMMA RemoveMoves ==
  ASSUME AskIInv, NEW r \in Runs, RemoveRun(r)
  PROVE  StoreMove
<1>. DEFINE ends(i) == r \in {From[i], To[i]}
            lost == {i \in Ids : ends(i) /\ active[i] # 0}
            open(i) == outcome[active[i]] = "open"
<1>0. AskTyped /\ LiveEdges
  BY DEF AskIInv, Ledger
<1>1. /\ outcome' = [n \in Edges |-> IF \E i \in lost : n = active[i] /\ open(i)
                                       THEN "lost" ELSE outcome[n]]
      /\ active' = [i \in Ids |-> IF i \in lost /\ open(i) THEN 0 ELSE active[i]]
      /\ fence' = [i \in Ids |-> IF i \in lost /\ open(i) THEN Fence("lost", NoEntry) ELSE fence[i]]
      /\ inbox' = Take(inbox, {fence[i].handle : i \in {j \in lost : open(j)}})
      /\ route' = {k \in route : ~ends(k[1])}
      /\ UNCHANGED <<live, seen, sent, gaveUp, past, waiting, posting, told, withdrawn>>
  BY DEF RemoveRun
<1>2. ASSUME NEW i \in Ids, i \in lost, open(i)
      PROVE  /\ fence'[i] \in Fences /\ active'[i] = 0
             /\ Ended(i) /\ KeepsHandle(i) /\ ~fence'[i].absent
  <2>1. active[i] # 0 /\ active[i] \in Edges /\ active'[i] = 0 /\ fence'[i] = Fence("lost", NoEntry)
    BY <1>0, <1>1, <1>2 DEF LiveEdges
  <2>2. outcome'[active[i]] = "lost"
    BY <1>1, <1>2, <2>1
  <2>. QED  BY <1>2, <2>1, <2>2, EdgeEnds, FenceFields DEF Settling
<1>3. ASSUME NEW i \in Ids, ~(i \in lost /\ open(i))
      PROVE  fence'[i] = fence[i] /\ active'[i] = active[i] /\ Stays(i) /\ KeepsHandle(i)
  <2>1. fence'[i] = fence[i] /\ active'[i] = active[i]
    BY <1>1, <1>3
  <2>2. \A n \in Edges : sent[n].id = i => outcome'[n] = outcome[n]
    BY <1>0, <1>1, <1>3 DEF LiveEdges, AskTyped
  <2>. QED  BY <2>1, <2>2 DEF Stays, KeepsHandle
<1>4. inbox' \in [Runs -> SUBSET Entries] /\ \A q \in Runs : inbox'[q] \subseteq inbox[q]
  <2>1. inbox \in [Runs -> SUBSET Entries]
    BY <1>0 DEF AskTyped
  <2>. QED  BY <1>1, <2>1, TakeFields
<1>5. AskTyped'
  <2>1. active' \in [Ids -> Nat] /\ fence' \in [Ids -> Fences]
    BY <1>0, <1>1, <1>2, <1>3 DEF AskTyped
  <2>2. outcome' \in [Edges -> Outcomes]
    BY <1>0, <1>1 DEF AskTyped, Outcomes
  <2>. QED  BY <1>0, <1>1, <1>4, <2>1, <2>2 DEF AskTyped, Edges
<1>6. LedgerMove
  BY <1>1, <1>2, <1>3 DEF LedgerMove
<1>7. BoxMove /\ BoundMove
  BY <1>1, <1>2, <1>3, <1>4 DEF BoxMove, BoundMove
<1>. QED  BY <1>5, <1>6, <1>7 DEF StoreMove

-----------------------------------------------------------------------------
(***************************************************************************)
(* Admission.                                                              *)
(***************************************************************************)
\* A send that is refused reclaims, and reports how the message ended.
LEMMA RefusalMoves ==
  ASSUME AskIInv, NEW i \in Ids, NEW kind \in {"ask", "tell"}, Admit(i, kind), Refused(i, kind)
  PROVE  StoreMove
<1>0. AskTyped /\ FencesTrue /\ LiveEdges /\ OpenIsLive
  BY DEF AskIInv, Ledger
<1>1. /\ i \notin past /\ fence' = Reclaimed /\ inbox' = ReclaimedBox
      /\ told' = (IF Reclaimed[i].outcome \in {"none", "sent"} THEN told
                  ELSE told \cup {<<i, Reclaimed[i].outcome>>})
      /\ UNCHANGED <<sent, active, outcome, route, seen, past, waiting, posting, withdrawn>>
  BY DEF Admit
<1>2. \A j \in Ids : Stays(j) /\ KeepsHandle(j) /\ (fence'[j].absent => fence[j].absent)
  BY <1>0, <1>1, ReclaimMoves
<1>3. told' = told \/ (fence[i].outcome \in Settling /\ Reports(i, fence[i].outcome))
  <2>0. Reclaimed[i] = fence[i] /\ fence[i] \in Fences /\ fence'[i] = fence[i]
    BY <1>0, <1>1, ReclaimFields
  <2>1. CASE fence[i].outcome \in {"none", "sent"}
    BY <1>1, <2>0, <2>1
  <2>2. CASE fence[i].outcome \notin {"none", "sent"}
    <3>1. Fenced(i) /\ Recorded(i) /\ Known(i)'
      BY <1>0, <2>0, <2>2, FenceFields DEF Fenced, FencesTrue, Known
    <3>2. CASE fence[i].absent
      BY <1>1, <2>0, <2>2, <3>1, <3>2 DEF Recorded, Reports, Settling
    <3>3. CASE ~fence[i].absent
      <4>. PICK n \in Edges : sent[n].id = i /\ fence[i].outcome = outcome[n]
        BY <3>1, <3>3 DEF Recorded
      <4>1. outcome[n] # "open" /\ outcome[n] \in Outcomes
        BY <1>0, <3>1, EdgeFields DEF OpenIsLive, LiveEdges, Fenced, AskTyped
      <4>. QED  BY <1>1, <2>0, <2>2, <4>1 DEF Reports, Settling, Outcomes
    <3>. QED  BY <3>2, <3>3
  <2>. QED  BY <2>1, <2>2
<1>4. AskTyped'
  BY <1>0, <1>1, ReclaimFields DEF AskTyped, Edges
<1>5. LedgerMove
  BY <1>1, <1>2, <1>3 DEF LedgerMove
<1>6. BoxMove /\ BoundMove
  BY <1>0, <1>1, <1>2, ReclaimFields DEF BoxMove, BoundMove
<1>. QED  BY <1>4, <1>5, <1>6 DEF StoreMove

\* A list that grows by one element.
LEMMA AppendFields ==
  ASSUME NEW S, NEW s \in Seq(S), NEW T, NEW o \in [DOMAIN s -> T], NEW x \in S, NEW y \in T
  PROVE  /\ Append(s, x) \in Seq(S) /\ DOMAIN Append(s, x) = 1..(Len(s) + 1)
         /\ DOMAIN Append(s, x) = DOMAIN s \cup {Len(s) + 1} /\ Len(s) + 1 \notin DOMAIN s
         /\ Append(s, x)[Len(s) + 1] = x /\ \A m \in DOMAIN s : Append(s, x)[m] = s[m]
         /\ Append(o, y) \in [DOMAIN Append(s, x) -> T]
         /\ Append(o, y)[Len(s) + 1] = y /\ \A m \in DOMAIN s : Append(o, y)[m] = o[m]
<1>1. DOMAIN s = 1..Len(s) /\ Len(s) \in Nat
  OBVIOUS
<1>2. /\ Append(s, x) \in Seq(S) /\ DOMAIN Append(s, x) = 1..(Len(s) + 1)
      /\ Append(s, x)[Len(s) + 1] = x /\ \A m \in DOMAIN s : Append(s, x)[m] = s[m]
  BY <1>1
<1>3. o \in Seq(T) /\ Len(o) = Len(s)
  BY <1>1
<1>4. /\ Append(o, y) \in Seq(T) /\ DOMAIN Append(o, y) = 1..(Len(s) + 1)
      /\ Append(o, y)[Len(s) + 1] = y /\ \A m \in DOMAIN s : Append(o, y)[m] = o[m]
  BY <1>1, <1>3
<1>5. DOMAIN Append(s, x) = DOMAIN s \cup {Len(s) + 1} /\ Len(s) + 1 \notin DOMAIN s
  BY <1>1, <1>2
<1>6. Append(o, y) \in [1..(Len(s) + 1) -> T]
  <2>1. Append(o, y) \in Seq(T) /\ Len(Append(o, y)) = Len(s) + 1
    BY <1>3, <1>4
  <2>2. Append(o, y) \in [1..Len(Append(o, y)) -> T]
    BY <2>1, LenProperties
  <2>. QED  BY <2>1, <2>2
<1>. QED  BY <1>2, <1>4, <1>5, <1>6

\* An admission adds an edge to an ID that the store does not know; all that was
\* known stays as it is.
Admits(i, kind, n) ==
  /\ n \in Nat \ {0} /\ n \notin Edges /\ Edges' = Edges \cup {n}
  /\ ~Known(i) /\ i \notin past /\ fenceCount(Reclaimed) < FenceCapacity
  /\ sent'[n].id = i /\ sent'[n].kind = kind /\ \A m \in Edges : sent'[m] = sent[m]
  /\ outcome'[n] = (IF kind = "ask" THEN "open" ELSE "sent")
  /\ \A m \in Edges : outcome'[m] = outcome[m]
  /\ active'[i] = (IF kind = "ask" THEN n ELSE 0) /\ \A j \in Ids \ {i} : active'[j] = active[j]
  /\ fence'[i] = (IF kind = "ask" THEN NoFence ELSE DeliveredFence)
  /\ \A j \in Ids \ {i} : fence'[j] = Reclaimed[j]
  /\ route' = route \cup (IF kind = "ask" THEN {} ELSE {Message(i)})
  /\ inbox' = [ReclaimedBox EXCEPT ![To[i]] = @ \cup {Entry(kind, i, n)}]
  /\ UNCHANGED <<seen, past, waiting, posting, told, withdrawn>>

\* handleSend and Admit, when nothing refuses the message.
LEMMA AdmitAdmits ==
  ASSUME AskIInv, NEW i \in Ids, NEW kind \in {"ask", "tell"}, Admit(i, kind), ~Refused(i, kind)
  PROVE  AskTyped' /\ Admits(i, kind, Len(sent) + 1)
<1>. DEFINE n == Len(sent) + 1
            x == [id |-> i, kind |-> kind]
            y == IF kind = "ask" THEN "open" ELSE "sent"
<1>0. AskTyped /\ i \notin past /\ x \in Admissions /\ y \in Outcomes
      /\ sent \in Seq(Admissions) /\ outcome \in [DOMAIN sent -> Outcomes]
      /\ n \in Nat \ {0}
  BY DEF AskIInv, Ledger, AskTyped, Admit, Admissions, Outcomes, Edges
<1>1. /\ sent' = Append(sent, x) /\ outcome' = Append(outcome, y)
      /\ inbox' = [ReclaimedBox EXCEPT ![To[i]] = @ \cup {Entry(kind, i, n)}]
      /\ \/ kind = "ask" /\ active' = [active EXCEPT ![i] = n] /\ fence' = Reclaimed /\ route' = route
         \/ /\ kind = "tell" /\ fence' = [Reclaimed EXCEPT ![i] = DeliveredFence]
            /\ route' = route \cup {Message(i)} /\ active' = active
      /\ UNCHANGED <<seen, past, waiting, posting, told, withdrawn>>
  BY DEF Admit
<1>2. /\ sent' \in Seq(Admissions) /\ outcome' \in [DOMAIN sent' -> Outcomes]
      /\ n \notin DOMAIN sent /\ DOMAIN sent' = DOMAIN sent \cup {n}
      /\ sent'[n] = x /\ \A m \in DOMAIN sent : sent'[m] = sent[m]
      /\ outcome'[n] = y /\ \A m \in DOMAIN sent : outcome'[m] = outcome[m]
  BY <1>0, <1>1, AppendFields
<1>3. Reclaimed[i] = NoFence /\ active[i] = 0 /\ ~Known(i) /\ fenceCount(Reclaimed) < FenceCapacity
  <2>1. Reclaimed[i] = NoFence /\ active[i] = 0 /\ ~(fenceCount(Reclaimed) >= FenceCapacity)
    BY DEF Refused
  <2>2. Reclaimed[i] = fence[i]
    BY <1>0, ReclaimFields
  <2>3. fenceCount(Reclaimed) \in Nat /\ FenceCapacity \in Nat
    BY <1>0, CountCovers, AskAssumption
  <2>. QED  BY <1>0, <2>1, <2>2, <2>3 DEF Known, Fenced
<1>4. /\ active' \in [Ids -> Nat] /\ fence' \in [Ids -> Fences]
      /\ active'[i] = (IF kind = "ask" THEN n ELSE 0) /\ \A j \in Ids \ {i} : active'[j] = active[j]
      /\ fence'[i] = (IF kind = "ask" THEN NoFence ELSE DeliveredFence)
      /\ \A j \in Ids \ {i} : fence'[j] = Reclaimed[j]
  <2>1. active \in [Ids -> Nat] /\ Reclaimed \in [Ids -> Fences] /\ DeliveredFence \in Fences
    BY <1>0, ReclaimFields, FenceFields DEF AskTyped
  <2>2. CASE kind = "ask"
    BY <1>0, <1>1, <1>3, <2>1, <2>2
  <2>3. CASE kind = "tell"
    BY <1>1, <1>3, <2>1, <2>3
  <2>. QED  BY <2>2, <2>3
<1>5. inbox' \in [Runs -> SUBSET Entries]
  <2>1. Entry(kind, i, n) \in Entries
    BY <1>0 DEF Entry, Entries
  <2>2. ReclaimedBox \in [Runs -> SUBSET Entries] /\ To[i] \in Runs
    BY <1>0, ReclaimFields, AskAssumption
  <2>. QED  BY <1>1, <2>1, <2>2
<1>6. route' \subseteq Ids \X {"message", "reply"}
  BY <1>0, <1>1 DEF AskTyped, Message
<1>7. AskTyped'
  BY <1>0, <1>1, <1>2, <1>4, <1>5, <1>6 DEF AskTyped, Edges
<1>8. Admits(i, kind, n)
  <2>1. sent'[n].id = i /\ sent'[n].kind = kind
    BY <1>2
  <2>2. route' = route \cup (IF kind = "ask" THEN {} ELSE {Message(i)})
    BY <1>1
  <2>. HIDE DEF n, x
  <2>. QED  BY <1>0, <1>1, <1>2, <1>3, <1>4, <2>1, <2>2 DEF Admits, Edges
<1>. QED  BY <1>7, <1>8

\* An admitted message is the only one of its ID.
LEMMA AdmitKeepsLedger ==
  ASSUME AskIInv, NEW i \in Ids, NEW kind \in {"ask", "tell"}, NEW n, AskTyped', Admits(i, kind, n)
  PROVE  Ledger' /\ \A m \in Edges : sent[m].id # i
<1>. USE DEF AskIInv, Ledger, Admits
<1>0. \A m \in Edges : sent[m].id # i
  BY DEF Remembered
<1>1. \A m \in Edges : sent[m].id \in Ids \ {i} /\ m # 0
  BY <1>0, EdgeFields
<1>2. OneEdge'
  BY <1>0 DEF OneEdge
<1>3. LiveEdges'
  BY ReclaimFields DEF LiveEdges
<1>4. OpenIsLive'
  BY <1>1 DEF OpenIsLive
<1>5. WaitsForAsks'
  BY DEF WaitsForAsks
<1>6. \A j \in Ids : Known(j) => Known(j)'
  BY ReclaimFields DEF Known, Fenced
<1>7. Known(i)'
  BY FenceFields DEF Known, Fenced
<1>8. Remembered'
  <2>1. withdrawn \subseteq Ids
    BY DEF AskTyped
  <2>. QED  BY <1>1, <1>6, <1>7, <2>1 DEF Remembered
<1>9. FencesTrue'
  <2>1. ASSUME NEW j \in Ids \ {i}
        PROVE  /\ Fenced(j)' => Recorded(j)' /\ fence'[j].outcome # "none"
               /\ fence'[j].handle.kind = "ask" =>
                    /\ fence'[j].handle.n \in Edges' /\ fence'[j].handle.id = j
                    /\ sent'[fence'[j].handle.n].id = j /\ sent'[fence'[j].handle.n].kind = "ask"
    <3>1. CASE fence'[j] = NoFence
      BY <3>1, FenceFields DEF Fenced
    <3>2. CASE fence'[j] = fence[j]
      BY <3>2, <1>1 DEF FencesTrue, Fenced, Recorded
    <3>. QED  BY <3>1, <3>2, ReclaimFields
  <2>2. Fenced(i)' => Recorded(i)' /\ fence'[i].outcome # "none"
    BY FenceFields DEF Fenced, Recorded
  <2>3. fence'[i].handle.kind # "ask"
    BY FenceFields
  <2>. QED  BY <2>1, <2>2, <2>3 DEF FencesTrue
<1>10. ToldWithdrawn'
  BY DEF ToldWithdrawn, Remembered
<1>. QED  BY <1>0, <1>2, <1>3, <1>4, <1>5, <1>8, <1>9, <1>10

\* It was not withdrawn before.
LEMMA AdmitKeepsQueues ==
  ASSUME AskIInv, NEW i \in Ids, NEW kind \in {"ask", "tell"}, NEW n, AskTyped', Admits(i, kind, n)
  PROVE  QueuedWasSent' /\ WithdrawnUnseen'
<1>. USE DEF AskIInv, Ledger
<1>0. Entry(kind, i, n).id = i /\ Entry(kind, i, n).kind = kind /\ Entry(kind, i, n).n = n
  BY DEF Entry
<1>1. \A r \in Runs : inbox'[r] \subseteq inbox[r] \cup {Entry(kind, i, n)}
  BY ReclaimFields DEF Admits
<1>2. QueuedWasSent'
  BY <1>0, <1>1 DEF QueuedWasSent, Admits
<1>3. i \notin withdrawn
  BY DEF Remembered, Admits
<1>4. WithdrawnUnseen'
  BY <1>0, <1>1, <1>3 DEF WithdrawnUnseen, Unseen, Admits
<1>. QED  BY <1>2, <1>4

\* It is charged one record, and a tell a route as well.
LEMMA AdmitKeepsBounds ==
  ASSUME AskIInv, NEW i \in Ids, NEW kind \in {"ask", "tell"}, NEW n, AskTyped', Admits(i, kind, n)
  PROVE  WithinBounds'
<1>. USE DEF AskIInv, Ledger
<1>0. FenceCapacity \in Nat /\ AbsentQuota \in Nat /\ IsFiniteSet(Ids) /\ Reclaimed \in {fence, Reclaimed}
  BY AskAssumption
<1>1. Charged' \subseteq Charged \cup {i}
  BY ReclaimFields DEF Charged, Admits, Fenced
<1>2. route' \subseteq route \cup {Message(i)}
  BY DEF Admits
<1>3. /\ IsFiniteSet(Charged) /\ IsFiniteSet(route)
      /\ Cardinality(Charged) \in Nat /\ Cardinality(route) \in Nat /\ fenceCount(Reclaimed) \in Nat
      /\ Cardinality(Charged) + Cardinality(route) <= fenceCount(Reclaimed)
  BY <1>0, CountCovers
<1>4. Cardinality(Charged') \in Nat /\ Cardinality(Charged') <= Cardinality(Charged) + 1
  <2>1. IsFiniteSet(Charged \cup {i}) /\ Cardinality(Charged \cup {i}) \in Nat
        /\ Cardinality(Charged \cup {i}) <= Cardinality(Charged) + 1
    BY <1>3, OneMore
  <2>2. Cardinality(Charged') \in Nat /\ Cardinality(Charged') <= Cardinality(Charged \cup {i})
    BY <1>1, <2>1, FS_Subset, FS_CardinalityType
  <2>. QED  BY <1>3, <2>1, <2>2
<1>5. Cardinality(route') \in Nat /\ Cardinality(route') <= Cardinality(route) + 1
  <2>1. IsFiniteSet(route \cup {Message(i)}) /\ Cardinality(route \cup {Message(i)}) \in Nat
        /\ Cardinality(route \cup {Message(i)}) <= Cardinality(route) + 1
    BY <1>3, OneMore
  <2>2. Cardinality(route') \in Nat /\ Cardinality(route') <= Cardinality(route \cup {Message(i)})
    BY <1>2, <2>1, FS_Subset, FS_CardinalityType
  <2>. QED  BY <1>3, <2>1, <2>2
<1>6. fenceCount(Reclaimed) < FenceCapacity
  BY DEF Admits
<1>7. Cardinality(Charged') + Cardinality(route') <= FenceCapacity + 1
  BY <1>0, <1>3, <1>4, <1>5, <1>6
<1>8. ASSUME NEW r \in Runs PROVE Cardinality(Absent(r)') <= AbsentQuota
  <2>1. \A j \in Ids : fence'[j].absent => fence[j].absent
    BY ReclaimFields, FenceFields DEF Admits
  <2>2. Absent(r)' \subseteq Absent(r) /\ IsFiniteSet(Absent(r))
    BY <1>0, <2>1, FS_Subset DEF Absent
  <2>3. Cardinality(Absent(r)') <= Cardinality(Absent(r))
        /\ Cardinality(Absent(r)') \in Nat /\ Cardinality(Absent(r)) \in Nat
    BY <2>2, FS_Subset, FS_CardinalityType
  <2>. QED  BY <1>0, <2>3 DEF WithinBounds
<1>. QED  BY <1>7, <1>8 DEF WithinBounds

\* The ask store's part of the promise when a message is admitted: an ask opens,
\* a tell has no verdict.
LEMMA AdmitIsPromised ==
  ASSUME AskIInv, NEW i \in Ids, NEW kind \in {"ask", "tell"}, NEW n, AskTyped', Admits(i, kind, n)
  PROVE  [Promise!Next]_<<[j \in Ids |-> Verdict(j)], {t \in told : t[2] # "gave-up"}>>
<1>0. Ledger /\ Ledger' /\ \A m \in Edges : sent[m].id # i
  BY AdmitKeepsLedger DEF AskIInv
<1>1. VerdictTrue /\ VerdictTrue'
  BY <1>0, VerdictOfEdge, PTL
<1>2. told' = told /\ <<i, "withdrawn">> \notin told
  BY <1>0 DEF Admits, Ledger, Remembered
<1>3. Verdict(i) = "none" /\ Verdict(i)' = IF kind = "ask" THEN "open" ELSE "none"
  BY <1>0, <1>1, <1>2 DEF VerdictTrue, Admits
<1>4. ASSUME NEW j \in Ids \ {i} PROVE Verdict(j)' = Verdict(j)
  <2>1. CASE \E m \in Edges : sent[m].id = j /\ sent[m].kind = "ask"
    <3>. PICK m \in Edges : sent[m].id = j /\ sent[m].kind = "ask"
      BY <2>1
    <3>1. m \in Edges' /\ sent'[m] = sent[m] /\ outcome'[m] = outcome[m]
      BY DEF Admits
    <3>2. Verdict(j) = outcome[m]
      BY <1>1 DEF VerdictTrue
    <3>3. Verdict(j)' = outcome'[m]
      BY <1>1, <3>1 DEF VerdictTrue
    <3>. QED  BY <3>1, <3>2, <3>3
  <2>2. CASE ~ \E m \in Edges : sent[m].id = j /\ sent[m].kind = "ask"
    <3>1. \A m \in Edges' : sent'[m].id = j => sent'[m].kind # "ask"
      BY <2>2 DEF Admits
    <3>2. j \in Ids
      OBVIOUS
    <3>3. Verdict(j) = IF <<j, "withdrawn">> \in told THEN "withdrawn" ELSE "none"
      BY <1>1, <2>2, <3>2 DEF VerdictTrue
    <3>4. Verdict(j)' = IF <<j, "withdrawn">> \in told' THEN "withdrawn" ELSE "none"
      BY <1>1, <3>1, <3>2 DEF VerdictTrue
    <3>. QED  BY <1>2, <3>3, <3>4
  <2>. QED  BY <2>1, <2>2
<1>5. CASE kind = "ask"
  <2>1. [j \in Ids |-> Verdict(j)]' = [[j \in Ids |-> Verdict(j)] EXCEPT ![i] = "open"]
    BY <1>3, <1>4, <1>5
  <2>2. Promise!Open(i)
    BY <1>2, <1>3, <2>1 DEF Promise!Open
  <2>. QED  BY <2>2 DEF Promise!Next
<1>6. CASE kind = "tell"
  BY <1>2, <1>3, <1>4, <1>6
<1>. QED  BY <1>5, <1>6

-----------------------------------------------------------------------------
\* The store starts empty.
LEMMA AskStart == AskInit => AskIInv /\ Promise!Init
<1>. SUFFICES ASSUME AskInit PROVE AskIInv /\ Promise!Init
  OBVIOUS
<1>. USE DEF AskInit
<1>1. Edges = {} /\ << >> \in [Edges -> Outcomes]
  BY DEF Edges
<1>2. AskTyped
  BY <1>1, FenceFields DEF AskTyped
<1>3. /\ OneEdge /\ LiveEdges /\ OpenIsLive /\ WaitsForAsks /\ Remembered /\ FencesTrue
      /\ ToldWithdrawn
  BY <1>1, FenceFields DEF OneEdge, LiveEdges, OpenIsLive, WaitsForAsks, Remembered, FencesTrue,
                           Fenced, ToldWithdrawn
<1>4. QueuedWasSent /\ WithdrawnUnseen
  BY DEF QueuedWasSent, WithdrawnUnseen
<1>5. WithinBounds
  <2>1. Charged = {} /\ \A r \in Runs : Absent(r) = {}
    BY FenceFields DEF Charged, Fenced, Absent
  <2>2. Cardinality({}) = 0
    BY FS_EmptySet
  <2>3. Cardinality(Charged) = 0 /\ Cardinality(route) = 0
    BY <2>1, <2>2
  <2>4. \A r \in Runs : Cardinality(Absent(r)) = 0
    BY <2>1, <2>2
  <2>5. FenceCapacity \in Nat /\ AbsentQuota \in Nat
    BY AskAssumption
  <2>. HIDE DEF AskInit
  <2>. QED  BY <2>3, <2>4, <2>5 DEF WithinBounds
<1>6. AskIInv /\ VerdictTrue
  BY <1>2, <1>3, <1>4, <1>5, VerdictOfEdge DEF AskIInv, Ledger
<1>7. \A i \in Ids : Verdict(i) = "none"
  BY <1>1, <1>6 DEF VerdictTrue
<1>. QED  BY <1>6, <1>7 DEF Promise!Init

\* Every step keeps the invariant and is a step of the promise, or none.
LEMMA AskStep ==
  ASSUME AskIInv, [AskNext]_askVars
  PROVE  /\ AskIInv'
         /\ [Promise!Next]_<<[i \in Ids |-> Verdict(i)], {t \in told : t[2] # "gave-up"}>>
<1>1. ASSUME NEW i \in Ids, NEW kind \in {"ask", "tell"}, Admit(i, kind), ~Refused(i, kind)
      PROVE  /\ AskIInv'
             /\ [Promise!Next]_<<[j \in Ids |-> Verdict(j)], {t \in told : t[2] # "gave-up"}>>
  <2>. DEFINE n == Len(sent) + 1
  <2>1. AskTyped' /\ Admits(i, kind, n)
    BY <1>1, AdmitAdmits
  <2>. HIDE DEF n
  <2>. QED
    BY <2>1, AdmitKeepsLedger, AdmitKeepsQueues, AdmitKeepsBounds, AdmitIsPromised DEF AskIInv
<1>2. CASE UNCHANGED askVars
  <2>0. AskTyped
    BY DEF AskIInv, Ledger
  <2>1. AskTyped'
    BY <1>2, <2>0 DEF askVars, AskTyped, Edges
  <2>2. LedgerMove
    BY <1>2, StillMoves DEF askVars, LedgerMove
  <2>3. BoxMove /\ BoundMove
    BY <1>2 DEF askVars, BoxMove, BoundMove
  <2>. QED  BY <2>1, <2>2, <2>3, MoveKeepsAll DEF StoreMove
<1>3. CASE StoreMove
  BY <1>3, MoveKeepsAll
<1>4. CASE AskNext
  <2>1. ASSUME NEW i \in Ids, NEW kind \in {"ask", "tell"}, Admit(i, kind)
        PROVE  StoreMove \/ ~Refused(i, kind)
    BY <2>1, RefusalMoves
  <2>2. ASSUME NEW i \in Ids,
               (\E w \in Waiters : Wait(w, i)) \/ Reply(i) \/ ReplyAbsent(i) \/ Withdraw(i)
        PROVE  StoreMove
    BY <2>2, WaitMoves, ReplyMoves, ReplyAbsentMoves, WithdrawMoves
  <2>3. ASSUME \/ \E i \in Ids : PassDeadline(i)
               \/ \E r \in Runs : DeleteRun(r) \/ RemoveRun(r) \/ Poll(r)
               \/ \E w \in Waiters : WakeDone(w) \/ WakeTimeout(w)
               \/ \E p \in posting : Post(p) \/ KeepHandle(p)
               \/ Prune
        PROVE  StoreMove
    BY <2>3, QuietMoves, RemoveMoves, WakeMoves, PostMoves, KeepHandleMoves, PruneMoves
  <2>. QED  BY <1>1, <1>3, <1>4, <2>1, <2>2, <2>3 DEF AskNext
<1>. QED  BY <1>2, <1>4

\* The ask store keeps its invariant, for any runs, messages and waiters.
THEOREM AsksInductive == AskSpec => []AskIInv
<1>1. AskInit => AskIInv
  BY AskStart
<1>2. AskIInv /\ [AskNext]_askVars => AskIInv'
  BY AskStep
<1>. QED  BY <1>1, <1>2, PTL DEF AskSpec

\* No message is queued twice, and none is seen that was withdrawn unseen.
THEOREM NeverReplayed == AskSpec => []NoReplay
<1>1. AskIInv => NoReplay
  BY DEF AskIInv, Ledger, OneEdge, WithdrawnUnseen, NoReplay
<1>. QED  BY <1>1, AsksInductive, PTL

\* The records of the store stay within its capacity and the senders' quotas.
THEOREM RecordsStayBounded == AskSpec => []RecordsBounded
<1>1. AskIInv => RecordsBounded
  <2>. SUFFICES ASSUME AskIInv PROVE RecordsBounded
    OBVIOUS
  <2>. DEFINE A == {i \in Ids \ past : active[i] # 0}
              B == {i \in Ids \ past : Fenced(i) /\ ~fence[i].absent}
  <2>0. AskTyped /\ LiveEdges /\ WithinBounds
    BY DEF AskIInv, Ledger
  <2>1. A \cup B = Charged /\ A \cap B = {}
    BY <2>0 DEF Charged, LiveEdges, Fenced
  <2>2. IsFiniteSet(A) /\ IsFiniteSet(B)
    BY FS_Subset, AskAssumption
  <2>3. Cardinality(A) \in Nat /\ Cardinality(B) \in Nat /\ Cardinality({}) = 0
    BY <2>2, FS_CardinalityType, FS_EmptySet
  <2>4. Cardinality(A \cup B) = Cardinality(A) + Cardinality(B) - Cardinality(A \cap B)
    BY <2>2, FS_Union
  <2>5. Cardinality(route) \in Nat
    BY <2>0, CountCovers
  <2>6. Cardinality(A) + Cardinality(B) + Cardinality(route) <= FenceCapacity + 1
    <3>. HIDE DEF A, B
    <3>. QED  BY <2>0, <2>1, <2>3, <2>4, <2>5, AskAssumption DEF WithinBounds
  <2>7. \A r \in Runs : absentBySender(fence, r) <= AbsentQuota
    BY <2>0 DEF WithinBounds, Absent, absentBySender
  <2>. QED  BY <2>6, <2>7 DEF RecordsBounded
<1>. QED  BY <1>1, AsksInductive, PTL

\* The ask store implements AskPromise: an ask settles at most once, and no caller
\* is told another outcome than the one it has.
THEOREM PromiseKept == AskSpec => KeepsPromise
<1>1. AskInit => Promise!Init
  BY AskStart
<1>2. AskIInv /\ [AskNext]_askVars =>
        [Promise!Next]_<<[i \in Ids |-> Verdict(i)], {t \in told : t[2] # "gave-up"}>>
  BY AskStep
<1>. QED  BY <1>1, <1>2, AsksInductive, PTL DEF AskSpec, KeepsPromise, Promise!Spec
=============================================================================
