-------------------------- MODULE PermissionClaims --------------------------
(***************************************************************************)
(* One runtime's permission requests: the claim the control server keeps   *)
(* per request ID, the session loop that prepares and publishes a request, *)
(* its resolver goroutine (automatic, control, file or nobody), and the    *)
(* callers of answer_permission, which reach either the resolver's channel *)
(* or, when nobody resolves, the provider itself.                          *)
(*                                                                         *)
(* A request ID may be reused once its claim is resolved, so requests are  *)
(* numbered.  Every request offers the same Answers (an option with its    *)
(* message); an answer that is not offered is refused before it changes    *)
(* anything and is left out.  One provider; its generations are left out.  *)
(***************************************************************************)
EXTENDS Naturals, FiniteSets

CONSTANTS ReqIds,       \* the request IDs the provider uses, and reuses
          Answers,      \* the answers every request offers
          Answerers,    \* callers of answer_permission
          Says,         \* the answers each of them may give
          Clients,      \* control socket connections, by name
          MaxRequests   \* bound on the requests of the run

ASSUME ClaimAssumption ==
  /\ Says \in [Answerers -> SUBSET Answers]
  /\ "allow" \in Answers /\ "" \notin Answers /\ "none" \notin Answers
  /\ MaxRequests \in Nat \ {0}

VARIABLES
  setup,     \* how the session is configured: auto-approve, file handler, claim timeout
  up,        \* the session's context is not cancelled and its provider not closing
  over,      \* the session loop has returned
  conns,     \* connected clients
  dropped,   \* last connections that were removed, their scan still to come
  claim,     \* pendingClaims, by request ID
  cached,    \* permOptions: the request whose options are cached, 0 for none
  requested,     \* requests sent so far
  open,      \* requests the provider still waits on
  applied,   \* the answer the provider took, by request
  accepted,  \* the answers whose callers were told they were accepted, by request
  res,       \* the session loop and its resolver
  caller     \* the callers of answer_permission

pcVars == <<setup, up, over, conns, dropped, claim, cached, requested, open,
            applied, accepted, res, caller>>

Requests == 1..MaxRequests
\* A claim's state is reserved, control, automatic, file, noResolver,
\* directDelivery or resolved; "unknown" when there is no claim.
NoClaim == [state |-> "unknown", req |-> 0, queue |-> "none", queued |-> FALSE,
            gone |-> FALSE, resolution |-> "none"]
FreeResolver == [pc |-> "free", id |-> "none", req |-> 0, state |-> "unknown", hand |-> "none"]
IdleCaller == [pc |-> "idle", id |-> "none", answer |-> "none", req |-> 0]

PcInit ==
  /\ setup \in [auto : BOOLEAN, files : BOOLEAN, timed : BOOLEAN]
  /\ up = TRUE /\ over = FALSE
  /\ conns \in SUBSET Clients /\ dropped = {}
  /\ claim = [i \in ReqIds |-> NoClaim]
  /\ cached = [i \in ReqIds |-> 0]
  /\ requested = 0 /\ open = {}
  /\ applied = [r \in Requests |-> "none"]
  /\ accepted = [r \in Requests |-> {}]
  /\ res = FreeResolver
  /\ caller = [p \in Answerers |-> IdleCaller]

-----------------------------------------------------------------------------
(* The claim operations of the control server. *)

HasClients == conns # {}

\* preparePermissionClaimLocked, born disconnected when nobody is connected.
NewClaim(r, state) ==
  [NoClaim EXCEPT !.state = state, !.req = r, !.gone = state = "reserved" /\ ~HasClients]
Preparable(i) == claim[i].state \in {"unknown", "resolved"}

\* SetPermissionResolverState.
Stamped(i, state) ==
  IF claim[i].state \in {"unknown", "resolved", "directDelivery"} THEN claim
  ELSE [claim EXCEPT ![i].state = state]

\* MarkPermissionClaimResolved: whatever was queued is drained.
Resolved(i, a) ==
  IF claim[i].state = "unknown" THEN claim
  ELSE [claim EXCEPT ![i] = [NoClaim EXCEPT !.state = "resolved", !.req = claim[i].req,
                                            !.resolution = a]]

\* RetryDirectPermissionDelivery.
Retried(i) ==
  IF claim[i].state # "directDelivery" THEN claim
  ELSE [claim EXCEPT ![i].state = "noResolver"]

\* EndPermissionClaim.
Ended(i) == [claim EXCEPT ![i] = NoClaim]

\* HandoffPermissionClaim: what it leaves behind when no answer is queued.
ControlOwned(i) == claim[i].state \in {"reserved", "control"}

\* Mutant: the hand-off does not look for an answer that is already queued.
HandoffAnswer_None(i) == "none"

HandoffAnswer(i) == IF ControlOwned(i) THEN claim[i].queue ELSE "none"
HandedOff(i, next) ==
  IF ~ControlOwned(i) THEN claim
  ELSE IF HandoffAnswer(i) # "none" THEN [claim EXCEPT ![i].queue = "none"]
  ELSE IF next = "resolved" THEN Ended(i)
  ELSE [claim EXCEPT ![i].state = next]

-----------------------------------------------------------------------------
(* Clients come and go: the connection is removed; if it was the last one, *)
(* the claims are scanned in a critical section of its own, unless another *)
(* client has connected in between.  A client that comes back is a new     *)
(* connection: a name is free again when its scan is done.                 *)

Connect(c) ==
  /\ c \notin conns /\ c \notin dropped
  /\ conns' = conns \cup {c}
  /\ UNCHANGED <<setup, up, over, dropped, claim, cached, requested, open, applied, accepted, res, caller>>

Disconnect(c) ==
  /\ c \in conns
  /\ conns' = conns \ {c}
  /\ dropped' = IF conns = {c} THEN dropped \cup {c} ELSE dropped
  /\ UNCHANGED <<setup, up, over, claim, cached, requested, open, applied, accepted, res, caller>>

\* Mutant: a claim its resolver already waits on is not told.
Scannable_Reserved(i) == claim[i].state = "reserved"

Scannable(i) == ControlOwned(i)

signalClientDisconnect(c) ==
  /\ c \in dropped
  /\ dropped' = dropped \ {c}
  /\ claim' = IF HasClients THEN claim
              ELSE [i \in ReqIds |-> IF Scannable(i) THEN [claim[i] EXCEPT !.gone = TRUE]
                                     ELSE claim[i]]
  /\ UNCHANGED <<setup, up, over, conns, cached, requested, open, applied, accepted, res, caller>>

-----------------------------------------------------------------------------
(* The session loop: permission.request arrives, its resolver is chosen,   *)
(* its claim prepared, the event published and the resolver started.       *)

effectivePermissionResolverState(needsUser) ==
  CASE setup.auto /\ ~needsUser -> "automatic"
    [] (~setup.auto \/ needsUser) /\ HasClients -> "reserved"
    [] (~setup.auto \/ needsUser) /\ ~HasClients /\ setup.files -> "file"
    [] OTHER -> "noResolver"

\* The provider asks: it has at most one request open per ID.
Request(i, needsUser) ==
  /\ ~over /\ up /\ requested < MaxRequests
  /\ \A r \in open : ~(claim[i].req = r)
  /\ requested' = requested + 1 /\ open' = open \cup {requested + 1}
  /\ IF res.pc = "free"
       THEN /\ res' = [FreeResolver EXCEPT !.pc = "prepare", !.id = i, !.req = requested + 1,
                         !.state = effectivePermissionResolverState(needsUser)]
            /\ UNCHANGED <<up, over>>
       ELSE \* another permission request is already pending: the session fails
            /\ up' = FALSE /\ over' = TRUE
            /\ UNCHANGED res
  /\ UNCHANGED <<setup, conns, dropped, claim, cached, applied, accepted, caller>>

\* A request that reuses an ID waits for a direct answer in flight, and is
\* refused while the ID is still claimed, or when the context dies meanwhile.
PreparePermissionClaim ==
  /\ res.pc = "prepare"
  /\ \/ /\ up /\ Preparable(res.id)
        /\ claim' = [claim EXCEPT ![res.id] = NewClaim(res.req, res.state)]
        /\ res' = [res EXCEPT !.pc = "publish"]
        /\ UNCHANGED <<up, over>>
     \/ /\ ~up \/ (~Preparable(res.id) /\ claim[res.id].state # "directDelivery")
        /\ up' = FALSE /\ over' = TRUE /\ res' = FreeResolver
        /\ UNCHANGED claim
  /\ UNCHANGED <<setup, conns, dropped, cached, requested, open, applied, accepted, caller>>

\* The event's fan-out caches the options; a failed write ends the claim.
PublishRequest ==
  /\ res.pc = "publish"
  /\ \/ /\ cached' = [cached EXCEPT ![res.id] = res.req]
        /\ res' = [res EXCEPT !.pc = "start"]
        /\ UNCHANGED <<claim, up, over>>
     \/ /\ claim' = Ended(res.id)
        /\ up' = FALSE /\ over' = TRUE /\ res' = FreeResolver
        /\ UNCHANGED cached
  /\ UNCHANGED <<setup, conns, dropped, requested, open, applied, accepted, caller>>

-----------------------------------------------------------------------------
(* resolvePermission. *)

\* An automatic request is answered with its first allow option, if it has one.
StartAutomatic ==
  /\ res.pc = "start" /\ res.state = "automatic"
  /\ \E a \in {"allow", ""} : res' = [res EXCEPT !.pc = "answer", !.hand = a]
  /\ UNCHANGED <<setup, up, over, conns, dropped, claim, cached, requested, open, applied, accepted, caller>>

BornGone(i) == claim[i].gone \/ ~HasClients

\* BeginPermissionClaim, for a claim still reserved when the resolver looks,
\* or when it has vanished and a client is connected.
BeginPermissionClaim ==
  /\ res.pc = "start" /\ res.state # "automatic"
  /\ \/ claim[res.id].state = "reserved"
     \/ claim[res.id].state = "unknown" /\ HasClients
  /\ claim' = [claim EXCEPT ![res.id].state = "control", ![res.id].req = res.req,
                            ![res.id].gone = BornGone(res.id)]
  /\ res' = [res EXCEPT !.pc = "wait"]
  /\ UNCHANGED <<setup, up, over, conns, dropped, cached, requested, open, applied, accepted, caller>>

Fallback == IF setup.files THEN "file" ELSE "noResolver"

StartFallback ==
  /\ res.pc = "start" /\ res.state # "automatic"
  /\ claim[res.id].state # "reserved"
  /\ claim[res.id].state = "unknown" => ~HasClients
  /\ res' = [res EXCEPT !.pc = Fallback]
  /\ UNCHANGED <<setup, up, over, conns, dropped, claim, cached, requested, open, applied, accepted, caller>>

\* An answer is on the channel.
ReceiveAnswer ==
  /\ res.pc = "wait" /\ claim[res.id].queue # "none"
  /\ claim' = [claim EXCEPT ![res.id].queue = "none"]
  /\ res' = [res EXCEPT !.pc = "answer", !.hand = claim[res.id].queue]
  /\ UNCHANGED <<setup, up, over, conns, dropped, cached, requested, open, applied, accepted, caller>>

\* The context dies, everyone left or the claim timer fires: an answer that is
\* already queued is still taken, otherwise control ownership is closed.
ResolverGivesUp ==
  /\ res.pc = "wait"
  /\ \E next \in (IF up THEN {} ELSE {"resolved"})
                   \cup (IF claim[res.id].gone \/ setup.timed THEN {Fallback} ELSE {}) :
       /\ claim' = HandedOff(res.id, next)
       /\ IF HandoffAnswer(res.id) # "none"
            THEN /\ res' = [res EXCEPT !.pc = "answer", !.hand = HandoffAnswer(res.id)]
                 /\ UNCHANGED over
            ELSE /\ res' = IF next = "resolved" THEN FreeResolver ELSE [res EXCEPT !.pc = next]
                 /\ over' = (over \/ next = "resolved")
  /\ UNCHANGED <<setup, up, conns, dropped, cached, requested, open, applied, accepted, caller>>

\* The provider takes an answer for a request it still waits on.
Takes(r, a) ==
  /\ r \in open
  /\ open' = open \ {r} /\ applied' = [applied EXCEPT ![r] = a]
Refuses == UNCHANGED <<open, applied>>

\* The file protocol: an answer from the response file is handed to the
\* provider; a timeout, a bad file or a cancellation ends the claim.
FileHandle ==
  /\ res.pc = "file"
  /\ claim' = Stamped(res.id, "file")
  /\ res' = [res EXCEPT !.pc = "filing"]
  /\ UNCHANGED <<setup, up, over, conns, dropped, cached, requested, open, applied, accepted, caller>>

FileAnswer ==
  /\ res.pc = "filing"
  /\ \/ /\ \E a \in Answers : res' = [res EXCEPT !.pc = "answer", !.hand = a]
        /\ UNCHANGED <<claim, up, over>>
     \/ /\ claim' = Ended(res.id)
        /\ up' = FALSE /\ over' = TRUE /\ res' = FreeResolver
  /\ UNCHANGED <<setup, conns, dropped, cached, requested, open, applied, accepted, caller>>

\* The resolver hands its answer to the provider, and marks the claim in a
\* step of its own; a refusal ends the claim and the session.
ProviderAnswer ==
  /\ res.pc = "answer"
  /\ \/ /\ Takes(res.req, res.hand)
        /\ res' = [res EXCEPT !.pc = "mark"]
        /\ UNCHANGED <<claim, up, over>>
     \/ /\ Refuses
        /\ claim' = Ended(res.id)
        /\ up' = FALSE /\ over' = TRUE /\ res' = FreeResolver
  /\ UNCHANGED <<setup, conns, dropped, cached, requested, accepted, caller>>

MarkPermissionClaimResolved ==
  /\ res.pc = "mark"
  /\ claim' = Resolved(res.id, res.hand)
  /\ res' = FreeResolver
  /\ UNCHANGED <<setup, up, over, conns, dropped, cached, requested, open, applied, accepted, caller>>

\* Nobody resolves: the request is left to a direct answer.
LeaveUnresolved ==
  /\ res.pc = "noResolver"
  /\ claim' = Stamped(res.id, "noResolver")
  /\ res' = FreeResolver
  /\ UNCHANGED <<setup, up, over, conns, dropped, cached, requested, open, applied, accepted, caller>>

-----------------------------------------------------------------------------
(* answer_permission.  The look at a resolved claim and at the cached      *)
(* options only refuses; it is one step with nothing in between.           *)

Told(r, a) == IF r = 0 THEN accepted ELSE [accepted EXCEPT ![r] = @ \cup {a}]
Matches(i, a) == claim[i].state = "resolved" /\ claim[i].resolution = a

AnswerPermission(p, i, a) ==
  /\ caller[p].pc = "idle"
  /\ \/ /\ claim[i].state = "resolved"
        /\ accepted' = IF Matches(i, a) THEN Told(claim[i].req, a) ELSE accepted
        /\ UNCHANGED caller
     \/ /\ claim[i].state # "resolved" /\ cached[i] # 0
        /\ caller' = [caller EXCEPT ![p] = [IdleCaller EXCEPT !.pc = "deliver", !.id = i, !.answer = a]]
        /\ UNCHANGED accepted
  /\ UNCHANGED <<setup, up, over, conns, dropped, claim, cached, requested, open, applied, res>>

\* Mutant: a second answer overwrites the one that is queued.
ChannelFull_Never(i) == FALSE

ChannelFull(i) == claim[i].queued

DeliverPendingPermission(p) ==
  LET i == caller[p].id
      a == caller[p].answer
      req == claim[i].req
  IN /\ caller[p].pc = "deliver"
     /\ \/ /\ ControlOwned(i) /\ ~ChannelFull(i)       \* Delivered
           /\ claim' = [claim EXCEPT ![i].queue = a, ![i].queued = TRUE]
           /\ accepted' = Told(req, a)
           /\ caller' = [caller EXCEPT ![p].pc = "forget", ![p].req = req]
        \/ /\ claim[i].state = "noResolver"
           /\ claim' = [claim EXCEPT ![i].state = "directDelivery"]
           /\ caller' = [caller EXCEPT ![p].pc = "direct", ![p].req = req]
           /\ UNCHANGED accepted
        \/ /\ claim[i].state # "noResolver" /\ (ControlOwned(i) => ChannelFull(i))
           /\ accepted' = IF Matches(i, a) THEN Told(req, a) ELSE accepted
           /\ caller' = [caller EXCEPT ![p] = IdleCaller]
           /\ UNCHANGED claim
     /\ UNCHANGED <<setup, up, over, conns, dropped, cached, requested, open, applied, res>>

\* The answered request's options are dropped, whatever is cached by now.
forget(p) ==
  /\ caller[p].pc = "forget"
  /\ cached' = [cached EXCEPT ![caller[p].id] = 0]
  /\ caller' = [caller EXCEPT ![p] = IdleCaller]
  /\ UNCHANGED <<setup, up, over, conns, dropped, claim, requested, open, applied, accepted, res>>

\* beginDirectAnswer and the provider call.
CallDirectProvider(p) ==
  /\ caller[p].pc = "direct"
  /\ \/ /\ up /\ Takes(caller[p].req, caller[p].answer)
        /\ caller' = [caller EXCEPT ![p].pc = "write"]
        /\ UNCHANGED claim
     \/ /\ Refuses
        /\ claim' = Retried(caller[p].id)
        /\ caller' = [caller EXCEPT ![p] = IdleCaller]
  /\ UNCHANGED <<setup, up, over, conns, dropped, cached, requested, accepted, res>>

\* writeDirectAnswer: the canonical event, then the options and the claim in
\* one transaction; a failed write gives the claim back.
WriteDirectAnswer(p) ==
  LET i == caller[p].id
      a == caller[p].answer
  IN /\ caller[p].pc = "write"
     /\ \/ /\ cached' = [cached EXCEPT ![i] = 0]
           /\ claim' = Resolved(i, a)
           /\ accepted' = Told(caller[p].req, a)
        \/ /\ claim' = Retried(i)
           /\ UNCHANGED <<cached, accepted>>
     /\ caller' = [caller EXCEPT ![p] = IdleCaller]
     /\ UNCHANGED <<setup, up, over, conns, dropped, requested, open, applied, res>>

-----------------------------------------------------------------------------
(* The end of the run. *)

\* The context is cancelled, or the session loop returns and cancels it.
Cancel ==
  /\ up /\ up' = FALSE
  /\ over' \in {over, over \/ res.pc \notin {"prepare", "publish"}}
  /\ UNCHANGED <<setup, conns, dropped, claim, cached, requested, open, applied, accepted, res, caller>>

\* clearRuntimePermissionOptions, which teardown runs after the direct answers
\* it admitted have drained.  The resolver may still be running.
clearRuntimePermissionOptions ==
  /\ over /\ \A p \in Answerers : caller[p].pc \notin {"direct", "write"}
  /\ claim' = [i \in ReqIds |-> NoClaim]
  /\ cached' = [i \in ReqIds |-> 0]
  /\ UNCHANGED <<setup, up, over, conns, dropped, requested, open, applied, accepted, res, caller>>

ResolverStep ==
  \/ PreparePermissionClaim \/ PublishRequest \/ StartAutomatic \/ BeginPermissionClaim
  \/ StartFallback \/ ReceiveAnswer \/ ResolverGivesUp \/ FileHandle
  \/ ProviderAnswer \/ MarkPermissionClaimResolved \/ LeaveUnresolved

CallerStep(p) ==
  \/ DeliverPendingPermission(p) \/ forget(p) \/ CallDirectProvider(p) \/ WriteDirectAnswer(p)

PcNext ==
  \/ \E c \in Clients : Connect(c) \/ Disconnect(c) \/ signalClientDisconnect(c)
  \/ \E i \in ReqIds, needsUser \in BOOLEAN : Request(i, needsUser)
  \/ ResolverStep \/ FileAnswer
  \/ \E p \in Answerers : CallerStep(p)
  \/ \E p \in Answerers, i \in ReqIds : \E a \in Says[p] : AnswerPermission(p, i, a)
  \/ Cancel \/ clearRuntimePermissionOptions

PcSpec == PcInit /\ [][PcNext]_pcVars

\* The session loop and its resolver run, and so does the scan of a dropped
\* connection.
PcFairSpec ==
  /\ PcSpec
  /\ WF_pcVars(ResolverStep)
  /\ \A c \in Clients : WF_pcVars(signalClientDisconnect(c))

-----------------------------------------------------------------------------
(* Callers who were told that their answer was accepted agree, and agree   *)
(* with the answer the provider took: an answer on its way through the     *)
(* resolver, a direct delivery, a fallback that is stamped late and a      *)
(* reused request ID never let two different answers both be accepted, as  *)
(* long as the session runs (its claims are cleared when it is over).      *)
AcceptedAnswersAgree ==
  ~over => \A r \in Requests :
             /\ Cardinality(accepted[r]) <= 1
             /\ applied[r] # "none" => accepted[r] \subseteq {applied[r]}

(* An answer a caller was told was accepted is not lost: until the run is  *)
(* cancelled, the provider took it, or it is queued where the resolver     *)
(* looks, or the resolver has it in hand.  A disconnect, a claim timeout   *)
(* and a late stamp race it.                                               *)
AcceptedAnswerIsKept ==
  \A r \in Requests : accepted[r] # {} /\ up =>
    \/ applied[r] # "none"
    \/ \E i \in ReqIds : claim[i].req = r /\ ControlOwned(i) /\ claim[i].queue \in accepted[r]
    \/ res.req = r /\ res.pc = "answer" /\ res.hand \in accepted[r]

(* When the last client has left and nobody comes back, a request only a   *)
(* client could answer falls through to the file handler or to nobody,     *)
(* also when the client leaves between the choice of the resolver and the  *)
(* start of its wait.                                                      *)
NobodyLeftFallsThrough ==
  \A i \in ReqIds :
    (ControlOwned(i) /\ conns = {}) ~> (~ControlOwned(i) \/ res.pc = "answer" \/ HasClients)

(* signalClientDisconnect: "after all clients disconnect, the claim        *)
(* permanently falls through to fallback.  A reconnecting client cannot    *)
(* reclaim the claim."  Once nobody is connected, a claim a client owned   *)
(* falls through, whoever connects next.                                   *)
LeftClaimFallsThrough ==
  \A i \in ReqIds :
    (ControlOwned(i) /\ conns = {}) ~> (~ControlOwned(i) \/ res.pc = "answer")
=============================================================================
