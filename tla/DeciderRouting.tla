--------------------------- MODULE DeciderRouting ---------------------------
(***************************************************************************)
(* The permission router hands a pending request to a decider: a decider   *)
(* run it spawns, or a model call.  Both kinds have a concurrency cap of   *)
(* their own and the same accounting; this module is one of the two pools. *)
(*                                                                         *)
(* A request has two goroutines: the event fan-out that routes it first,   *)
(* and the worker that spawns or calls (with the teardown of the run it    *)
(* spawned).  Whoever frees a slot re-routes, one after another, what was  *)
(* blocked on the cap.  Every access to the router's maps, the cached      *)
(* options and the routed marks is a critical section of its own.          *)
(***************************************************************************)
EXTENDS Naturals, FiniteSets

CONSTANTS Asks,         \* permission requests, each with its runtime
          Cap,          \* maxConcurrentPermissionDeciders, maxConcurrentModelDeciders
          MaxFailures,  \* maxPermissionDeciderSpawnFailures
          MaxTroubled   \* bound on the requests whose decisions fail

ASSUME DeciderAssumption ==
  Cap \in Nat \ {0} /\ MaxFailures \in Nat \ {0} /\ MaxTroubled \in Nat

VARIABLES
  options,   \* requests whose options are cached: published and not yet answered
  settled,   \* requests whose claim is resolved
  marked,    \* routedPermissionRequests
  failures,  \* permissionDeciderFailures, by request
  inUse,     \* permDeciderActive, modelDeciderActive
  slots,     \* permDeciderSlots, modelDeciderSlots
  waiting,   \* permDeciderBlocked, modelDeciderBlocked
  had,       \* requests whose decider is done with them: answered, deferred or exhausted
  thread     \* the goroutines

drVars == <<options, settled, marked, failures, inUse, slots, waiting, had, thread>>

Event(r) == <<"event", r>>
Worker(r) == <<"worker", r>>
Threads == {"event", "worker"} \X Asks
\* cur is the request the goroutine works on, todo what it has left to re-route
\* and again whether it re-routes its own request last.
Asleep == [pc |-> "idle", cur |-> <<>>, todo |-> {}, again |-> FALSE]

DrInit ==
  /\ options = {} /\ settled = {} /\ marked = {}
  /\ failures = [r \in Asks |-> 0]
  /\ inUse = 0 /\ slots = {} /\ waiting = {} /\ had = {}
  /\ thread = [t \in Threads |-> Asleep]

\* A goroutine goes on to what it has left to re-route, or ends.
Onward(th) == IF th.todo = {} /\ ~th.again THEN Asleep ELSE [th EXCEPT !.pc = "next"]
Move(t, pc) ==
  thread' = [thread EXCEPT ![t] = IF pc = "next" THEN Onward(@) ELSE [@ EXCEPT !.pc = pc]]

-----------------------------------------------------------------------------
\* cachePermissionOptions: the options are stored, then the request is routed.
cachePermissionOptions(r) ==
  /\ thread[Event(r)].pc = "idle" /\ r \notin options \cup settled \cup marked
  /\ options' = options \cup {r}
  /\ thread' = [thread EXCEPT ![Event(r)] = [Asleep EXCEPT !.pc = "route", !.cur = <<r>>]]
  /\ UNCHANGED <<settled, marked, failures, inUse, slots, waiting, had>>

\* Mutant: a request that is already routed is routed again.
Routed_Never(r) == FALSE

Routed(r) == r \in marked

\* routeTarget: a request that is already routed is left alone.
routeTarget(t) ==
  LET r == thread[t].cur[1]
  IN /\ thread[t].pc = "route"
     /\ marked' = marked \cup {r}
     /\ Move(t, IF Routed(r) THEN "next" ELSE "acquire")
     /\ UNCHANGED <<options, settled, failures, inUse, slots, waiting, had>>

\* The worker of r starts; a worker that re-routed itself turns into it.
Started(t, r) ==
  [[thread EXCEPT ![t] = Onward(@)] EXCEPT
     ![Worker(r)] = [Asleep EXCEPT !.pc = "decide", !.cur = <<r>>]]

acquireSlot(t) ==
  LET r == thread[t].cur[1]
  IN /\ thread[t].pc = "acquire"
     /\ \/ /\ inUse < Cap
           /\ inUse' = inUse + 1 /\ slots' = slots \cup {r}
           /\ thread' = Started(t, r)
        \/ /\ inUse >= Cap
           /\ Move(t, "block")
           /\ UNCHANGED <<inUse, slots>>
     /\ UNCHANGED <<options, settled, marked, failures, waiting, had>>

\* The cap was full when it was looked at; this is a later critical section.
blockForRetry(t) ==
  /\ thread[t].pc = "block"
  /\ waiting' = waiting \cup {thread[t].cur[1]}
  /\ Move(t, "next")
  /\ UNCHANGED <<options, settled, marked, failures, inUse, slots, had>>

-----------------------------------------------------------------------------
(* The decision. *)

\* Mutant: the blocked requests are dropped rather than re-routed.
Woken_None == {}

Woken == waiting

\* The slot is given back, and all that was blocked is taken for re-routing.
ReleaseSlot(r, again) ==
  /\ inUse' = inUse - 1 /\ slots' = slots \ {r}
  /\ waiting' = {}
  /\ had' = IF again THEN had ELSE had \cup {r}
  /\ thread' = [thread EXCEPT ![Worker(r)] =
                  Onward([@ EXCEPT !.todo = Woken, !.again = again])]

\* A request resolved in the meantime, a defer and an exhausted call budget
\* release the slot and leave the request as it is.
DecideNothing(r) ==
  /\ thread[Worker(r)].pc = "decide"
  /\ ReleaseSlot(r, FALSE)
  /\ UNCHANGED <<options, settled, marked, failures>>

\* The decider run is spawned; it holds the slot until its teardown.
SpawnDecider(r) ==
  /\ thread[Worker(r)].pc = "decide" /\ r \notin settled
  /\ Move(Worker(r), "deciding")
  /\ UNCHANGED <<options, settled, marked, failures, inUse, slots, waiting, had>>

\* Mutant: the retry bound is off by one.
Exhausted_Late(n) == n > MaxFailures

Exhausted(n) == n >= MaxFailures

\* A failed spawn, a failed call or an unusable decision counts against the
\* bound and is routed again after its slot was released.
DecisionFails(r) ==
  /\ thread[Worker(r)].pc = "decide" /\ r \notin settled
  /\ failures[r] > 0 \/ Cardinality({q \in Asks : failures[q] > 0}) < MaxTroubled
  /\ failures' = [failures EXCEPT ![r] = @ + 1]
  /\ ReleaseSlot(r, ~Exhausted(failures'[r]))
  /\ UNCHANGED <<options, settled, marked>>

\* The decider, or a human, answers: the options go and the claim resolves.
Answer(r) ==
  /\ r \in options
  /\ options' = options \ {r} /\ settled' = settled \cup {r}
  /\ UNCHANGED <<marked, failures, inUse, slots, waiting, had, thread>>

\* The runtime that asked ends: its options and its claims are cleared.
RuntimeEnds(r) ==
  /\ r \in options
  /\ options' = options \ {r}
  /\ UNCHANGED <<settled, marked, failures, inUse, slots, waiting, had, thread>>

\* The decider's run is torn down, whether it answered or deferred.
DeciderEnds(r) ==
  /\ thread[Worker(r)].pc = "deciding"
  /\ ReleaseSlot(r, FALSE)
  /\ UNCHANGED <<options, settled, marked, failures>>

-----------------------------------------------------------------------------
\* The goroutine turns to the next request it has to re-route, its own last.
NextRetry(t) ==
  /\ thread[t].pc = "next"
  /\ \/ \E r \in thread[t].todo :
          thread' = [thread EXCEPT ![t] =
                       [@ EXCEPT !.pc = "retry", !.cur = <<r>>, !.todo = thread[t].todo \ {r}]]
     \/ /\ thread[t].todo = {} /\ thread[t].again
        /\ thread' = [thread EXCEPT ![t] = [@ EXCEPT !.pc = "retry", !.cur = <<t[2]>>, !.again = FALSE]]
  /\ UNCHANGED <<options, settled, marked, failures, inUse, slots, waiting, had>>

\* retryPermissionRequest: the mark is dropped, and the request routed again
\* if its options are still cached.
retryPermissionRequest(t) ==
  LET r == thread[t].cur[1]
  IN /\ thread[t].pc = "retry"
     /\ marked' = marked \ {r}
     /\ Move(t, IF r \in options THEN "route" ELSE "next")
     /\ UNCHANGED <<options, settled, failures, inUse, slots, waiting, had>>

ThreadStep(t) ==
  \/ routeTarget(t) \/ acquireSlot(t) \/ blockForRetry(t) \/ NextRetry(t)
  \/ retryPermissionRequest(t)
Decide(r) == DecideNothing(r) \/ SpawnDecider(r) \/ DecisionFails(r) \/ DeciderEnds(r)

DrNext ==
  \/ \E t \in Threads : ThreadStep(t)
  \/ \E r \in Asks : cachePermissionOptions(r) \/ Decide(r) \/ Answer(r) \/ RuntimeEnds(r)

DrSpec == DrInit /\ [][DrNext]_drVars

\* Goroutines run; a decider run and a model call end (both have timeouts).
DrFairSpec ==
  /\ DrSpec
  /\ \A t \in Threads : WF_drVars(ThreadStep(t))
  /\ \A r \in Asks : WF_drVars(Decide(r))

-----------------------------------------------------------------------------
DrTypeOK ==
  /\ options \subseteq Asks /\ settled \subseteq Asks \ options /\ marked \subseteq Asks
  /\ failures \in [Asks -> 0..MaxFailures]
  /\ inUse \in 0..Cap /\ slots \subseteq Asks /\ waiting \subseteq Asks
  /\ \A t \in Threads : thread[t].pc \in {"idle", "route", "acquire", "block", "decide",
                                          "deciding", "next", "retry"}

(* The counter that the cap is compared with is the number of slots held,  *)
(* each by a live decider: re-routing by whoever frees a slot never gives  *)
(* one request two deciders, nor leaks a slot.                             *)
SlotsAreDeciders ==
  /\ inUse = Cardinality(slots)
  /\ slots = {r \in Asks : thread[Worker(r)].pc \in {"decide", "deciding"}}

(* A pending request whose decider slot was refused is not forgotten: it   *)
(* is recorded as blocked, or some goroutine has it in hand or on its list,*)
(* until a decider had it.                                                 *)
RefusedIsRemembered ==
  \A r \in options \cap marked :
    \/ r \in slots \cup waiting
    \/ \E t \in Threads : \/ r \in thread[t].todo
                          \/ <<r>> = thread[t].cur /\ thread[t].pc # "next"
                          \/ t = Worker(r) /\ thread[t].again
    \/ r \in had

(* What the router says of a request refused at the cap: it stays pending  *)
(* only until capacity frees, because whoever frees a slot re-routes it.   *)
BlockedIsReRouted ==
  \A r \in Asks : r \in waiting \cap options ~> r \notin waiting \cap options
=============================================================================
