-------------------------- MODULE PermissionProofs --------------------------
(***************************************************************************)
(* Proofs about permissions: the decider slots of the router, for any set  *)
(* of requests, any cap and any bound on failures, and the claims of a     *)
(* run, for any clients, callers and request IDs.                          *)
(*                                                                         *)
(* Routing. A routed mark works as a lock on the request. Whoever sets it  *)
(* has the request in hand; from there the request is in exactly one       *)
(* place (in a goroutine's hand, on a goroutine's list, blocked, in a      *)
(* slot, or with the worker that will re-route it) until its retry drops   *)
(* the mark, or it is done with and stays marked for good.                 *)
(*                                                                         *)
(* Claims. A claim says where the answer of its request can be: in the     *)
(* channel, in the resolver's hand, at the provider or nowhere yet; and    *)
(* where the resolver is says which of these the claim may be in. One      *)
(* claim at a time is touched, so a step keeps the others (TouchKeeps).    *)
(***************************************************************************)
EXTENDS DeciderRouting, PermissionClaims, FiniteSetTheorems, TLAPS

-----------------------------------------------------------------------------
(***************************************************************************)
(* The decider slots.                                                      *)
(***************************************************************************)
\* Past the routed mark and not yet at a decider.
Hand(t, r) == thread[t].pc \in {"acquire", "block", "retry"} /\ thread[t].cur = <<r>>
\* Taken for re-routing.
List(t, r) == r \in thread[t].todo
\* To be re-routed by its own worker.
Again(r) == thread[Worker(r)].again
\* With a decider.
Slot(r) == thread[Worker(r)].pc \in {"decide", "deciding"}

Placed(r) ==
  r \in waiting \/ Again(r) \/ Slot(r) \/ \E t \in Threads : Hand(t, r) \/ List(t, r)

Goroutine ==
  [pc : {"idle", "route", "acquire", "block", "decide", "deciding", "next", "retry"},
   cur : {<<>>} \cup {<<r>> : r \in Asks}, todo : SUBSET Asks, again : BOOLEAN]

\* A goroutine is asleep, or has a request in hand, or goes on to the next one;
\* an event goroutine only ever has its own.
ThreadOK(t) ==
  /\ thread[t].pc = "idle" => thread[t] = Asleep
  /\ thread[t].pc # "idle" => thread[t].cur # <<>>
  /\ t[1] = "event" =>
       thread[t].todo = {} /\ ~thread[t].again /\ thread[t].cur \in {<<>>, <<t[2]>>}
  /\ thread[t].pc \in {"decide", "deciding"} =>
       thread[t].cur = <<t[2]>> /\ thread[t].todo = {} /\ ~thread[t].again

ThreadsOK == thread \in [Threads -> Goroutine] /\ \A t \in Threads : ThreadOK(t)

\* A request is in one place.
OnePlace ==
  \A r \in Asks :
    /\ \A t, u \in Threads : t # u => ~(Hand(t, r) /\ Hand(u, r)) /\ ~(List(t, r) /\ List(u, r))
    /\ \A t, u \in Threads : Hand(t, r) => ~List(u, r)
    /\ \A t \in Threads : Hand(t, r) \/ List(t, r) =>
         r \notin waiting /\ ~Again(r) /\ ~Slot(r)
    /\ r \in waiting => ~Again(r) /\ ~Slot(r)

\* A placed request is marked, and a marked one is placed or done with.
MarkIsLock ==
  /\ \A r \in Asks : Placed(r) => r \in marked
  /\ \A r \in marked : Placed(r) \/ r \in had

\* A worker that still has others to re-route is done with its own request,
\* or has that one left as its last.
Lingers(r) ==
  /\ thread[Worker(r)].pc \notin {"idle", "decide", "deciding"}
  /\ ~ (/\ thread[Worker(r)].cur = <<r>> /\ thread[Worker(r)].todo = {}
        /\ thread[Worker(r)].pc # "next")

LingeringIsDone ==
  \A r \in Asks : Lingers(r) =>
    /\ r \in marked /\ r \notin waiting
    /\ \A t \in Threads : ~Hand(t, r) /\ ~List(t, r)

\* A request whose failures are used up is not placed again.
ExhaustedIsDone ==
  \A r \in Asks : failures[r] = MaxFailures => r \in marked /\ ~Placed(r)

DrIInv ==
  /\ DrTypeOK /\ IsFiniteSet(slots) /\ SlotsAreDeciders
  /\ ThreadsOK /\ OnePlace /\ MarkIsLock /\ LingeringIsDone /\ ExhaustedIsDone

-----------------------------------------------------------------------------
(* Goroutines. *)

\* A request has an event goroutine and a worker of its own.
LEMMA ThreadNames ==
  /\ \A r \in Asks : Event(r) \in Threads /\ Worker(r) \in Threads
  /\ \A r \in Asks : Worker(r)[1] = "worker" /\ Worker(r)[2] = r
  /\ \A r, q \in Asks : Worker(r) = Worker(q) => r = q
  /\ \A r, q \in Asks : Event(r) # Worker(q)
  /\ \A t \in Threads : \E r \in Asks : t = Event(r) \/ t = Worker(r)
BY DEF Threads, Event, Worker

\* A goroutine with a request in hand or to route names it.
LEMMA CurOf ==
  ASSUME ThreadsOK, NEW t \in Threads, thread[t].pc # "idle"
  PROVE  /\ thread[t].cur[1] \in Asks
         /\ thread[t].cur = <<thread[t].cur[1]>>
<1>1. thread[t].cur \in {<<>>} \cup {<<r>> : r \in Asks} /\ thread[t].cur # <<>>
  BY DEF ThreadsOK, ThreadOK, Goroutine
<1>2. PICK r \in Asks : thread[t].cur = <<r>>
  BY <1>1
<1> QED
  BY <1>2

\* A goroutine that goes on keeps its list; one with nothing left falls asleep.
LEMMA OnwardFields ==
  ASSUME ThreadsOK, NEW t \in Threads
  PROVE  /\ Onward(thread[t]).todo = thread[t].todo
         /\ Onward(thread[t]).again = thread[t].again
         /\ Onward(thread[t]).pc =
              IF thread[t].todo = {} /\ ~thread[t].again THEN "idle" ELSE "next"
         /\ Onward(thread[t]).cur =
              IF thread[t].todo = {} /\ ~thread[t].again THEN <<>> ELSE thread[t].cur
         /\ Onward(thread[t]).pc = "idle" => Onward(thread[t]) = Asleep
         /\ Onward(thread[t]) \in Goroutine
<1>1. thread[t] \in Goroutine
  BY DEF ThreadsOK
<1> QED
  BY <1>1 DEF Onward, Asleep, Goroutine

\* Move changes one goroutine.
LEMMA MoveStep ==
  ASSUME ThreadsOK, NEW t \in Threads, thread[t].pc # "idle",
         NEW pc \in {"route", "acquire", "block", "deciding", "next"}, Move(t, pc)
  PROVE  /\ \A u \in Threads : u # t => thread'[u] = thread[u]
         /\ thread'[t].todo = thread[t].todo /\ thread'[t].again = thread[t].again
         /\ pc # "next" => thread'[t].pc = pc /\ thread'[t].cur = thread[t].cur
         /\ pc = "next" => thread'[t] = Onward(thread[t])
         /\ thread' \in [Threads -> Goroutine]
<1>1. thread[t] \in Goroutine
  BY DEF ThreadsOK
<1>2. CASE pc = "next"
  BY <1>2, OnwardFields DEF Move, ThreadsOK
<1>3. CASE pc # "next"
  BY <1>1, <1>3 DEF Move, ThreadsOK, Goroutine
<1> QED
  BY <1>2, <1>3

-----------------------------------------------------------------------------
\* A step that changes one goroutine keeps the others as they should be.
LEMMA OtherThreadsOK ==
  ASSUME ThreadsOK, thread' \in [Threads -> Goroutine], NEW t \in Threads,
         \A u \in Threads : u # t => thread'[u] = thread[u],
         ThreadOK(t)'
  PROVE  ThreadsOK'
<1>1. ASSUME NEW u \in Threads, u # t PROVE ThreadOK(u)'
  BY <1>1 DEF ThreadsOK, ThreadOK
<1> QED
  BY <1>1 DEF ThreadsOK

\* routeTarget: the mark decides who takes the request in hand.
LEMMA RouteIInv == ASSUME DrIInv, NEW t \in Threads, routeTarget(t) PROVE DrIInv'
<1> DEFINE r == thread[t].cur[1]
<1>0. ThreadsOK /\ thread[t].pc = "route"
  BY DEF DrIInv, routeTarget
<1>1. r \in Asks /\ thread[t].cur = <<r>>
  BY <1>0, CurOf
<1>2. /\ marked' = marked \cup {r}
      /\ UNCHANGED <<options, settled, failures, inUse, slots, waiting, had>>
      /\ Move(t, IF r \in marked THEN "next" ELSE "acquire")
  BY DEF routeTarget, Routed
<1>3. /\ \A u \in Threads : u # t => thread'[u] = thread[u]
      /\ thread'[t].todo = thread[t].todo /\ thread'[t].again = thread[t].again
      /\ r \notin marked => thread'[t].pc = "acquire" /\ thread'[t].cur = <<r>>
      /\ r \in marked => thread'[t] = Onward(thread[t])
      /\ thread' \in [Threads -> Goroutine]
  BY <1>0, <1>1, <1>2, MoveStep
<1> HIDE DEF r
<1>4. /\ r \in marked => thread'[t].pc \in {"idle", "next"}
      /\ r \in marked => thread'[t].cur \in {<<>>, <<r>>}
      /\ thread'[t].pc = "idle" => thread'[t] = Asleep
      /\ thread'[t].pc # "idle" => thread'[t].cur = <<r>>
      /\ thread'[t].pc = "idle" => thread[t].todo = {} /\ ~thread[t].again
  <2>1. CASE r \in marked
    BY <1>0, <1>1, <1>3, <2>1, OnwardFields
  <2>2. CASE r \notin marked
    BY <1>3, <2>2
  <2> QED
    BY <2>1, <2>2
<1>5. /\ \A q \in Asks : (Slot(q)' <=> Slot(q)) /\ (Again(q)' <=> Again(q))
      /\ \A u \in Threads, q \in Asks : List(u, q)' <=> List(u, q)
      /\ \A u \in Threads, q \in Asks :
           Hand(u, q)' <=> Hand(u, q) \/ (u = t /\ q = r /\ r \notin marked)
  BY <1>0, <1>1, <1>3, <1>4, ThreadNames DEF Slot, Again, List, Hand
<1>6. DrTypeOK'
  BY <1>1, <1>2, <1>3 DEF DrIInv, DrTypeOK, Goroutine
<1>7. IsFiniteSet(slots)' /\ SlotsAreDeciders'
  BY <1>2, <1>5 DEF DrIInv, SlotsAreDeciders, Slot
<1>8. ThreadsOK'
  <2>1. ThreadOK(t)'
    BY <1>0, <1>1, <1>3, <1>4 DEF ThreadsOK, ThreadOK
  <2> QED
    BY <1>0, <1>3, <2>1, OtherThreadsOK
<1>9. OnePlace'
  BY <1>1, <1>2, <1>5 DEF DrIInv, OnePlace, MarkIsLock, Placed
<1>10. MarkIsLock'
  BY <1>1, <1>2, <1>5 DEF DrIInv, DrTypeOK, MarkIsLock, Placed
<1>11. LingeringIsDone'
  <2> SUFFICES ASSUME NEW q \in Asks, Lingers(q)'
               PROVE  /\ q \in marked' /\ q \notin waiting'
                      /\ \A u \in Threads : ~Hand(u, q)' /\ ~List(u, q)'
    BY DEF LingeringIsDone
  <2>1. CASE Lingers(q)
    BY <1>2, <1>5, <2>1 DEF DrIInv, LingeringIsDone
  <2>2. CASE ~Lingers(q)
    <3>1. /\ Worker(q) = t /\ q = r /\ thread'[t].pc = "next" /\ thread[t].todo = {}
          /\ thread[t].again /\ r \in marked
      BY <1>0, <1>1, <1>3, <1>4, <2>2, ThreadNames, OnwardFields DEF Lingers
    <3> QED
      BY <1>2, <1>5, <3>1, ThreadNames DEF DrIInv, OnePlace, Again
  <2> QED
    BY <2>1, <2>2
<1>12. ExhaustedIsDone'
  BY <1>1, <1>2, <1>5 DEF DrIInv, ExhaustedIsDone, Placed
<1> QED
  BY <1>6, <1>7, <1>8, <1>9, <1>10, <1>11, <1>12 DEF DrIInv

\* acquireSlot at the cap: the goroutine keeps the request in hand.
LEMMA RefusedIInv ==
  ASSUME DrIInv, NEW t \in Threads, acquireSlot(t), inUse >= Cap
  PROVE  DrIInv'
<1>0. ThreadsOK /\ thread[t].pc = "acquire"
  BY DEF DrIInv, acquireSlot
<1>1. UNCHANGED <<options, settled, marked, failures, inUse, slots, waiting, had>>
      /\ Move(t, "block")
  BY DeciderAssumption DEF acquireSlot, DrIInv, DrTypeOK
<1>2. /\ \A u \in Threads : u # t => thread'[u] = thread[u]
      /\ thread'[t].todo = thread[t].todo /\ thread'[t].again = thread[t].again
      /\ thread'[t].pc = "block" /\ thread'[t].cur = thread[t].cur
      /\ thread' \in [Threads -> Goroutine]
  BY <1>0, <1>1, MoveStep
<1>3. /\ \A q \in Asks : (Slot(q)' <=> Slot(q)) /\ (Again(q)' <=> Again(q))
      /\ \A u \in Threads, q \in Asks : List(u, q)' <=> List(u, q)
      /\ \A u \in Threads, q \in Asks : Hand(u, q)' <=> Hand(u, q)
      /\ \A q \in Asks : Lingers(q)' <=> Lingers(q)
  BY <1>0, <1>2, ThreadNames DEF Slot, Again, List, Hand, Lingers
<1>4. ThreadsOK'
  <2>1. ThreadOK(t)'
    BY <1>0, <1>2 DEF ThreadsOK, ThreadOK
  <2> QED
    BY <1>0, <1>2, <2>1, OtherThreadsOK
<1>5. DrTypeOK' /\ IsFiniteSet(slots)' /\ SlotsAreDeciders'
  BY <1>1, <1>2, <1>3 DEF DrIInv, DrTypeOK, SlotsAreDeciders, Slot, Goroutine
<1>6. OnePlace' /\ MarkIsLock' /\ ExhaustedIsDone' /\ LingeringIsDone'
  BY <1>1, <1>3 DEF DrIInv, DrTypeOK, OnePlace, MarkIsLock, ExhaustedIsDone,
     LingeringIsDone, Placed
<1> QED
  BY <1>4, <1>5, <1>6 DEF DrIInv

\* acquireSlot below the cap: the request goes from the goroutine's hand to its
\* worker, which was asleep or about to find the request routed.
LEMMA GrantedIInv ==
  ASSUME DrIInv, NEW t \in Threads, acquireSlot(t), inUse < Cap
  PROVE  DrIInv'
<1> DEFINE r == thread[t].cur[1]
           w == Worker(r)
<1>0. ThreadsOK /\ thread[t].pc = "acquire"
  BY DEF DrIInv, acquireSlot
<1>1. r \in Asks /\ thread[t].cur = <<r>> /\ w \in Threads
  BY <1>0, CurOf, ThreadNames
<1>2. /\ inUse' = inUse + 1 /\ slots' = slots \cup {r} /\ thread' = Started(t, r)
      /\ UNCHANGED <<options, settled, marked, failures, waiting, had>>
  BY DeciderAssumption DEF acquireSlot, DrIInv, DrTypeOK
<1>3. /\ \A u \in Threads : u \notin {t, w} => thread'[u] = thread[u]
      /\ thread'[w] = [Asleep EXCEPT !.pc = "decide", !.cur = <<r>>]
      /\ t # w => thread'[t] = Onward(thread[t])
      /\ thread' \in [Threads -> Goroutine]
  <2>1. [Asleep EXCEPT !.pc = "decide", !.cur = <<r>>] \in Goroutine
    BY <1>1 DEF Asleep, Goroutine
  <2> QED
    BY <1>0, <1>1, <1>2, <2>1, OnwardFields DEF Started, ThreadsOK
<1>4. /\ thread'[w].pc = "decide" /\ thread'[w].cur = <<r>> /\ thread'[w].todo = {}
      /\ thread'[w].again = FALSE
  BY <1>3 DEF Asleep
<1> HIDE DEF r, w
<1>5. Hand(t, r)
  BY <1>0, <1>1 DEF Hand
<1>6. ~Lingers(r) /\ ~Again(r) /\ ~Slot(r) /\ r \notin slots
  BY <1>1, <1>5 DEF DrIInv, LingeringIsDone, OnePlace, SlotsAreDeciders, Slot
<1>7. thread[w].todo = {} /\ thread[w].again = FALSE
  BY <1>0, <1>1, <1>6 DEF Lingers, Again, Slot, w, ThreadsOK, ThreadOK, Asleep
<1>8. t # w => /\ thread'[t].pc \in {"idle", "next"} /\ thread'[t].todo = thread[t].todo
               /\ thread'[t].again = thread[t].again
  BY <1>0, <1>3, OnwardFields
<1>9. /\ \A q \in Asks : Slot(q)' <=> Slot(q) \/ q = r
      /\ \A q \in Asks : Again(q)' <=> Again(q)
      /\ \A u \in Threads, q \in Asks : List(u, q)' <=> List(u, q)
      /\ \A u \in Threads, q \in Asks : Hand(u, q)' => Hand(u, q) /\ u # t
      /\ \A u \in Threads, q \in Asks : Hand(u, q) => Hand(u, q)' \/ q = r
  <2>1. \A q \in Asks : (Slot(q)' <=> Slot(q) \/ q = r) /\ (Again(q)' <=> Again(q))
    <3> SUFFICES ASSUME NEW q \in Asks
                 PROVE  (Slot(q)' <=> Slot(q) \/ q = r) /\ (Again(q)' <=> Again(q))
      OBVIOUS
    <3>1. CASE q = r
      BY <1>1, <1>4, <1>7, <3>1 DEF Slot, Again, w
    <3>2. CASE q # r /\ Worker(q) = t
      BY <1>0, <1>1, <1>8, <3>2, ThreadNames DEF Slot, Again, w
    <3>3. CASE q # r /\ Worker(q) # t
      BY <1>1, <1>3, <3>3, ThreadNames DEF Slot, Again, w
    <3> QED
      BY <3>1, <3>2, <3>3
  <2>2. \A u \in Threads, q \in Asks : List(u, q)' <=> List(u, q)
    BY <1>1, <1>3, <1>4, <1>7, <1>8 DEF List
  <2>3. \A u \in Threads, q \in Asks : Hand(u, q)' => Hand(u, q) /\ u # t
    BY <1>1, <1>3, <1>4, <1>8 DEF Hand
  <2>4. \A q \in Asks : Hand(w, q) => q = r
    BY <1>0, <1>1, <1>6, ThreadNames DEF Hand, Lingers, w
  <2>5. \A u \in Threads, q \in Asks : Hand(u, q) => Hand(u, q)' \/ q = r
    BY <1>1, <1>3, <2>4 DEF Hand
  <2> QED
    BY <2>1, <2>2, <2>3, <2>5
<1>10. ThreadsOK'
  <2>1. ASSUME NEW u \in Threads PROVE ThreadOK(u)'
    <3>1. CASE u \notin {t, w}
      BY <1>0, <1>3, <3>1 DEF ThreadsOK, ThreadOK
    <3>2. CASE u = w
      BY <1>1, <1>4, <3>2, ThreadNames DEF ThreadOK, w
    <3>3. CASE u = t /\ t # w
      BY <1>0, <1>1, <1>3, <3>3, OnwardFields DEF ThreadsOK, ThreadOK
    <3> QED
      BY <3>1, <3>2, <3>3
  <2> QED
    BY <1>3, <2>1 DEF ThreadsOK
<1>11. DrTypeOK'
  BY <1>1, <1>2, <1>3, <1>4, <1>8, DeciderAssumption DEF DrIInv, DrTypeOK, Goroutine
<1>12. IsFiniteSet(slots)' /\ SlotsAreDeciders'
  <2>1. IsFiniteSet(slots') /\ Cardinality(slots') = Cardinality(slots) + 1
    BY <1>2, <1>6, FS_AddElement DEF DrIInv
  <2>2. slots' = {q \in Asks : Slot(q)'}
    BY <1>1, <1>2, <1>9 DEF DrIInv, SlotsAreDeciders, Slot
  <2> QED
    BY <1>2, <2>1, <2>2 DEF DrIInv, SlotsAreDeciders, Slot
<1>13. OnePlace'
  BY <1>1, <1>2, <1>5, <1>9 DEF DrIInv, OnePlace
<1>14. MarkIsLock' /\ ExhaustedIsDone'
  BY <1>1, <1>2, <1>5, <1>9 DEF DrIInv, DrTypeOK, MarkIsLock, ExhaustedIsDone, Placed
<1>15. LingeringIsDone'
  <2> SUFFICES ASSUME NEW q \in Asks, Lingers(q)'
               PROVE  /\ q \in marked' /\ q \notin waiting'
                      /\ \A u \in Threads : ~Hand(u, q)' /\ ~List(u, q)'
    BY DEF LingeringIsDone
  <2>1. q # r /\ Worker(q) # w
    BY <1>1, <1>4, ThreadNames DEF Lingers, w
  <2>2. Lingers(q)
    BY <1>0, <1>1, <1>3, <2>1, ThreadNames DEF Lingers
  <2> QED
    BY <1>2, <1>9, <2>2 DEF DrIInv, LingeringIsDone
<1> QED
  BY <1>10, <1>11, <1>12, <1>13, <1>14, <1>15 DEF DrIInv

\* blockForRetry: from the goroutine's hand to the blocked requests.
LEMMA BlockIInv == ASSUME DrIInv, NEW t \in Threads, blockForRetry(t) PROVE DrIInv'
<1> DEFINE r == thread[t].cur[1]
<1>0. ThreadsOK /\ thread[t].pc = "block"
  BY DEF DrIInv, blockForRetry
<1>1. r \in Asks /\ thread[t].cur = <<r>>
  BY <1>0, CurOf
<1>2. /\ waiting' = waiting \cup {r} /\ Move(t, "next")
      /\ UNCHANGED <<options, settled, marked, failures, inUse, slots, had>>
  BY DEF blockForRetry
<1>3. /\ \A u \in Threads : u # t => thread'[u] = thread[u]
      /\ thread'[t].todo = thread[t].todo /\ thread'[t].again = thread[t].again
      /\ thread'[t] = Onward(thread[t])
      /\ thread' \in [Threads -> Goroutine]
  BY <1>0, <1>2, MoveStep
<1> HIDE DEF r
<1>4. /\ thread'[t].pc \in {"idle", "next"}
      /\ thread'[t].pc = "idle" => thread'[t] = Asleep
      /\ thread'[t].pc # "idle" => thread'[t].cur = <<r>>
      /\ thread'[t].pc = "idle" <=> thread[t].todo = {} /\ ~thread[t].again
      /\ thread'[t].cur \in {<<>>, <<r>>}
  BY <1>0, <1>1, <1>3, OnwardFields
<1>5. Hand(t, r)
  BY <1>0, <1>1 DEF Hand
<1>6. /\ \A q \in Asks : (Slot(q)' <=> Slot(q)) /\ (Again(q)' <=> Again(q))
      /\ \A u \in Threads, q \in Asks : List(u, q)' <=> List(u, q)
      /\ \A u \in Threads, q \in Asks : Hand(u, q)' <=> Hand(u, q) /\ u # t
      /\ \A q \in Asks : Hand(t, q) => q = r
  BY <1>0, <1>1, <1>3, <1>4, ThreadNames DEF Slot, Again, List, Hand
<1>7. ThreadsOK'
  <2>1. ThreadOK(t)'
    BY <1>0, <1>1, <1>3, <1>4 DEF ThreadsOK, ThreadOK
  <2> QED
    BY <1>0, <1>3, <2>1, OtherThreadsOK
<1>8. DrTypeOK' /\ IsFiniteSet(slots)' /\ SlotsAreDeciders'
  BY <1>1, <1>2, <1>3, <1>6 DEF DrIInv, DrTypeOK, SlotsAreDeciders, Slot, Goroutine
<1>9. OnePlace'
  BY <1>1, <1>2, <1>5, <1>6 DEF DrIInv, OnePlace
<1>10. MarkIsLock' /\ ExhaustedIsDone'
  BY <1>1, <1>2, <1>5, <1>6 DEF DrIInv, DrTypeOK, MarkIsLock, ExhaustedIsDone, Placed
<1>11. LingeringIsDone'
  <2> SUFFICES ASSUME NEW q \in Asks, Lingers(q)'
               PROVE  /\ q \in marked' /\ q \notin waiting'
                      /\ \A u \in Threads : ~Hand(u, q)' /\ ~List(u, q)'
    BY DEF LingeringIsDone
  <2>1. Lingers(q)
    <3>1. CASE Worker(q) # t
      BY <1>3, <3>1, ThreadNames DEF Lingers
    <3>2. CASE Worker(q) = t
      <4>1. thread[t].todo # {} \/ thread[t].again
        BY <1>4, <3>2 DEF Lingers
      <4>2. q = r => ~thread[t].again
        BY <1>1, <1>5, <3>2 DEF DrIInv, OnePlace, Again
      <4> QED
        BY <1>0, <1>1, <3>2, <4>1, <4>2 DEF Lingers
    <3> QED
      BY <3>1, <3>2
  <2>2. q # r
    BY <1>1, <1>5, <2>1 DEF DrIInv, LingeringIsDone
  <2> QED
    BY <1>2, <1>6, <2>1, <2>2 DEF DrIInv, LingeringIsDone
<1> QED
  BY <1>7, <1>8, <1>9, <1>10, <1>11 DEF DrIInv

\* The goroutine takes the next request off its list, or its own in the end.
LEMMA NextRetryIInv == ASSUME DrIInv, NEW t \in Threads, NextRetry(t) PROVE DrIInv'
<1>0. ThreadsOK /\ thread[t].pc = "next" /\ thread[t] \in Goroutine
  BY DEF DrIInv, NextRetry, ThreadsOK
<1>1. UNCHANGED <<options, settled, marked, failures, inUse, slots, waiting, had>>
  BY DEF NextRetry
<1>2. t[1] # "event"
  BY <1>0 DEF NextRetry, ThreadsOK, ThreadOK
<1>3. t[2] \in Asks /\ t = Worker(t[2])
  BY <1>2 DEF Threads, Worker
<1>4. PICK r \in Asks :
        /\ \A u \in Threads : u # t => thread'[u] = thread[u]
        /\ thread' \in [Threads -> Goroutine]
        /\ thread'[t].pc = "retry" /\ thread'[t].cur = <<r>>
        /\ \/ /\ r \in thread[t].todo /\ thread'[t].todo = thread[t].todo \ {r}
              /\ thread'[t].again = thread[t].again
           \/ /\ r = t[2] /\ thread[t].todo = {} /\ thread'[t].todo = {}
              /\ thread[t].again /\ thread'[t].again = FALSE
  <2>1. ASSUME NEW r \in thread[t].todo,
               thread' = [thread EXCEPT ![t] =
                 [@ EXCEPT !.pc = "retry", !.cur = <<r>>, !.todo = thread[t].todo \ {r}]]
        PROVE  /\ r \in Asks /\ \A u \in Threads : u # t => thread'[u] = thread[u]
               /\ thread' \in [Threads -> Goroutine]
               /\ thread'[t].pc = "retry" /\ thread'[t].cur = <<r>>
               /\ thread'[t].todo = thread[t].todo \ {r}
               /\ thread'[t].again = thread[t].again
    <3> DEFINE th == [thread[t] EXCEPT !.pc = "retry", !.cur = <<r>>,
                                       !.todo = thread[t].todo \ {r}]
    <3>1. r \in Asks
      BY <1>0 DEF Goroutine
    <3>2. /\ th \in Goroutine /\ th.pc = "retry" /\ th.cur = <<r>>
          /\ th.todo = thread[t].todo \ {r} /\ th.again = thread[t].again
      BY <1>0, <3>1 DEF Goroutine
    <3>3. thread' = [thread EXCEPT ![t] = th]
      BY <2>1
    <3> HIDE DEF th
    <3> QED
      BY <1>0, <3>1, <3>2, <3>3 DEF ThreadsOK
  <2>2. ASSUME thread[t].todo = {}, thread[t].again,
               thread' = [thread EXCEPT ![t] =
                 [@ EXCEPT !.pc = "retry", !.cur = <<t[2]>>, !.again = FALSE]]
        PROVE  /\ \A u \in Threads : u # t => thread'[u] = thread[u]
               /\ thread' \in [Threads -> Goroutine]
               /\ thread'[t].pc = "retry" /\ thread'[t].cur = <<t[2]>>
               /\ thread'[t].todo = {} /\ thread'[t].again = FALSE
    BY <1>0, <1>3, <2>2 DEF ThreadsOK, Goroutine
  <2> QED
    BY <1>3, <2>1, <2>2 DEF NextRetry
<1>5. List(t, r) \/ (Again(r) /\ t = Worker(r) /\ thread[t].todo = {})
  BY <1>3, <1>4 DEF List, Again
<1>6. /\ \A q \in Asks : Slot(q)' <=> Slot(q)
      /\ \A q \in Asks : Again(q)' <=> Again(q) /\ (q # r \/ List(t, r))
      /\ \A u \in Threads, q \in Asks : List(u, q)' <=> List(u, q) /\ (u # t \/ q # r)
      /\ \A u \in Threads, q \in Asks : Hand(u, q)' <=> Hand(u, q) \/ (u = t /\ q = r)
  <2>1. \A q \in Asks : Slot(q)' <=> Slot(q)
    BY <1>0, <1>4, ThreadNames DEF Slot
  <2>2. \A q \in Asks : Again(q)' <=> Again(q) /\ (q # r \/ List(t, r))
    BY <1>3, <1>4, ThreadNames DEF Again, List
  <2>3. \A u \in Threads, q \in Asks : List(u, q)' <=> List(u, q) /\ (u # t \/ q # r)
    BY <1>4 DEF List
  <2>4. \A u \in Threads, q \in Asks : Hand(u, q)' <=> Hand(u, q) \/ (u = t /\ q = r)
    BY <1>0, <1>4 DEF Hand
  <2> QED
    BY <2>1, <2>2, <2>3, <2>4
<1>7. ThreadsOK'
  <2>1. ThreadOK(t)'
    BY <1>2, <1>4 DEF ThreadOK
  <2> QED
    BY <1>0, <1>4, <2>1, OtherThreadsOK
<1>8. DrTypeOK' /\ IsFiniteSet(slots)' /\ SlotsAreDeciders'
  BY <1>1, <1>4, <1>6 DEF DrIInv, DrTypeOK, SlotsAreDeciders, Slot, Goroutine
<1>9. OnePlace'
  <2>1. ASSUME NEW q \in Asks, q # r
        PROVE  /\ \A u \in Threads : (Hand(u, q)' <=> Hand(u, q)) /\ (List(u, q)' <=> List(u, q))
               /\ (Again(q)' <=> Again(q)) /\ (Slot(q)' <=> Slot(q))
    BY <1>6, <2>1
  <2>2. /\ \A u \in Threads : (Hand(u, r)' <=> u = t) /\ ~List(u, r)'
        /\ ~Again(r)' /\ ~Slot(r)' /\ r \notin waiting'
    BY <1>1, <1>5, <1>6 DEF DrIInv, OnePlace, ThreadsOK, ThreadOK, Slot, Again
  <2> QED
    BY <1>1, <2>1, <2>2 DEF DrIInv, OnePlace
<1>10. \A q \in Asks : Placed(q)' <=> Placed(q)
  BY <1>1, <1>5, <1>6 DEF Placed
<1>11. MarkIsLock' /\ ExhaustedIsDone'
  BY <1>1, <1>10 DEF DrIInv, DrTypeOK, MarkIsLock, ExhaustedIsDone
<1>12. LingeringIsDone'
  <2> SUFFICES ASSUME NEW q \in Asks, Lingers(q)'
               PROVE  /\ q \in marked' /\ q \notin waiting'
                      /\ \A u \in Threads : ~Hand(u, q)' /\ ~List(u, q)'
    BY DEF LingeringIsDone
  <2>1. Lingers(q)
    BY <1>0, <1>4, ThreadNames DEF Lingers
  <2>2. q # r
    <3>1. ~List(t, q)
      BY <2>1 DEF DrIInv, LingeringIsDone
    <3>2. q = r => ~Lingers(q)'
      BY <1>4, <1>5, <3>1 DEF Lingers
    <3> QED
      BY <3>2
  <2> QED
    BY <1>1, <1>6, <2>1, <2>2 DEF DrIInv, LingeringIsDone
<1> QED
  BY <1>7, <1>8, <1>9, <1>11, <1>12 DEF DrIInv

\* retryPermissionRequest gives the mark up before it routes again.
LEMMA RetryIInv ==
  ASSUME DrIInv, NEW t \in Threads, retryPermissionRequest(t)
  PROVE  DrIInv'
<1> DEFINE r == thread[t].cur[1]
<1>0. ThreadsOK /\ thread[t].pc = "retry"
  BY DEF DrIInv, retryPermissionRequest
<1>1. r \in Asks /\ thread[t].cur = <<r>>
  BY <1>0, CurOf
<1>2. /\ marked' = marked \ {r}
      /\ Move(t, IF r \in options THEN "route" ELSE "next")
      /\ UNCHANGED <<options, settled, failures, inUse, slots, waiting, had>>
  BY DEF retryPermissionRequest
<1>3. /\ \A u \in Threads : u # t => thread'[u] = thread[u]
      /\ thread'[t].todo = thread[t].todo /\ thread'[t].again = thread[t].again
      /\ r \in options => thread'[t].pc = "route" /\ thread'[t].cur = <<r>>
      /\ r \notin options => thread'[t] = Onward(thread[t])
      /\ thread' \in [Threads -> Goroutine]
  BY <1>0, <1>1, <1>2, MoveStep
<1> HIDE DEF r
<1>4. /\ thread'[t].pc \in {"route", "idle", "next"}
      /\ thread'[t].pc = "idle" => thread'[t] = Asleep
      /\ thread'[t].pc # "idle" => thread'[t].cur = <<r>>
      /\ thread'[t].pc = "idle" => thread[t].todo = {} /\ ~thread[t].again
      /\ thread'[t].pc = "next" => thread[t].todo # {} \/ thread[t].again
      /\ thread'[t].cur \in {<<>>, <<r>>}
  <2>1. CASE r \in options
    BY <1>3, <2>1
  <2>2. CASE r \notin options
    BY <1>0, <1>1, <1>3, <2>2, OnwardFields
  <2> QED
    BY <2>1, <2>2
<1>5. Hand(t, r)
  BY <1>0, <1>1 DEF Hand
<1>6. /\ \A q \in Asks : (Slot(q)' <=> Slot(q)) /\ (Again(q)' <=> Again(q))
      /\ \A u \in Threads, q \in Asks : List(u, q)' <=> List(u, q)
      /\ \A u \in Threads, q \in Asks : Hand(u, q)' <=> Hand(u, q) /\ u # t
      /\ \A q \in Asks : Hand(t, q) => q = r
  BY <1>0, <1>1, <1>3, <1>4, ThreadNames DEF Slot, Again, List, Hand
<1>7. ThreadsOK'
  <2>1. ThreadOK(t)'
    BY <1>0, <1>1, <1>3, <1>4 DEF ThreadsOK, ThreadOK
  <2> QED
    BY <1>0, <1>3, <2>1, OtherThreadsOK
<1>8. DrTypeOK' /\ IsFiniteSet(slots)' /\ SlotsAreDeciders'
  BY <1>1, <1>2, <1>3, <1>6 DEF DrIInv, DrTypeOK, SlotsAreDeciders, Slot, Goroutine
<1>9. OnePlace'
  BY <1>1, <1>2, <1>5, <1>6 DEF DrIInv, OnePlace
<1>10. \A q \in Asks : Placed(q)' <=> Placed(q) /\ q # r
  BY <1>1, <1>2, <1>5, <1>6 DEF DrIInv, OnePlace, Placed
<1>11. MarkIsLock' /\ ExhaustedIsDone'
  BY <1>1, <1>2, <1>5, <1>10 DEF DrIInv, DrTypeOK, MarkIsLock, ExhaustedIsDone, Placed
<1>12. LingeringIsDone'
  <2> SUFFICES ASSUME NEW q \in Asks, Lingers(q)'
               PROVE  /\ q \in marked' /\ q \notin waiting'
                      /\ \A u \in Threads : ~Hand(u, q)' /\ ~List(u, q)'
    BY DEF LingeringIsDone
  <2>1. Lingers(q)
    <3>1. CASE Worker(q) # t
      BY <1>3, <3>1, ThreadNames DEF Lingers
    <3>2. CASE Worker(q) = t
      <4>1. q = r => ~thread[t].again
        BY <1>1, <1>5, <3>2 DEF DrIInv, OnePlace, Again
      <4>2. q = r => thread[t].todo # {}
        BY <1>3, <1>4, <3>2, <4>1 DEF Lingers
      <4> QED
        BY <1>0, <1>1, <3>2, <4>2 DEF Lingers
    <3> QED
      BY <3>1, <3>2
  <2>2. q # r
    BY <1>1, <1>5, <2>1 DEF DrIInv, LingeringIsDone
  <2> QED
    BY <1>2, <1>6, <2>1, <2>2 DEF DrIInv, LingeringIsDone
<1> QED
  BY <1>7, <1>8, <1>9, <1>11, <1>12 DEF DrIInv

\* A slot is given back: the worker takes all that was blocked onto its list
\* and its own request last, or is done with it.
LEMMA ReleaseParts ==
  ASSUME DrIInv, NEW r \in Asks, Slot(r), NEW again \in BOOLEAN, ReleaseSlot(r, again),
         UNCHANGED <<options, settled, marked>>
  PROVE  /\ IsFiniteSet(slots)' /\ SlotsAreDeciders' /\ ThreadsOK' /\ OnePlace'
         /\ MarkIsLock' /\ LingeringIsDone'
         /\ \A q \in Asks : Placed(q)' <=> Placed(q) /\ (q # r \/ again)
         /\ inUse' \in 0..Cap /\ slots' \subseteq Asks /\ waiting' \subseteq Asks
         /\ \A t \in Threads : thread'[t].pc \in {"idle", "route", "acquire", "block", "decide",
                                                  "deciding", "next", "retry"}
<1> DEFINE w == Worker(r)
           th == Onward([thread[w] EXCEPT !.todo = waiting, !.again = again])
<1>0. ThreadsOK /\ w \in Threads /\ thread[w] \in Goroutine
  BY ThreadNames DEF DrIInv, ThreadsOK
<1>1. /\ inUse' = inUse - 1 /\ slots' = slots \ {r} /\ waiting' = {}
      /\ had' = IF again THEN had ELSE had \cup {r}
      /\ thread' = [thread EXCEPT ![w] = th]
  BY DEF ReleaseSlot, Woken
<1>2. thread[w].cur = <<r>> /\ thread[w].todo = {} /\ thread[w].again = FALSE
  BY <1>0, ThreadNames DEF Slot, ThreadsOK, ThreadOK, Goroutine
<1>3. /\ th \in Goroutine /\ th.todo = waiting /\ th.again = again
      /\ th.pc \in {"idle", "next"} /\ th.cur \in {<<>>, <<r>>}
      /\ th.pc = "idle" => th = Asleep
      /\ th.pc # "idle" => th.cur # <<>>
  <2>1. waiting \subseteq Asks
    BY DEF DrIInv, DrTypeOK
  <2> DEFINE th0 == [thread[w] EXCEPT !.todo = waiting, !.again = again]
  <2>2. /\ th0 \in Goroutine /\ th0.todo = waiting /\ th0.again = again /\ th0.cur = <<r>>
    BY <1>0, <1>2, <2>1 DEF Goroutine
  <2>3. th = Onward(th0)
    OBVIOUS
  <2> HIDE DEF th, th0
  <2>4. CASE waiting = {} /\ ~again
    BY <2>2, <2>3, <2>4 DEF Onward, Asleep, Goroutine
  <2>5. CASE ~(waiting = {} /\ ~again)
    <3>1. th = [th0 EXCEPT !.pc = "next"]
      BY <2>2, <2>3, <2>5 DEF Onward
    <3> QED
      BY <2>2, <3>1 DEF Goroutine
  <2> QED
    BY <2>4, <2>5
<1> HIDE DEF th
<1>4. /\ \A u \in Threads : u # w => thread'[u] = thread[u]
      /\ thread'[w] = th /\ thread' \in [Threads -> Goroutine]
  BY <1>0, <1>1, <1>3 DEF ThreadsOK
<1>5. /\ \A q \in Asks : Slot(q)' <=> Slot(q) /\ q # r
      /\ \A q \in Asks : Again(q)' <=> Again(q) \/ (q = r /\ again)
      /\ \A u \in Threads, q \in Asks : List(u, q)' <=> List(u, q) \/ (u = w /\ q \in waiting)
      /\ \A u \in Threads, q \in Asks : Hand(u, q)' <=> Hand(u, q)
  <2>1. \A q \in Asks : Slot(q)' <=> Slot(q) /\ q # r
    BY <1>3, <1>4, ThreadNames DEF Slot
  <2>2. \A q \in Asks : Again(q)' <=> Again(q) \/ (q = r /\ again)
    BY <1>2, <1>3, <1>4, ThreadNames DEF Again
  <2>3. \A u \in Threads, q \in Asks : List(u, q)' <=> List(u, q) \/ (u = w /\ q \in waiting)
    BY <1>2, <1>3, <1>4 DEF List
  <2>4. \A u \in Threads, q \in Asks : Hand(u, q)' <=> Hand(u, q)
    BY <1>3, <1>4 DEF Hand, Slot
  <2> QED
    BY <2>1, <2>2, <2>3, <2>4
<1>6. ThreadsOK'
  <2>1. ThreadOK(w)'
    BY <1>3, <1>4, ThreadNames DEF ThreadOK
  <2> QED
    BY <1>0, <1>4, <2>1, OtherThreadsOK
<1>7. IsFiniteSet(slots)' /\ SlotsAreDeciders' /\ inUse' \in 0..Cap
  <2>1. r \in slots
    BY DEF DrIInv, SlotsAreDeciders, Slot
  <2>2. IsFiniteSet(slots') /\ Cardinality(slots') = Cardinality(slots) - 1
    BY <1>1, <2>1, FS_RemoveElement DEF DrIInv
  <2>3. slots' = {q \in Asks : Slot(q)'}
    BY <1>1, <1>5 DEF DrIInv, SlotsAreDeciders, Slot
  <2>4. Cardinality(slots') \in Nat
    BY <2>2, FS_CardinalityType
  <2>5. inUse' = Cardinality(slots')
    BY <1>1, <2>2 DEF DrIInv, SlotsAreDeciders
  <2>6. inUse' \in 0..Cap
    BY <1>1, <2>4, <2>5, DeciderAssumption DEF DrIInv, DrTypeOK
  <2> QED
    BY <2>2, <2>3, <2>5, <2>6 DEF SlotsAreDeciders, Slot
<1>8. r \in marked /\ r \notin waiting /\ \A u \in Threads : ~Hand(u, r) /\ ~List(u, r)
  BY DEF DrIInv, OnePlace, MarkIsLock, Placed
<1>9. OnePlace'
  BY <1>0, <1>1, <1>5, <1>8 DEF DrIInv, OnePlace
<1>10. \A q \in Asks : Placed(q)' <=> Placed(q) /\ (q # r \/ again)
  <2>1. ~Again(r)
    BY <1>2 DEF Again
  <2> QED
    BY <1>0, <1>1, <1>5, <1>8, <2>1 DEF Placed
<1>11. MarkIsLock'
  BY <1>1, <1>10 DEF DrIInv, DrTypeOK, MarkIsLock
<1>12. LingeringIsDone'
  <2> SUFFICES ASSUME NEW q \in Asks, Lingers(q)'
               PROVE  /\ q \in marked' /\ q \notin waiting'
                      /\ \A u \in Threads : ~Hand(u, q)' /\ ~List(u, q)'
    BY DEF LingeringIsDone
  <2>1. CASE q = r
    BY <1>1, <1>5, <1>8, <2>1
  <2>2. CASE q # r
    <3>1. Lingers(q)
      BY <1>4, <2>2, ThreadNames DEF Lingers
    <3> QED
      BY <1>1, <1>5, <3>1 DEF DrIInv, LingeringIsDone
  <2> QED
    BY <2>1, <2>2
<1>13. /\ slots' \subseteq Asks /\ waiting' \subseteq Asks
       /\ \A t \in Threads : thread'[t].pc \in {"idle", "route", "acquire", "block", "decide",
                                                "deciding", "next", "retry"}
  BY <1>1, <1>4 DEF DrIInv, DrTypeOK, Goroutine
<1> QED
  BY <1>6, <1>7, <1>9, <1>10, <1>11, <1>12, <1>13

\* A defer, an exhausted budget, a request resolved meanwhile and the teardown
\* of a decider's run are done with the request.
LEMMA DoneIInv ==
  ASSUME DrIInv, NEW r \in Asks, DecideNothing(r) \/ DeciderEnds(r)
  PROVE  DrIInv'
<1>1. /\ Slot(r) /\ ReleaseSlot(r, FALSE)
      /\ UNCHANGED <<options, settled, marked, failures>>
  BY DEF DecideNothing, DeciderEnds, Slot
<1>2. \A q \in Asks : Placed(q)' <=> Placed(q) /\ q # r
  BY <1>1, ReleaseParts
<1>3. ExhaustedIsDone'
  BY <1>1, <1>2 DEF DrIInv, ExhaustedIsDone
<1>4. DrTypeOK'
  BY <1>1, ReleaseParts DEF DrIInv, DrTypeOK
<1> QED
  BY <1>1, <1>3, <1>4, ReleaseParts DEF DrIInv

\* A failed decision counts against the bound; the last one is done with.
LEMMA FailsIInv == ASSUME DrIInv, NEW r \in Asks, DecisionFails(r) PROVE DrIInv'
<1> DEFINE again == ~Exhausted(failures'[r])
<1>1. /\ Slot(r) /\ ReleaseSlot(r, again) /\ UNCHANGED <<options, settled, marked>>
      /\ failures' = [failures EXCEPT ![r] = @ + 1] /\ again \in BOOLEAN
  BY DEF DecisionFails, Slot, Exhausted
<1>2. Placed(r)
  BY <1>1 DEF Placed
<1>3. failures[r] \in 0..(MaxFailures - 1)
  BY <1>2, DeciderAssumption DEF DrIInv, DrTypeOK, ExhaustedIsDone
<1>4. failures' \in [Asks -> 0..MaxFailures] /\ failures'[r] = failures[r] + 1
  BY <1>1, <1>3, DeciderAssumption DEF DrIInv, DrTypeOK
<1>5. failures'[r] = MaxFailures => ~again
  BY <1>4, DeciderAssumption DEF Exhausted
<1> HIDE DEF again
<1>6. \A q \in Asks : Placed(q)' <=> Placed(q) /\ (q # r \/ again)
  BY <1>1, ReleaseParts
<1>7. ExhaustedIsDone'
  BY <1>1, <1>2, <1>5, <1>6 DEF DrIInv, DrTypeOK, ExhaustedIsDone, MarkIsLock
<1>8. DrTypeOK'
  BY <1>1, <1>4, ReleaseParts DEF DrIInv, DrTypeOK
<1> QED
  BY <1>1, <1>7, <1>8, ReleaseParts DEF DrIInv

\* The decider's run keeps the slot of the worker that spawned it.
LEMMA SpawnIInv == ASSUME DrIInv, NEW r \in Asks, SpawnDecider(r) PROVE DrIInv'
<1> DEFINE t == Worker(r)
<1>0. ThreadsOK /\ thread[t].pc = "decide" /\ t \in Threads
  BY ThreadNames DEF DrIInv, SpawnDecider
<1>1. UNCHANGED <<options, settled, marked, failures, inUse, slots, waiting, had>>
      /\ Move(t, "deciding")
  BY DEF SpawnDecider
<1>2. /\ \A u \in Threads : u # t => thread'[u] = thread[u]
      /\ thread'[t].todo = thread[t].todo /\ thread'[t].again = thread[t].again
      /\ thread'[t].pc = "deciding" /\ thread'[t].cur = thread[t].cur
      /\ thread' \in [Threads -> Goroutine]
  BY <1>0, <1>1, MoveStep
<1> HIDE DEF t
<1>3. /\ \A q \in Asks : (Slot(q)' <=> Slot(q)) /\ (Again(q)' <=> Again(q))
      /\ \A u \in Threads, q \in Asks : List(u, q)' <=> List(u, q)
      /\ \A u \in Threads, q \in Asks : Hand(u, q)' <=> Hand(u, q)
      /\ \A q \in Asks : Lingers(q)' <=> Lingers(q)
  BY <1>0, <1>2, ThreadNames DEF Slot, Again, List, Hand, Lingers
<1>4. ThreadsOK'
  <2>1. ThreadOK(t)'
    BY <1>0, <1>2 DEF ThreadsOK, ThreadOK
  <2> QED
    BY <1>0, <1>2, <2>1, OtherThreadsOK
<1>5. DrTypeOK' /\ IsFiniteSet(slots)' /\ SlotsAreDeciders'
  BY <1>1, <1>2, <1>3 DEF DrIInv, DrTypeOK, SlotsAreDeciders, Slot, Goroutine
<1>6. OnePlace' /\ MarkIsLock' /\ ExhaustedIsDone' /\ LingeringIsDone'
  BY <1>1, <1>3 DEF DrIInv, DrTypeOK, OnePlace, MarkIsLock, ExhaustedIsDone,
     LingeringIsDone, Placed
<1> QED
  BY <1>4, <1>5, <1>6 DEF DrIInv

\* A request is published: its event goroutine wakes up to route it.
LEMMA CacheIInv == ASSUME DrIInv, NEW r \in Asks, cachePermissionOptions(r) PROVE DrIInv'
<1> DEFINE t == Event(r)
<1>0. /\ ThreadsOK /\ thread[t].pc = "idle" /\ thread[t] = Asleep /\ t \in Threads
      /\ t[1] = "event" /\ t[2] = r
  BY ThreadNames DEF DrIInv, cachePermissionOptions, ThreadsOK, ThreadOK, Event
<1>1. /\ UNCHANGED <<settled, marked, failures, inUse, slots, waiting, had>>
      /\ options' = options \cup {r} /\ r \notin settled
  BY DEF cachePermissionOptions
<1>2. /\ \A u \in Threads : u # t => thread'[u] = thread[u]
      /\ thread'[t].todo = {} /\ thread'[t].again = FALSE
      /\ thread'[t].pc = "route" /\ thread'[t].cur = <<r>>
      /\ thread' \in [Threads -> Goroutine]
  <2>1. [Asleep EXCEPT !.pc = "route", !.cur = <<r>>] \in Goroutine
    BY DEF Asleep, Goroutine
  <2> QED
    BY <1>0, <2>1 DEF cachePermissionOptions, ThreadsOK, Asleep
<1>3. thread[t].todo = {} /\ thread[t].again = FALSE
  BY <1>0 DEF Asleep
<1>4. \A q \in Asks : t # Worker(q)
  BY ThreadNames
<1> HIDE DEF t
<1>5. /\ \A q \in Asks : (Slot(q)' <=> Slot(q)) /\ (Again(q)' <=> Again(q))
      /\ \A u \in Threads, q \in Asks : List(u, q)' <=> List(u, q)
      /\ \A u \in Threads, q \in Asks : Hand(u, q)' <=> Hand(u, q)
      /\ \A q \in Asks : Lingers(q)' <=> Lingers(q)
  BY <1>0, <1>2, <1>3, <1>4, ThreadNames DEF Slot, Again, List, Hand, Lingers
<1>6. ThreadsOK'
  <2>1. ThreadOK(t)'
    BY <1>0, <1>2 DEF ThreadOK
  <2> QED
    BY <1>0, <1>2, <2>1, OtherThreadsOK
<1>7. DrTypeOK' /\ IsFiniteSet(slots)' /\ SlotsAreDeciders'
  BY <1>1, <1>2, <1>5 DEF DrIInv, DrTypeOK, SlotsAreDeciders, Slot, Goroutine
<1>8. OnePlace' /\ MarkIsLock' /\ ExhaustedIsDone' /\ LingeringIsDone'
  BY <1>1, <1>5 DEF DrIInv, DrTypeOK, OnePlace, MarkIsLock, ExhaustedIsDone,
     LingeringIsDone, Placed
<1> QED
  BY <1>6, <1>7, <1>8 DEF DrIInv

\* A step that touches neither marks, slots nor goroutines.
LEMMA Aside ==
  ASSUME DrIInv, DrTypeOK',
         UNCHANGED <<marked, failures, inUse, slots, waiting, had, thread>>
  PROVE  DrIInv'
<1>1. /\ \A q \in Asks : (Slot(q)' <=> Slot(q)) /\ (Again(q)' <=> Again(q))
      /\ \A u \in Threads, q \in Asks : List(u, q)' <=> List(u, q)
      /\ \A u \in Threads, q \in Asks : Hand(u, q)' <=> Hand(u, q)
      /\ \A q \in Asks : Lingers(q)' <=> Lingers(q)
  BY DEF Slot, Again, List, Hand, Lingers
<1>2. ThreadsOK' /\ IsFiniteSet(slots)' /\ SlotsAreDeciders'
  BY DEF DrIInv, ThreadsOK, ThreadOK, SlotsAreDeciders
<1>3. OnePlace' /\ MarkIsLock' /\ ExhaustedIsDone' /\ LingeringIsDone'
  BY <1>1 DEF DrIInv, DrTypeOK, OnePlace, MarkIsLock, ExhaustedIsDone,
     LingeringIsDone, Placed
<1> QED
  BY <1>2, <1>3 DEF DrIInv

\* An answer and the end of a runtime touch neither goroutines nor slots.
LEMMA LeaveIInv ==
  ASSUME DrIInv, NEW r \in Asks, Answer(r) \/ RuntimeEnds(r)
  PROVE  DrIInv'
<1>1. UNCHANGED <<marked, failures, inUse, slots, waiting, had, thread>>
  BY DEF Answer, RuntimeEnds
<1>2. DrTypeOK'
  BY DEF Answer, RuntimeEnds, DrIInv, DrTypeOK
<1> QED
  BY <1>1, <1>2, Aside

-----------------------------------------------------------------------------
\* No request, no slot, every goroutine asleep.
LEMMA DrInitIInv == DrInit => DrIInv
<1> SUFFICES ASSUME DrInit PROVE DrIInv
  OBVIOUS
<1>1. \A t \in Threads : thread[t] = Asleep
  BY DEF DrInit
<1>2. \A r \in Asks : ~Placed(r) /\ ~Slot(r) /\ ~Again(r) /\ ~Lingers(r)
  BY <1>1, ThreadNames DEF DrInit, Placed, Slot, Again, Hand, List, Lingers, Asleep
<1>3. Asleep \in Goroutine
  BY DEF Asleep, Goroutine
<1>4. ThreadsOK
  BY <1>1, <1>3 DEF DrInit, ThreadsOK, ThreadOK, Asleep
<1>5. DrTypeOK
  BY <1>1, DeciderAssumption DEF DrInit, DrTypeOK, Asleep
<1>6. IsFiniteSet(slots) /\ SlotsAreDeciders
  BY <1>2, FS_EmptySet DEF DrInit, SlotsAreDeciders, Slot
<1>7. OnePlace /\ MarkIsLock /\ LingeringIsDone /\ ExhaustedIsDone
  BY <1>2, DeciderAssumption DEF DrInit, OnePlace, MarkIsLock, LingeringIsDone,
     ExhaustedIsDone, Placed
<1> QED
  BY <1>4, <1>5, <1>6, <1>7 DEF DrIInv

\* Every step of a goroutine of the router keeps the inductive invariant.
LEMMA DrNextIInv == DrIInv /\ [DrNext]_drVars => DrIInv'
<1> SUFFICES ASSUME DrIInv, [DrNext]_drVars PROVE DrIInv'
  OBVIOUS
<1>1. CASE UNCHANGED drVars
  BY <1>1, Aside DEF drVars, DrIInv, DrTypeOK
<1>2. ASSUME NEW t \in Threads, acquireSlot(t) PROVE DrIInv'
  BY <1>2, RefusedIInv, GrantedIInv, DeciderAssumption DEF acquireSlot
<1>3. ASSUME NEW t \in Threads, ThreadStep(t) PROVE DrIInv'
  BY <1>2, <1>3, RouteIInv, BlockIInv, NextRetryIInv, RetryIInv DEF ThreadStep
<1>4. ASSUME NEW r \in Asks, Decide(r) PROVE DrIInv'
  BY <1>4, DoneIInv, SpawnIInv, FailsIInv DEF Decide
<1> QED
  BY <1>1, <1>3, <1>4, CacheIInv, LeaveIInv DEF DrNext

\* The router keeps its inductive invariant.
THEOREM DecidersInductive == DrSpec => []DrIInv
<1> QED
  BY DrInitIInv, DrNextIInv, PTL DEF DrSpec

\* permDeciderActive is the number of slots, and a slot is a live decider: no
\* request gets two deciders and no slot leaks, for any number of requests
\* re-routed by any number of goroutines.
THEOREM SlotsNeverLeak == DrSpec => []SlotsAreDeciders
<1>1. DrIInv => SlotsAreDeciders
  BY DEF DrIInv
<1> QED
  BY <1>1, DecidersInductive, PTL

\* A pending request that was refused at the cap is blocked, on some
\* goroutine's list or in its hand until a decider had it.
THEOREM RefusedNeverForgotten == DrSpec => []RefusedIsRemembered
<1>1. DrIInv => RefusedIsRemembered
  <2> SUFFICES ASSUME DrIInv, NEW r \in options \cap marked
               PROVE  \/ r \in slots \cup waiting
                      \/ \E t \in Threads : \/ r \in thread[t].todo
                                            \/ <<r>> = thread[t].cur /\ thread[t].pc # "next"
                                            \/ t = Worker(r) /\ thread[t].again
                      \/ r \in had
    BY DEF RefusedIsRemembered
  <2>1. r \in Asks /\ (Placed(r) \/ r \in had)
    BY DEF DrIInv, DrTypeOK, MarkIsLock
  <2> QED
    BY <2>1, ThreadNames DEF DrIInv, SlotsAreDeciders, Placed, Slot, Again, Hand, List
<1> QED
  BY <1>1, DecidersInductive, PTL

-----------------------------------------------------------------------------
(***************************************************************************)
(* The invariant, for a session that is not over.                          *)
(***************************************************************************)
ClaimStates ==
  {"unknown", "reserved", "control", "automatic", "file", "noResolver", "directDelivery", "resolved"}
Claims ==
  [state : ClaimStates, req : Nat, queue : Answers \cup {"none"}, queued : BOOLEAN,
   gone : BOOLEAN, resolution : Answers \cup {"", "none"}]
Resolvers ==
  [pc : {"free", "prepare", "publish", "start", "wait", "file", "filing", "answer", "mark",
         "noResolver"},
   id : ReqIds \cup {"none"}, req : Nat,
   state : {"unknown", "automatic", "reserved", "file", "noResolver"},
   hand : Answers \cup {"", "none"}]
CallerStates ==
  [pc : {"idle", "deliver", "forget", "direct", "write"}, id : ReqIds \cup {"none"},
   answer : Answers \cup {"none"}, req : Nat]

PcTyped ==
  /\ requested \in 0..MaxRequests
  /\ open \subseteq 1..requested
  /\ applied \in [Requests -> Answers \cup {"", "none"}]
  /\ accepted \in [Requests -> SUBSET Answers]
  /\ claim \in [ReqIds -> Claims] /\ res \in Resolvers
  /\ caller \in [Answerers -> CallerStates]

\* The callers who were told yes agree with what the provider took, if anything.
Sound(r) == accepted[r] \subseteq {applied[r]}

\* The resolver is on its way to the provider with the answer of a request.
InHand(i) == res.id = i /\ res.pc \in {"answer", "mark"}

\* A request ID names one request, and a request has one ID.
ClaimNamed(i) ==
  /\ claim[i].state = "unknown" <=> claim[i].req = 0
  /\ claim[i].req <= requested
  /\ \A j \in ReqIds \ {i} : claim[i].req # 0 => claim[j].req # claim[i].req

\* A claim that control owns: the answer is in the channel, in the resolver's
\* hand, or not there.
ControlOK(i) ==
  LET r == claim[i].req
  IN ControlOwned(i) =>
       /\ ~claim[i].queued => claim[i].queue = "none" /\ accepted[r] = {}
       /\ claim[i].queued /\ claim[i].queue # "none" => accepted[r] = {claim[i].queue}
       /\ claim[i].queued /\ claim[i].queue = "none" => InHand(i) /\ accepted[r] = {res.hand}
       /\ applied[r] # "none" => res.id = i /\ res.pc = "mark"

\* Any other claim: nobody was told yes before the request was resolved.
OtherOK(i) ==
  LET r == claim[i].req
  IN /\ ~ControlOwned(i) => claim[i].queue = "none"
     /\ claim[i].state \in {"automatic", "file", "noResolver", "directDelivery"} => accepted[r] = {}
     /\ claim[i].state = "resolved" => claim[i].resolution = applied[r] /\ Sound(r)

\* Where the resolver is decides the state of its claim, except that a direct
\* answer may overtake the stamp of a resolver that leaves the request to nobody.
Direct == {"noResolver", "directDelivery", "resolved"}
ResolverAt ==
  LET c == claim[res.id]
  IN /\ res.pc \in {"publish", "start"} =>
          /\ res.state = "noResolver" => c.state \in Direct /\ ~setup.files
          /\ res.state # "noResolver" => c.state = res.state
          /\ res.state = "file" => setup.files
     /\ res.pc = "wait" => c.state = "control"
     /\ res.pc \in {"file", "filing"} => c.state = "file"
     /\ res.pc = "noResolver" => c.state \in Direct
     /\ res.pc \in {"answer", "mark"} =>
          /\ c.state \in {"automatic", "control", "file"}
          /\ c.state = "control" => c.queued /\ c.queue = "none"
     /\ res.pc = "mark" => applied[res.req] = res.hand

Claimed(r) == \E i \in ReqIds : claim[i].req = r

ResolverOK ==
  /\ res.pc # "free" => res.id \in ReqIds /\ res.req \in 1..requested /\ res.state # "unknown"
  /\ res.pc = "prepare" =>
       /\ ~Claimed(res.req) /\ accepted[res.req] = {} /\ applied[res.req] = "none"
       /\ res.state = "file" => setup.files
       /\ res.state = "noResolver" => ~setup.files
  /\ res.pc \notin {"free", "prepare"} => claim[res.id].req = res.req /\ ResolverAt

Busy(p) == caller[p].pc \in {"direct", "write"}
CallerOK(p) ==
  LET k == caller[p]
  IN /\ k.pc # "idle" => k.id \in ReqIds /\ k.answer \in Answers
     /\ Busy(p) => claim[k.id].state = "directDelivery" /\ claim[k.id].req = k.req
     /\ k.pc = "write" => applied[k.req] = k.answer
CallersApart == \A p, q \in Answerers : p # q /\ Busy(p) /\ Busy(q) => caller[p].id # caller[q].id

\* A request without a claim: it is not requested yet, or whoever was told yes about
\* it agrees with the provider.
RequestOK(r) ==
  /\ r > requested => accepted[r] = {} /\ applied[r] = "none"
  /\ ~Claimed(r) => Sound(r)
  /\ r \in open => applied[r] = "none"

Running ==
  /\ PcTyped /\ ResolverOK
  /\ \A i \in ReqIds : ClaimNamed(i) /\ ControlOK(i) /\ OtherOK(i)
  /\ CallersApart /\ \A p \in Answerers : CallerOK(p)
  /\ \A r \in Requests : RequestOK(r)

PcIInv == (over => ~up) /\ (over \in BOOLEAN) /\ (~over => Running)

-----------------------------------------------------------------------------
(***************************************************************************)
(* A step about one claim.                                                 *)
(***************************************************************************)
LEMMA Counted ==
  ASSUME PcTyped
  PROVE  /\ requested \in Nat /\ requested <= MaxRequests
         /\ \A n \in 1..requested : n \in Requests /\ n # 0
         /\ \A n \in Nat : n # 0 /\ n <= requested => n \in Requests
         /\ \A s \in Requests : s <= requested => ~(s > requested)
<1>1. MaxRequests \in Nat /\ requested \in 0..MaxRequests
  BY ClaimAssumption DEF PcTyped
<1>. QED  BY <1>1 DEF Requests

LEMMA ClaimFacts ==
  ASSUME Running, NEW i \in ReqIds
  PROVE  /\ claim[i] \in Claims /\ claim[i].state \in ClaimStates /\ claim[i].req \in Nat
         /\ claim[i].queue \in Answers \cup {"none"} /\ claim[i].queued \in BOOLEAN
         /\ ClaimNamed(i) /\ ControlOK(i) /\ OtherOK(i)
         /\ claim[i].state # "unknown" => claim[i].req \in Requests /\ claim[i].req # 0
<1>1. claim[i] \in Claims /\ ClaimNamed(i) /\ ControlOK(i) /\ OtherOK(i) /\ requested \in 0..MaxRequests
  BY DEF Running, PcTyped
<1>2. /\ claim[i].state \in ClaimStates /\ claim[i].req \in Nat
      /\ claim[i].queue \in Answers \cup {"none"} /\ claim[i].queued \in BOOLEAN
  BY <1>1 DEF Claims
<1>3. claim[i].state # "unknown" => claim[i].req \in Requests /\ claim[i].req # 0
  <2>1. claim[i].state # "unknown" => claim[i].req # 0 /\ claim[i].req <= requested
    BY <1>1 DEF ClaimNamed
  <2>. QED  BY <1>2, <2>1, Counted DEF Running
<1>. QED  BY <1>1, <1>2, <1>3

LEMMA ResolverFacts ==
  ASSUME Running, res.pc # "free"
  PROVE  /\ res \in Resolvers /\ res.id \in ReqIds /\ res.req \in Requests /\ res.state # "unknown"
         /\ res.pc # "prepare" =>
              /\ claim[res.id].req = res.req /\ claim[res.id].state # "unknown"
              /\ ResolverAt
         /\ res.pc = "prepare" =>
              /\ ~Claimed(res.req) /\ accepted[res.req] = {} /\ applied[res.req] = "none"
              /\ res.state = "file" => setup.files
              /\ res.state = "noResolver" => ~setup.files
<1>1. res \in Resolvers /\ res.id \in ReqIds /\ res.req \in 1..requested /\ requested \in 0..MaxRequests
      /\ res.state # "unknown"
  BY DEF Running, PcTyped, ResolverOK
<1>2. res.req \in Requests /\ res.req # 0
  BY <1>1, Counted DEF Running
<1>3. res.pc # "prepare" => claim[res.id].req = res.req /\ ResolverAt
  BY DEF Running, ResolverOK
<1>4. res.pc # "prepare" => claim[res.id].state # "unknown"
  BY <1>1, <1>2, <1>3, ClaimFacts DEF ClaimNamed
<1>. QED  BY <1>1, <1>2, <1>3, <1>4 DEF Running, ResolverOK

LEMMA CallerFacts ==
  ASSUME Running, NEW p \in Answerers
  PROVE  /\ caller[p] \in CallerStates
         /\ caller[p].pc # "idle" => caller[p].id \in ReqIds /\ caller[p].answer \in Answers
         /\ Busy(p) => /\ claim[caller[p].id].state = "directDelivery"
                       /\ claim[caller[p].id].req = caller[p].req
         /\ caller[p].pc = "write" => applied[caller[p].req] = caller[p].answer
BY DEF Running, PcTyped, CallerOK

\* The step is about claim i and its request, and leaves the others alone.
Touches(i) ==
  /\ claim[i].state # "unknown"
  /\ \A j \in ReqIds \ {i} : claim'[j] = claim[j]
  /\ claim'[i].req = claim[i].req /\ claim'[i].state # "unknown"
  /\ \A s \in Requests \ {claim[i].req} : accepted'[s] = accepted[s] /\ applied'[s] = applied[s]
  /\ requested' = requested /\ setup' = setup
  /\ open' \subseteq open
  /\ claim[i].req \in open' => applied'[claim[i].req] = "none"
  /\ \/ res' = res
     \/ /\ res.id = i /\ res.pc \notin {"free", "prepare"}
        /\ res'.pc = "free" \/ (res'.id = i /\ res'.pc # "prepare" /\ res'.req = res.req
                                            /\ res'.state = res.state)

LEMMA OthersKept ==
  ASSUME Running, NEW i \in ReqIds, Touches(i), NEW j \in ReqIds, j # i
  PROVE  ClaimNamed(j)' /\ ControlOK(j)' /\ OtherOK(j)'
<1>1. /\ claim'[j] = claim[j] /\ claim'[i].req = claim[i].req /\ requested' = requested
      /\ \A k \in ReqIds : claim'[k].req = claim[k].req
  BY DEF Touches
<1>2. ClaimNamed(j)'
  BY <1>1, ClaimFacts DEF ClaimNamed
<1>3. /\ claim[i].req # 0 /\ claim[i].req # claim[j].req
      /\ claim[j].state # "unknown" => claim[j].req \in Requests \ {claim[i].req}
  BY ClaimFacts DEF ClaimNamed, Touches
<1>4. claim[j].state # "unknown" => /\ accepted'[claim[j].req] = accepted[claim[j].req]
                                    /\ applied'[claim[j].req] = applied[claim[j].req]
  BY <1>3 DEF Touches
<1>5. (res.id = j /\ res.pc \in {"answer", "mark"}) => res' = res
  BY DEF Touches
<1>6. ControlOK(j)'
  BY <1>1, <1>4, <1>5, ClaimFacts DEF ControlOK, ControlOwned, InHand
<1>7. OtherOK(j)'
  BY <1>1, <1>4, ClaimFacts DEF OtherOK, ControlOwned, Sound
<1>. QED  BY <1>2, <1>6, <1>7

LEMMA RequestsKept ==
  ASSUME Running, NEW i \in ReqIds, Touches(i), NEW s \in Requests
  PROVE  RequestOK(s)'
<1>1. requested' = requested /\ open' \subseteq open /\ \A k \in ReqIds : claim'[k].req = claim[k].req
  BY DEF Touches
<1>2. Claimed(s)' <=> Claimed(s)
  BY <1>1 DEF Claimed
<1>3. CASE s # claim[i].req
  <2>1. accepted'[s] = accepted[s] /\ applied'[s] = applied[s]
    BY <1>3 DEF Touches
  <2>. QED  BY <1>1, <1>2, <2>1 DEF RequestOK, Sound, Running
<1>4. CASE s = claim[i].req
  <2>1. Claimed(s) /\ s <= requested
    BY <1>4, ClaimFacts DEF Claimed, ClaimNamed
  <2>2. s \in open' => applied'[s] = "none"
    BY <1>4 DEF Touches
  <2>3. ~(s > requested)
    BY <2>1, Counted DEF Running
  <2>. QED  BY <1>1, <1>2, <2>1, <2>2, <2>3 DEF RequestOK
<1>. QED  BY <1>3, <1>4

\* A caller that is not about the claim, or still has it, is left alone.
LEMMA CallerKept ==
  ASSUME Running, NEW i \in ReqIds, Touches(i), NEW p \in Answerers, caller'[p] = caller[p],
         Busy(p) /\ caller[p].id = i =>
            claim'[i].state = "directDelivery" /\ applied' = applied
  PROVE  CallerOK(p)'
<1>1. caller[p].pc # "idle" => caller[p].id \in ReqIds /\ caller[p].answer \in Answers
  BY CallerFacts
<1>2. ASSUME Busy(p)
      PROVE  /\ claim'[caller[p].id].state = "directDelivery"
             /\ claim'[caller[p].id].req = caller[p].req
             /\ applied'[caller[p].req] = applied[caller[p].req]
  <2>1. /\ caller[p].id \in ReqIds /\ claim[caller[p].id].state = "directDelivery"
        /\ claim[caller[p].id].req = caller[p].req
    BY <1>2, CallerFacts DEF Busy
  <2>2. CASE caller[p].id = i
    BY <1>2, <2>1, <2>2 DEF Touches
  <2>3. CASE caller[p].id # i
    <3>1. caller[p].req \in Requests \ {claim[i].req}
      BY <2>1, <2>3, ClaimFacts DEF ClaimNamed
    <3>. QED  BY <2>1, <2>3, <3>1 DEF Touches
  <2>. QED  BY <2>2, <2>3
<1>. QED  BY <1>1, <1>2, CallerFacts DEF CallerOK, Busy

\* The resolver of another claim, or none, is left alone.
LEMMA ResolverKept ==
  ASSUME Running, NEW i \in ReqIds, Touches(i), res' = res,
         res.pc \in {"free", "prepare"} \/ res.id # i
  PROVE  ResolverOK'
<1>1. res.pc # "free" => res.id \in ReqIds /\ res.req \in 1..requested /\ res.state # "unknown"
  BY DEF Running, ResolverOK
<1>2. requested' = requested /\ setup' = setup /\ \A k \in ReqIds : claim'[k].req = claim[k].req
  BY DEF Touches
<1>3. CASE res.pc = "prepare"
  <2>1. ~Claimed(res.req) /\ res.req \in Requests
    BY <1>3, ResolverFacts
  <2>2. res.req # claim[i].req
    BY <2>1 DEF Claimed
  <2>3. accepted'[res.req] = accepted[res.req] /\ applied'[res.req] = applied[res.req]
    BY <2>1, <2>2 DEF Touches
  <2>4. ~Claimed(res.req)'
    BY <1>2, <2>1 DEF Claimed
  <2>. QED  BY <1>1, <1>2, <1>3, <2>3, <2>4, ResolverFacts DEF ResolverOK
<1>4. CASE res.pc \notin {"free", "prepare"}
  <2>1. res.id # i /\ claim'[res.id] = claim[res.id] /\ claim[res.id].req = res.req
    BY <1>1, <1>4, ResolverFacts DEF Touches
  <2>2. res.req \in Requests \ {claim[i].req}
    BY <1>1, <1>4, <2>1, ResolverFacts, ClaimFacts DEF ClaimNamed
  <2>3. applied'[res.req] = applied[res.req]
    BY <2>2 DEF Touches
  <2>4. ResolverAt'
    BY <1>2, <1>4, <2>1, <2>3, ResolverFacts DEF ResolverAt
  <2>. QED  BY <1>1, <1>2, <1>4, <2>1, <2>4 DEF ResolverOK
<1>5. CASE res.pc = "free"
  BY <1>5 DEF ResolverOK
<1>. QED  BY <1>3, <1>4, <1>5

\* What is left to show of a step about one claim.
LEMMA TouchKeeps ==
  ASSUME Running, NEW i \in ReqIds, Touches(i), PcTyped', ControlOK(i)', OtherOK(i)',
         ResolverOK', CallersApart', \A p \in Answerers : CallerOK(p)'
  PROVE  Running'
<1>1. ClaimNamed(i)'
  <2>1. /\ requested' = requested /\ claim'[i].state # "unknown" /\ claim[i].state # "unknown"
        /\ \A k \in ReqIds : claim'[k].req = claim[k].req
    BY DEF Touches
  <2>. QED  BY <2>1, ClaimFacts DEF ClaimNamed
<1>2. \A j \in ReqIds : ClaimNamed(j)' /\ ControlOK(j)' /\ OtherOK(j)'
  BY <1>1, OthersKept
<1>3. \A s \in Requests : RequestOK(s)'
  BY RequestsKept
<1>. QED  BY <1>2, <1>3 DEF Running

-----------------------------------------------------------------------------
(***************************************************************************)
(* The resolver.                                                           *)
(***************************************************************************)
LEMMA ResolverMoves ==
  ASSUME Running, NEW i \in ReqIds, res.id = i, res.pc \notin {"free", "prepare"}, Touches(i),
         PcTyped', ControlOK(i)', OtherOK(i)', ResolverOK', caller' = caller,
         \/ claim[i].state # "directDelivery"
         \/ claim'[i].state = "directDelivery" /\ applied' = applied
  PROVE  Running'
<1>1. ASSUME NEW p \in Answerers PROVE CallerOK(p)'
  <2>1. Busy(p) => claim[caller[p].id].state = "directDelivery"
    BY CallerFacts
  <2>. QED  BY <2>1, CallerKept
<1>2. CallersApart'
  BY DEF Running, CallersApart, Busy
<1>. QED  BY <1>1, <1>2, TouchKeeps

\* A step of the resolver that leaves the claims, before it has an answer.
LEMMA ResolverWalks ==
  ASSUME Running, res.pc \notin {"free", "prepare", "answer", "mark"},
         UNCHANGED <<claim, accepted, applied, requested, open, setup, caller>>,
         res' \in Resolvers,
         \/ res'.pc = "free"
         \/ /\ res'.id = res.id /\ res'.req = res.req /\ res'.state = res.state
            /\ res'.pc \notin {"prepare", "mark"} /\ ResolverAt'
  PROVE  Running'
<1>0. PICK i \in ReqIds : i = res.id
  BY ResolverFacts
<1>1. claim[i].state # "unknown" /\ claim[i].req = res.req
      /\ res.req \in Requests /\ res.state # "unknown"
  BY <1>0, ResolverFacts
<1>2. Touches(i)
  <2>1. claim[i].req \in open => applied[claim[i].req] = "none"
    BY <1>1 DEF Running, RequestOK
  <2>. QED  BY <1>0, <1>1, <2>1 DEF Touches
<1>3. PcTyped'
  BY DEF Running, PcTyped
<1>4. ControlOK(i)' /\ OtherOK(i)'
  <2>1. ControlOK(i) /\ OtherOK(i) /\ ~InHand(i)
    BY ClaimFacts DEF InHand
  <2>. QED  BY <1>0, <2>1 DEF ControlOK, OtherOK, ControlOwned, InHand, Sound
<1>5. ResolverOK'
  BY <1>0, <1>1 DEF ResolverOK, Running
<1>. QED  BY <1>0, <1>2, <1>3, <1>4, <1>5, ResolverMoves

LEMMA FreeTyped == FreeResolver \in Resolvers /\ FreeResolver.pc = "free"
BY DEF FreeResolver, Resolvers

LEMMA PublishStep ==
  ASSUME Running, PublishRequest, ~over'
  PROVE  Running'
<1>1. /\ res.pc = "publish" /\ res' = [res EXCEPT !.pc = "start"]
      /\ UNCHANGED <<claim, accepted, applied, requested, open, setup, caller>>
  BY DEF PublishRequest
<1>2. /\ res' \in Resolvers /\ res'.pc = "start" /\ res'.id = res.id /\ res'.req = res.req
      /\ res'.state = res.state
  BY <1>1, ResolverFacts DEF Resolvers
<1>3. ResolverAt'
  BY <1>1, <1>2, ResolverFacts DEF ResolverAt
<1>. QED  BY <1>1, <1>2, <1>3, ResolverWalks

LEMMA StartAutomaticStep ==
  ASSUME Running, StartAutomatic
  PROVE  Running'
<1>1. /\ res.pc = "start" /\ res.state = "automatic"
      /\ UNCHANGED <<claim, accepted, applied, requested, open, setup, caller>>
  BY DEF StartAutomatic
<1>2. PICK a \in {"allow", ""} : res' = [res EXCEPT !.pc = "answer", !.hand = a]
  BY DEF StartAutomatic
<1>3. a \in Answers \cup {"", "none"}
  BY ClaimAssumption
<1>4. /\ res' \in Resolvers /\ res'.pc = "answer" /\ res'.id = res.id /\ res'.req = res.req
      /\ res'.state = res.state
  BY <1>1, <1>2, <1>3, ResolverFacts DEF Resolvers
<1>5. claim[res.id].state = "automatic"
  BY <1>1, ResolverFacts DEF ResolverAt
<1>6. ResolverAt'
  BY <1>1, <1>4, <1>5 DEF ResolverAt
<1>. QED  BY <1>1, <1>4, <1>6, ResolverWalks

\* A claim that nobody connected to: the file handler, or nobody.
LEMMA StartFallbackStep ==
  ASSUME Running, StartFallback
  PROVE  Running'
<1>1. /\ res.pc = "start" /\ res.state # "automatic" /\ claim[res.id].state # "reserved"
      /\ res' = [res EXCEPT !.pc = Fallback]
      /\ UNCHANGED <<claim, accepted, applied, requested, open, setup, caller>>
  BY DEF StartFallback
<1>2. Fallback \in {"file", "noResolver"}
  BY DEF Fallback
<1>3. /\ res' \in Resolvers /\ res'.pc = Fallback /\ res'.id = res.id /\ res'.req = res.req
      /\ res'.state = res.state
  <2>. DEFINE l == Fallback
  <2>1. l \in {"file", "noResolver"} /\ res' = [res EXCEPT !.pc = l] /\ res \in Resolvers
    BY <1>1, <1>2, ResolverFacts
  <2>. HIDE DEF l
  <2>2. /\ res' \in Resolvers /\ res'.pc = l /\ res'.id = res.id /\ res'.req = res.req
        /\ res'.state = res.state
    BY <2>1 DEF Resolvers
  <2>. QED  BY <2>2 DEF l
<1>4. res.state \in {"automatic", "reserved", "file", "noResolver"}
  BY <1>1, ResolverFacts DEF Resolvers
<1>5. /\ res.state = "noResolver" => claim[res.id].state \in Direct /\ ~setup.files
      /\ res.state # "noResolver" => claim[res.id].state = "file" /\ setup.files
  BY <1>1, <1>4, ResolverFacts DEF ResolverAt
<1>6. ResolverAt'
  BY <1>1, <1>3, <1>5 DEF ResolverAt, Fallback
<1>. QED  BY <1>1, <1>2, <1>3, <1>6, ResolverWalks

LEMMA FileSteps ==
  ASSUME Running, FileHandle \/ FileAnswer, ~over'
  PROVE  Running'
<1>1. res.pc \in {"file", "filing"}
  BY DEF FileHandle, FileAnswer
<1>2. claim[res.id].state = "file" /\ res \in Resolvers /\ res.id \in ReqIds
  BY <1>1, ResolverFacts DEF ResolverAt
<1>3. UNCHANGED <<claim, accepted, applied, requested, open, setup, caller>>
  <2>1. CASE FileHandle
    <3>1. claim' = [claim EXCEPT ![res.id].state = "file"] /\ claim \in [ReqIds -> Claims]
      BY <1>2, <2>1 DEF FileHandle, Stamped, Running, PcTyped
    <3>2. [claim[res.id] EXCEPT !.state = "file"] = claim[res.id]
      BY <1>2, <3>1 DEF Claims
    <3>3. claim' = claim
      BY <1>2, <3>1, <3>2
    <3>. QED  BY <2>1, <3>3 DEF FileHandle
  <2>2. CASE FileAnswer
    BY <2>2 DEF FileAnswer
  <2>. QED  BY <2>1, <2>2
<1>4. PICK l \in {"filing", "answer"}, a \in Answers \cup {"", "none"} :
        res' = [res EXCEPT !.pc = l, !.hand = a]
  <2>1. CASE FileHandle
    <3>1. res' = [res EXCEPT !.pc = "filing"] /\ res.hand \in Answers \cup {"", "none"}
      BY <1>2, <2>1 DEF FileHandle, Resolvers
    <3>2. res' = [res EXCEPT !.pc = "filing", !.hand = res.hand]
      BY <1>2, <3>1 DEF Resolvers
    <3>. QED  BY <3>1, <3>2
  <2>2. CASE FileAnswer
    BY <2>2 DEF FileAnswer
  <2>. QED  BY <2>1, <2>2
<1>5. /\ res' \in Resolvers /\ res'.pc = l /\ res'.id = res.id /\ res'.req = res.req
      /\ res'.state = res.state
  BY <1>2, <1>4 DEF Resolvers
<1>6. ResolverAt'
  BY <1>2, <1>3, <1>5 DEF ResolverAt
<1>. QED  BY <1>1, <1>3, <1>5, <1>6, ResolverWalks

\* The late stamp: a direct answer may already be on its way, or there.
LEMMA LeaveStep ==
  ASSUME Running, LeaveUnresolved
  PROVE  Running'
<1>1. /\ res.pc = "noResolver" /\ res' = FreeResolver
      /\ UNCHANGED <<accepted, applied, requested, open, setup, caller>>
  BY DEF LeaveUnresolved
<1>2. claim[res.id].state \in Direct /\ res.id \in ReqIds
  BY <1>1, ResolverFacts DEF ResolverAt
<1>3. claim' = claim
  <2>1. CASE claim[res.id].state = "noResolver"
    <3>1. claim' = [claim EXCEPT ![res.id].state = "noResolver"] /\ claim \in [ReqIds -> Claims]
      BY <2>1 DEF LeaveUnresolved, Stamped, Running, PcTyped
    <3>2. [claim[res.id] EXCEPT !.state = "noResolver"] = claim[res.id]
      BY <1>2, <2>1, <3>1 DEF Claims
    <3>. QED  BY <1>2, <3>1, <3>2
  <2>2. CASE claim[res.id].state \in {"directDelivery", "resolved"}
    BY <2>2 DEF LeaveUnresolved, Stamped
  <2>. QED  BY <1>2, <2>1, <2>2 DEF Direct
<1>. QED  BY <1>1, <1>3, FreeTyped, ResolverWalks

\* The wait for a client begins, if a claim is still there to wait on.
LEMMA BeginStep ==
  ASSUME Running, BeginPermissionClaim
  PROVE  Running'
<1>0. /\ res.pc = "start" /\ res.state # "automatic" /\ res' = [res EXCEPT !.pc = "wait"]
      /\ UNCHANGED <<setup, requested, open, applied, accepted, caller>>
  BY DEF BeginPermissionClaim
<1>1. PICK i \in ReqIds : i = res.id
  BY <1>0, ResolverFacts
<1>2. /\ claim[i].state = "reserved" /\ claim[i].req = res.req /\ res.req \in Requests
      /\ claim[i] \in Claims /\ res \in Resolvers
  BY <1>0, <1>1, ResolverFacts, ClaimFacts DEF BeginPermissionClaim
<1>. DEFINE g == BornGone(i)
            c == [claim[i] EXCEPT !.state = "control", !.req = res.req, !.gone = g]
<1>3. claim' = [claim EXCEPT ![i] = c] /\ g \in BOOLEAN
  <2>1. claim' = [claim EXCEPT ![i].state = "control", ![i].req = res.req, ![i].gone = g]
    BY <1>1 DEF BeginPermissionClaim
  <2>2. g \in BOOLEAN
    BY <1>2 DEF BornGone, HasClients, Claims
  <2>. QED  BY <1>2, <2>1, <2>2 DEF Running, PcTyped, Claims
<1>. HIDE DEF g
<1>4. /\ c \in Claims /\ c.state = "control" /\ c.req = claim[i].req /\ c.queue = claim[i].queue
      /\ c.queued = claim[i].queued
  BY <1>2, <1>3 DEF Claims, ClaimStates
<1>. HIDE DEF c
<1>5. claim'[i] = c /\ claim' \in [ReqIds -> Claims] /\ \A j \in ReqIds \ {i} : claim'[j] = claim[j]
  BY <1>3, <1>4 DEF Running, PcTyped
<1>6. /\ res' \in Resolvers /\ res'.pc = "wait" /\ res'.id = i /\ res'.req = res.req
      /\ res'.state = res.state
  BY <1>0, <1>1, <1>2 DEF Resolvers
<1>7. Touches(i)
  <2>1. claim[i].req \in open => applied[claim[i].req] = "none"
    BY <1>2 DEF Running, RequestOK
  <2>. QED  BY <1>0, <1>1, <1>2, <1>4, <1>5, <1>6, <2>1 DEF Touches
<1>8. PcTyped'
  BY <1>0, <1>5, <1>6 DEF Running, PcTyped
<1>9. ControlOK(i)' /\ OtherOK(i)'
  <2>1. ControlOK(i) /\ ~InHand(i)
    BY <1>0, ClaimFacts DEF InHand
  <2>. QED  BY <1>0, <1>2, <1>4, <1>5, <2>1 DEF ControlOK, OtherOK, ControlOwned, InHand
<1>10. ResolverOK'
  <2>1. res.req \in 1..requested /\ res.state # "unknown"
    BY <1>0 DEF Running, ResolverOK
  <2>. QED  BY <1>0, <1>2, <1>4, <1>5, <1>6, <2>1 DEF ResolverOK, ResolverAt
<1>. QED  BY <1>0, <1>1, <1>2, <1>7, <1>8, <1>9, <1>10, ResolverMoves

\* The resolver takes the answer out of the channel: it was waiting for it, or it
\* gave up and looked again.
LEMMA ReceiveStep ==
  ASSUME Running, res.pc = "wait", claim[res.id].queue # "none",
         claim' = [claim EXCEPT ![res.id].queue = "none"],
         res' = [res EXCEPT !.pc = "answer", !.hand = claim[res.id].queue],
         UNCHANGED <<setup, requested, open, applied, accepted, caller>>
  PROVE  Running'
<1>1. PICK i \in ReqIds : i = res.id
  BY ResolverFacts
<1>2. /\ claim[i].state = "control" /\ claim[i].req = res.req /\ res.req \in Requests
      /\ claim[i] \in Claims /\ res \in Resolvers
  BY <1>1, ResolverFacts, ClaimFacts DEF ResolverAt
<1>. DEFINE q == claim[i].queue
            c == [claim[i] EXCEPT !.queue = "none"]
<1>3. claim' = [claim EXCEPT ![i] = c] /\ q \in Answers /\ claim[i].queued
  <2>1. q \in Answers
    BY <1>1, <1>2 DEF Claims
  <2>2. claim[i].queued
    BY <1>1, <1>2, ClaimFacts DEF ControlOK, ControlOwned
  <2>. QED  BY <1>1, <2>1, <2>2
<1>4. /\ c \in Claims /\ c.state = "control" /\ c.req = claim[i].req /\ c.queue = "none"
      /\ c.queued
  BY <1>2, <1>3 DEF Claims, ClaimStates
<1>5. accepted[claim[i].req] = {q} /\ applied[claim[i].req] = "none"
  BY <1>1, <1>2, <1>3, ClaimFacts DEF ControlOK, ControlOwned
<1>6. /\ res' \in Resolvers /\ res'.pc = "answer" /\ res'.id = i /\ res'.req = res.req
      /\ res'.state = res.state /\ res'.hand = q
  <2>. HIDE DEF q
  <2>1. res' = [res EXCEPT !.pc = "answer", !.hand = q]
    BY <1>1 DEF q
  <2>. QED  BY <1>1, <1>2, <1>3, <2>1 DEF Resolvers
<1>. HIDE DEF c, q
<1>7. claim'[i] = c /\ claim' \in [ReqIds -> Claims] /\ \A j \in ReqIds \ {i} : claim'[j] = claim[j]
  BY <1>3, <1>4 DEF Running, PcTyped
<1>8. Touches(i)
  BY <1>1, <1>2, <1>4, <1>5, <1>6, <1>7 DEF Touches
<1>9. PcTyped'
  BY <1>6, <1>7 DEF Running, PcTyped
<1>10. ControlOK(i)' /\ OtherOK(i)'
  BY <1>4, <1>5, <1>6, <1>7 DEF ControlOK, OtherOK, ControlOwned, InHand
<1>11. ResolverOK'
  <2>1. res.req \in 1..requested /\ res.state # "unknown"
    BY DEF Running, ResolverOK
  <2>. QED  BY <1>2, <1>4, <1>6, <1>7, <2>1 DEF ResolverOK, ResolverAt
<1>. QED  BY <1>1, <1>2, <1>8, <1>9, <1>10, <1>11, ResolverMoves

\* Control ownership is closed with nothing in the channel: the next resolver.
LEMMA HandoffStep ==
  ASSUME Running, res.pc = "wait", claim[res.id].queue = "none",
         claim' = [claim EXCEPT ![res.id].state = Fallback],
         res' = [res EXCEPT !.pc = Fallback],
         UNCHANGED <<setup, requested, open, applied, accepted, caller>>
  PROVE  Running'
<1>1. PICK i \in ReqIds : i = res.id
  BY ResolverFacts
<1>2. /\ claim[i].state = "control" /\ claim[i].req = res.req /\ res.req \in Requests
      /\ claim[i] \in Claims /\ res \in Resolvers
  BY <1>1, ResolverFacts, ClaimFacts DEF ResolverAt
<1>. DEFINE l == Fallback
            c == [claim[i] EXCEPT !.state = l]
<1>3. claim' = [claim EXCEPT ![i] = c] /\ res' = [res EXCEPT !.pc = l] /\ l \in {"file", "noResolver"}
  BY <1>1 DEF Fallback
<1>4. ~claim[i].queued /\ accepted[claim[i].req] = {}
  <2>1. ~InHand(i) /\ claim[i].queued \in BOOLEAN
    BY ClaimFacts DEF InHand
  <2>. QED  BY <1>1, <1>2, <2>1, ClaimFacts DEF ControlOK, ControlOwned
<1>. HIDE DEF l
<1>5. /\ c \in Claims /\ c.state = l /\ c.req = claim[i].req /\ c.queue = "none"
  BY <1>1, <1>2, <1>3 DEF Claims, ClaimStates
<1>6. /\ res' \in Resolvers /\ res'.pc = l /\ res'.id = i /\ res'.req = res.req
      /\ res'.state = res.state
  BY <1>1, <1>2, <1>3 DEF Resolvers
<1>. HIDE DEF c
<1>7. claim'[i] = c /\ claim' \in [ReqIds -> Claims] /\ \A j \in ReqIds \ {i} : claim'[j] = claim[j]
  BY <1>3, <1>5 DEF Running, PcTyped
<1>8. Touches(i)
  <2>1. claim[i].req \in open => applied[claim[i].req] = "none"
    BY <1>2 DEF Running, RequestOK
  <2>. QED  BY <1>1, <1>2, <1>3, <1>5, <1>6, <1>7, <2>1 DEF Touches
<1>9. PcTyped'
  BY <1>6, <1>7 DEF Running, PcTyped
<1>10. ControlOK(i)' /\ OtherOK(i)'
  BY <1>3, <1>4, <1>5, <1>7 DEF ControlOK, OtherOK, ControlOwned
<1>11. ResolverOK'
  <2>1. res.req \in 1..requested /\ res.state # "unknown"
    BY DEF Running, ResolverOK
  <2>. QED  BY <1>2, <1>3, <1>5, <1>6, <1>7, <2>1 DEF ResolverOK, ResolverAt, Direct
<1>. QED  BY <1>1, <1>2, <1>8, <1>9, <1>10, <1>11, ResolverMoves

LEMMA WaitSteps ==
  ASSUME Running, ReceiveAnswer \/ ResolverGivesUp, ~over'
  PROVE  Running'
<1>1. CASE ReceiveAnswer
  BY <1>1, ReceiveStep DEF ReceiveAnswer
<1>2. CASE ResolverGivesUp
  <2>1. PICK next \in {"resolved", "file", "noResolver"} :
          /\ claim' = HandedOff(res.id, next)
          /\ next # "resolved" => next = Fallback
          /\ IF HandoffAnswer(res.id) # "none"
               THEN res' = [res EXCEPT !.pc = "answer", !.hand = HandoffAnswer(res.id)]
               ELSE /\ res' = IF next = "resolved" THEN FreeResolver ELSE [res EXCEPT !.pc = next]
                    /\ over' = (over \/ next = "resolved")
    BY <1>2 DEF ResolverGivesUp, Fallback
  <2>2. /\ res.pc = "wait" /\ UNCHANGED <<setup, requested, open, applied, accepted, caller>>
    BY <1>2 DEF ResolverGivesUp
  <2>3. ControlOwned(res.id) /\ HandoffAnswer(res.id) = claim[res.id].queue
    BY <2>2, ResolverFacts DEF ResolverAt, ControlOwned, HandoffAnswer
  <2>4. CASE claim[res.id].queue # "none"
    <3>1. claim' = [claim EXCEPT ![res.id].queue = "none"]
      BY <2>1, <2>3, <2>4 DEF HandedOff
    <3>2. res' = [res EXCEPT !.pc = "answer", !.hand = claim[res.id].queue]
      BY <2>1, <2>3, <2>4
    <3>. QED  BY <2>2, <2>4, <3>1, <3>2, ReceiveStep
  <2>5. CASE claim[res.id].queue = "none"
    <3>1. next = Fallback /\ next # "resolved"
      BY <2>1, <2>3, <2>5
    <3>. QED  BY <2>1, <2>2, <2>3, <2>5, <3>1, HandoffStep DEF HandedOff
  <2>. QED  BY <2>4, <2>5
<1>. QED  BY <1>1, <1>2

\* The provider takes the answer of the resolver.
LEMMA ProviderStep ==
  ASSUME Running, ProviderAnswer, ~over'
  PROVE  Running'
<1>0. /\ res.pc = "answer" /\ res' = [res EXCEPT !.pc = "mark"] /\ Takes(res.req, res.hand)
      /\ UNCHANGED <<setup, requested, claim, accepted, caller>>
  BY DEF ProviderAnswer
<1>1. PICK i \in ReqIds : i = res.id
  BY <1>0, ResolverFacts
<1>. DEFINE r == res.req
            h == res.hand
<1>2. /\ claim[i].state \in {"automatic", "control", "file"} /\ claim[i].req = r /\ r \in Requests
      /\ claim[i].state = "control" => claim[i].queued /\ claim[i].queue = "none"
      /\ res \in Resolvers /\ h \in Answers \cup {"", "none"}
  BY <1>0, <1>1, ResolverFacts DEF ResolverAt, Resolvers
<1>3. /\ res' \in Resolvers /\ res'.pc = "mark" /\ res'.id = i /\ res'.req = r
      /\ res'.state = res.state /\ res'.hand = h
  BY <1>0, <1>1, <1>2 DEF Resolvers
<1>. HIDE DEF r, h
<1>4. /\ open' = open \ {r} /\ applied' \in [Requests -> Answers \cup {"", "none"}]
      /\ applied'[r] = h /\ \A s \in Requests \ {r} : applied'[s] = applied[s]
  BY <1>0, <1>2 DEF Takes, Running, PcTyped, r, h
<1>5. Touches(i)
  BY <1>0, <1>1, <1>2, <1>3, <1>4 DEF Touches, r
<1>6. PcTyped'
  BY <1>0, <1>3, <1>4 DEF Running, PcTyped
<1>7. ControlOK(i)' /\ OtherOK(i)'
  <2>1. ControlOK(i) /\ OtherOK(i)
    BY ClaimFacts
  <2>. QED  BY <1>0, <1>1, <1>2, <1>3, <2>1 DEF ControlOK, OtherOK, ControlOwned, InHand, r, h
<1>8. ResolverOK'
  <2>1. res.req \in 1..requested /\ res.state # "unknown"
    BY <1>0 DEF Running, ResolverOK
  <2>. QED  BY <1>0, <1>2, <1>3, <1>4, <2>1 DEF ResolverOK, ResolverAt, r
<1>. QED  BY <1>0, <1>1, <1>2, <1>5, <1>6, <1>7, <1>8, ResolverMoves

\* The claim as Resolved leaves it.
LEMMA ResolvedClaim ==
  ASSUME Running, NEW i \in ReqIds, NEW a \in Answers \cup {"", "none"}, claim[i].state # "unknown",
         claim' = Resolved(i, a)
  PROVE  /\ claim' \in [ReqIds -> Claims] /\ \A j \in ReqIds \ {i} : claim'[j] = claim[j]
         /\ claim'[i].state = "resolved" /\ claim'[i].req = claim[i].req
         /\ claim'[i].queue = "none" /\ claim'[i].resolution = a
<1>. DEFINE c == [NoClaim EXCEPT !.state = "resolved", !.req = claim[i].req, !.resolution = a]
<1>1. claim' = [claim EXCEPT ![i] = c]
  BY DEF Resolved
<1>2. /\ c \in Claims /\ c.state = "resolved" /\ c.req = claim[i].req /\ c.queue = "none"
      /\ c.resolution = a
  BY ClaimFacts DEF NoClaim, Claims, ClaimStates
<1>. HIDE DEF c
<1>. QED  BY <1>1, <1>2 DEF Running, PcTyped

\* The resolver's claim is resolved with the answer the provider took.
LEMMA MarkStep ==
  ASSUME Running, MarkPermissionClaimResolved
  PROVE  Running'
<1>0. /\ res.pc = "mark" /\ res' = FreeResolver /\ claim' = Resolved(res.id, res.hand)
      /\ UNCHANGED <<setup, requested, open, applied, accepted, caller>>
  BY DEF MarkPermissionClaimResolved
<1>1. PICK i \in ReqIds : i = res.id
  BY <1>0, ResolverFacts
<1>. DEFINE h == res.hand
<1>2. /\ claim[i].state \in {"automatic", "control", "file"} /\ claim[i].req = res.req
      /\ res.req \in Requests
      /\ claim[i].state = "control" => claim[i].queued /\ claim[i].queue = "none"
      /\ h \in Answers \cup {"", "none"} /\ applied[res.req] = h
  BY <1>0, <1>1, ResolverFacts DEF ResolverAt, Resolvers
<1>3. /\ claim' \in [ReqIds -> Claims] /\ \A j \in ReqIds \ {i} : claim'[j] = claim[j]
      /\ claim'[i].state = "resolved" /\ claim'[i].req = claim[i].req
      /\ claim'[i].queue = "none" /\ claim'[i].resolution = h
  BY <1>0, <1>1, <1>2, ResolvedClaim
<1>4. Touches(i)
  <2>1. claim[i].req \in open => applied[claim[i].req] = "none"
    BY <1>2 DEF Running, RequestOK
  <2>. QED  BY <1>0, <1>1, <1>2, <1>3, <2>1, FreeTyped DEF Touches
<1>5. PcTyped'
  BY <1>0, <1>3, FreeTyped DEF Running, PcTyped
<1>6. accepted[claim[i].req] \subseteq {h}
  BY <1>0, <1>2, ClaimFacts DEF ControlOK, OtherOK, ControlOwned
<1>7. ControlOK(i)' /\ OtherOK(i)'
  <2>1. ControlOK(i)'
    BY <1>3 DEF ControlOK, ControlOwned
  <2>2. OtherOK(i)'
    <3>0. PICK r \in Requests : r = claim[i].req
      BY <1>2
    <3>1. claim'[i].req = r /\ claim'[i].resolution = applied'[r]
      BY <1>0, <1>2, <1>3, <3>0
    <3>2. accepted[r] \subseteq {applied[r]}
      BY <1>2, <1>6, <3>0
    <3>3. Sound(r)'
      BY <1>0, <3>2 DEF Sound
    <3>. QED  BY <1>3, <3>1, <3>3 DEF OtherOK, ControlOwned
  <2>. QED  BY <2>1, <2>2
<1>8. ResolverOK'
  BY <1>0, FreeTyped DEF ResolverOK
<1>. QED  BY <1>0, <1>1, <1>2, <1>4, <1>5, <1>7, <1>8, ResolverMoves

-----------------------------------------------------------------------------
(***************************************************************************)
(* A new request, and its claim.                                           *)
(***************************************************************************)
LEMMA RequestStep ==
  ASSUME Running, NEW i \in ReqIds, NEW u \in BOOLEAN, Request(i, u), ~over'
  PROVE  Running'
<1>. DEFINE n == requested + 1
            s == effectivePermissionResolverState(u)
<1>0. /\ requested < MaxRequests /\ requested' = n /\ open' = open \cup {n}
      /\ res' = [FreeResolver EXCEPT !.pc = "prepare", !.id = i, !.req = n, !.state = s]
      /\ UNCHANGED <<setup, claim, applied, accepted, caller>>
  BY DEF Request
<1>1. requested \in Nat /\ n \in Nat /\ n \in Requests /\ n \in 1..n /\ n # 0
      /\ requested' \in 0..MaxRequests /\ \A r \in 1..requested : r \in 1..n
  <2>1. requested \in Nat /\ MaxRequests \in Nat
    BY ClaimAssumption, Counted DEF Running
  <2>. QED  BY <1>0, <2>1 DEF Requests
<1>2. /\ s \in {"automatic", "reserved", "file", "noResolver"}
      /\ s = "file" => setup.files
      /\ s = "noResolver" => ~setup.files
  BY DEF effectivePermissionResolverState
<1>. HIDE DEF s
<1>3. res' \in Resolvers /\ res'.pc = "prepare" /\ res'.id = i /\ res'.req = n /\ res'.state = s
  BY <1>0, <1>1, <1>2 DEF FreeResolver, Resolvers
<1>4. \A k \in ReqIds : claim[k].req # n /\ claim[k].req <= n
  <2>. SUFFICES ASSUME NEW k \in ReqIds PROVE claim[k].req # n /\ claim[k].req <= n
    OBVIOUS
  <2>1. claim[k].req \in Nat /\ claim[k].req <= requested
    BY ClaimFacts DEF ClaimNamed
  <2>. QED  BY <1>1, <2>1
<1>5. accepted[n] = {} /\ applied[n] = "none"
  <2>1. n > requested
    BY <1>1
  <2>. QED  BY <1>1, <2>1 DEF Running, RequestOK
<1>6. PcTyped'
  <2>1. open' \subseteq 1..requested'
    BY <1>0, <1>1 DEF Running, PcTyped
  <2>. QED  BY <1>0, <1>1, <1>3, <2>1 DEF Running, PcTyped
<1>7. ResolverOK'
  <2>1. ~Claimed(res.req)'
    BY <1>0, <1>3, <1>4 DEF Claimed
  <2>. QED  BY <1>0, <1>1, <1>2, <1>3, <1>5, <2>1 DEF ResolverOK
<1>8. ASSUME NEW k \in ReqIds PROVE ClaimNamed(k)' /\ ControlOK(k)' /\ OtherOK(k)'
  <2>1. res.pc = "free"
    BY DEF Request
  <2>2. ClaimNamed(k)'
    BY <1>0, <1>4, ClaimFacts DEF ClaimNamed
  <2>3. ControlOK(k)'
    BY <1>0, <2>1, ClaimFacts DEF ControlOK, ControlOwned, InHand
  <2>4. OtherOK(k)'
    BY <1>0, ClaimFacts DEF OtherOK, ControlOwned, Sound
  <2>. QED  BY <2>2, <2>3, <2>4
<1>9. CallersApart' /\ \A p \in Answerers : CallerOK(p)'
  BY <1>0 DEF Running, CallersApart, CallerOK, Busy
<1>10. ASSUME NEW r \in Requests PROVE RequestOK(r)'
  <2>1. r > n => r > requested
    BY <1>1 DEF Requests
  <2>2. Claimed(r)' <=> Claimed(r)
    BY <1>0 DEF Claimed
  <2>3. RequestOK(r)
    BY DEF Running
  <2>. QED  BY <1>0, <1>5, <2>1, <2>2, <2>3 DEF RequestOK, Sound
<1>. QED  BY <1>6, <1>7, <1>8, <1>9, <1>10 DEF Running

\* The claim takes the ID over from a request that was resolved.
LEMMA PrepareStep ==
  ASSUME Running, PreparePermissionClaim, ~over'
  PROVE  Running'
<1>0. /\ res.pc = "prepare" /\ Preparable(res.id) /\ res' = [res EXCEPT !.pc = "publish"]
      /\ claim' = [claim EXCEPT ![res.id] = NewClaim(res.req, res.state)]
      /\ UNCHANGED <<setup, requested, open, applied, accepted, caller>>
  BY DEF PreparePermissionClaim
<1>1. PICK i \in ReqIds : i = res.id
  BY <1>0, ResolverFacts
<1>. DEFINE r == res.req
            s == res.state
            c == NewClaim(r, s)
<1>2. /\ res \in Resolvers /\ r \in Requests /\ ~Claimed(r) /\ accepted[r] = {}
      /\ applied[r] = "none" /\ (s = "file" => setup.files) /\ (s = "noResolver" => ~setup.files)
      /\ s \in {"automatic", "reserved", "file", "noResolver"} /\ r \in 1..requested
  <2>1. s \in {"unknown", "automatic", "reserved", "file", "noResolver"}
    BY <1>0, ResolverFacts DEF Resolvers
  <2>. QED  BY <1>0, <2>1, ResolverFacts DEF Running, ResolverOK
<1>3. r \in Nat /\ r # 0 /\ r <= requested
  BY <1>2, Counted DEF Running
<1>4. c \in Claims /\ c.state = s /\ c.req = r /\ c.queue = "none" /\ ~c.queued
  <2>. HIDE DEF r, s
  <2>1. (s = "reserved" /\ ~HasClients) \in BOOLEAN
    OBVIOUS
  <2>. QED  BY <1>2, <1>3, <2>1 DEF NewClaim, NoClaim, Claims, ClaimStates
<1>5. /\ res' \in Resolvers /\ res'.pc = "publish" /\ res'.id = i /\ res'.req = r
      /\ res'.state = s
  BY <1>0, <1>1, <1>2 DEF Resolvers
<1>6. claim' = [claim EXCEPT ![i] = c] /\ claim[i].state \in {"unknown", "resolved"}
  BY <1>0, <1>1 DEF Preparable
<1>. HIDE DEF c
<1>7. claim'[i] = c /\ claim' \in [ReqIds -> Claims] /\ \A j \in ReqIds \ {i} : claim'[j] = claim[j]
  BY <1>4, <1>6 DEF Running, PcTyped
<1>8. PcTyped'
  BY <1>0, <1>5, <1>7 DEF Running, PcTyped
<1>9. \A j \in ReqIds : claim[j].req # r
  BY <1>2 DEF Claimed
<1>. HIDE DEF r, s
<1>10. ClaimNamed(i)' /\ ControlOK(i)' /\ OtherOK(i)'
  <2>1. ClaimNamed(i)'
    BY <1>0, <1>2, <1>3, <1>4, <1>7, <1>9 DEF ClaimNamed
  <2>2. ControlOK(i)' /\ OtherOK(i)'
    BY <1>0, <1>2, <1>4, <1>7 DEF ControlOK, OtherOK, ControlOwned, Sound
  <2>. QED  BY <2>1, <2>2
<1>11. ASSUME NEW j \in ReqIds, j # i PROVE ClaimNamed(j)' /\ ControlOK(j)' /\ OtherOK(j)'
  <2>1. claim'[j] = claim[j]
    BY <1>7, <1>11
  <2>2. \A k \in ReqIds : claim'[k].req \in {claim[k].req, r}
    BY <1>4, <1>7
  <2>3. ClaimNamed(j)'
    BY <1>0, <1>7, <1>9, <1>11, <2>1, <2>2, ClaimFacts DEF ClaimNamed
  <2>4. ControlOK(j)'
    BY <1>0, <1>1, <1>11, <2>1, ClaimFacts DEF ControlOK, ControlOwned, InHand
  <2>5. OtherOK(j)'
    BY <1>0, <2>1, ClaimFacts DEF OtherOK, ControlOwned, Sound
  <2>. QED  BY <2>3, <2>4, <2>5
<1>12. ResolverOK'
  BY <1>0, <1>2, <1>4, <1>5, <1>7 DEF ResolverOK, ResolverAt, Direct
<1>13. CallersApart' /\ \A p \in Answerers : CallerOK(p)'
  <2>1. CallersApart'
    BY <1>0 DEF Running, CallersApart, Busy
  <2>2. ASSUME NEW p \in Answerers PROVE CallerOK(p)'
    <3>1. Busy(p) => caller[p].id \in ReqIds /\ claim[caller[p].id].state = "directDelivery"
      BY CallerFacts DEF Busy
    <3>2. Busy(p) => claim'[caller[p].id] = claim[caller[p].id]
      BY <1>6, <1>7, <3>1
    <3>. QED  BY <1>0, <3>2, CallerFacts DEF CallerOK, Busy
  <2>. QED  BY <2>1, <2>2
<1>14. ASSUME NEW x \in Requests PROVE RequestOK(x)'
  <2>1. RequestOK(x)
    BY DEF Running
  <2>2. CASE x = r
    <3>1. Claimed(x)'
      BY <1>4, <1>7, <2>2 DEF Claimed
    <3>. QED  BY <1>0, <2>1, <3>1 DEF RequestOK
  <2>3. CASE x # r /\ Claimed(x) /\ ~Claimed(x)'
    <3>1. claim[i].req = x
      BY <1>7, <2>3 DEF Claimed
    <3>2. claim[i].state = "resolved"
      <4>1. x # 0
        BY DEF Requests
      <4>. QED  BY <1>6, <3>1, <4>1, ClaimFacts DEF ClaimNamed
    <3>3. Sound(x)
      BY <3>1, <3>2, ClaimFacts DEF OtherOK
    <3>. QED  BY <1>0, <2>1, <3>3 DEF RequestOK, Sound
  <2>4. CASE ~Claimed(x) \/ Claimed(x)'
    BY <1>0, <2>1, <2>4 DEF RequestOK, Sound
  <2>. QED  BY <2>2, <2>3, <2>4
<1>. QED  BY <1>8, <1>10, <1>11, <1>12, <1>13, <1>14 DEF Running

-----------------------------------------------------------------------------
(***************************************************************************)
(* The callers of answer_permission.                                       *)
(***************************************************************************)
\* A direct answer may overtake the resolver that leaves the request to nobody.
LEMMA ResolverOvertaken ==
  ASSUME Running, NEW i \in ReqIds, Touches(i), res' = res,
         claim[i].state \in Direct, claim'[i].state \in Direct
  PROVE  ResolverOK'
<1>1. CASE res.pc \in {"free", "prepare"} \/ res.id # i
  BY <1>1, ResolverKept
<1>2. CASE res.pc \notin {"free", "prepare"} /\ res.id = i
  <2>1. /\ claim[i].req = res.req /\ res.req \in 1..requested /\ res.state # "unknown" /\ ResolverAt
        /\ res.pc \in {"publish", "start", "wait", "file", "filing", "answer", "mark", "noResolver"}
    BY <1>2 DEF Running, ResolverOK, PcTyped, Resolvers
  <2>2. res.pc \in {"publish", "start", "noResolver"} /\ (res.pc # "noResolver" =>
           (res.state = "noResolver" /\ ~setup.files))
    BY <1>2, <2>1, ResolverFacts DEF ResolverAt, Direct, Resolvers
  <2>3. claim'[i].req = claim[i].req /\ requested' = requested /\ setup' = setup
    BY DEF Touches
  <2>4. ResolverAt'
    BY <1>2, <2>2, <2>3 DEF ResolverAt
  <2>. QED  BY <1>2, <2>1, <2>2, <2>3, <2>4 DEF ResolverOK
<1>. QED  BY <1>1, <1>2

\* A caller moves, and the step is about claim i, which no other caller has.
LEMMA CallerMoves ==
  ASSUME Running, NEW i \in ReqIds, Touches(i), PcTyped', ControlOK(i)', OtherOK(i)', ResolverOK',
         NEW p \in Answerers, \A q \in Answerers \ {p} : caller'[q] = caller[q],
         CallerOK(p)', Busy(p)' => caller'[p].id = i,
         claim[i].state # "directDelivery" \/ (Busy(p) /\ caller[p].id = i)
  PROVE  Running'
<1>1. ASSUME NEW q \in Answerers \ {p}, Busy(q)
      PROVE  caller[q].id # i
  <2>1. claim[caller[q].id].state = "directDelivery"
    BY <1>1, CallerFacts
  <2>. QED  BY <1>1, <2>1 DEF Running, CallersApart
<1>2. \A q \in Answerers : CallerOK(q)'
  BY <1>1, CallerKept
<1>3. CallersApart'
  BY <1>1 DEF Running, CallersApart, Busy
<1>. QED  BY <1>2, <1>3, TouchKeeps

\* A caller moves and nothing else does.
LEMMA CallerWalks ==
  ASSUME Running, NEW p \in Answerers, \A q \in Answerers \ {p} : caller'[q] = caller[q],
         caller' \in [Answerers -> CallerStates], ~Busy(p)',
         caller'[p].pc # "idle" => caller'[p].id \in ReqIds /\ caller'[p].answer \in Answers,
         UNCHANGED <<setup, requested, open, applied, accepted, claim, res>>
  PROVE  Running'
<1>1. PcTyped'
  BY DEF Running, PcTyped
<1>2. ResolverOK'
  BY DEF Running, ResolverOK, ResolverAt, Claimed
<1>3. \A i \in ReqIds : ClaimNamed(i)' /\ ControlOK(i)' /\ OtherOK(i)'
  BY DEF Running, ClaimNamed, ControlOK, OtherOK, ControlOwned, InHand, Sound
<1>4. \A r \in Requests : RequestOK(r)'
  BY DEF Running, RequestOK, Claimed, Sound
<1>5. \A q \in Answerers : CallerOK(q)'
  BY DEF Running, CallerOK, Busy
<1>6. CallersApart'
  BY DEF Running, CallersApart, Busy
<1>. QED  BY <1>1, <1>2, <1>3, <1>4, <1>5, <1>6 DEF Running

LEMMA IdleTyped == IdleCaller \in CallerStates /\ IdleCaller.pc = "idle"
BY DEF IdleCaller, CallerStates

LEMMA ToldOne ==
  ASSUME Running, NEW r \in Requests, NEW a \in Answers, accepted' = Told(r, a)
  PROVE  /\ accepted' \in [Requests -> SUBSET Answers] /\ accepted'[r] = accepted[r] \cup {a}
         /\ \A s \in Requests \ {r} : accepted'[s] = accepted[s]
<1>1. r # 0
  BY DEF Requests
<1>2. accepted' = [accepted EXCEPT ![r] = accepted[r] \cup {a}]
  BY <1>1 DEF Told
<1>. QED  BY <1>2 DEF Running, PcTyped

\* Who is told yes about a resolved request gave the answer the provider took.
LEMMA ToldStep ==
  ASSUME Running, NEW i \in ReqIds, NEW a \in Answers, Matches(i, a),
         accepted' = Told(claim[i].req, a), NEW p \in Answerers,
         \A q \in Answerers \ {p} : caller'[q] = caller[q],
         caller' \in [Answerers -> CallerStates], CallerOK(p)', ~Busy(p)',
         UNCHANGED <<setup, requested, open, applied, claim, res>>
  PROVE  Running'
<1>. DEFINE r == claim[i].req
<1>1. /\ claim[i].state = "resolved" /\ r \in Requests /\ r # 0 /\ applied[r] = a
      /\ accepted[r] \subseteq {a}
  BY ClaimFacts DEF Matches, OtherOK, Sound
<1>2. /\ accepted' \in [Requests -> SUBSET Answers] /\ accepted'[r] \subseteq {a}
      /\ \A s \in Requests \ {r} : accepted'[s] = accepted[s]
  BY <1>1, ToldOne
<1>3. Touches(i)
  <2>1. r \in open => applied[r] = "none"
    BY <1>1 DEF Running, RequestOK
  <2>. QED  BY <1>1, <1>2, <2>1 DEF Touches
<1>4. PcTyped'
  BY <1>2 DEF Running, PcTyped
<1>5. ControlOK(i)' /\ OtherOK(i)'
  BY <1>1, <1>2, ClaimFacts DEF ControlOK, OtherOK, ControlOwned, Sound, Matches
<1>6. ResolverOK'
  BY <1>1, <1>3, ResolverOvertaken DEF Direct
<1>. QED  BY <1>1, <1>3, <1>4, <1>5, <1>6, CallerMoves

LEMMA AnswerStep ==
  ASSUME Running, NEW p \in Answerers, NEW i \in ReqIds, NEW a \in Says[p], AnswerPermission(p, i, a)
  PROVE  Running'
<1>1. a \in Answers
  BY ClaimAssumption
<1>2. UNCHANGED <<setup, requested, open, applied, claim, res>> /\ caller[p].pc = "idle"
  BY DEF AnswerPermission
<1>3. CASE UNCHANGED caller
  <2>1. CallerOK(p)' /\ ~Busy(p)' /\ caller' \in [Answerers -> CallerStates]
    BY <1>2, <1>3 DEF CallerOK, Busy, Running, PcTyped
  <2>2. (accepted' = Told(claim[i].req, a) /\ Matches(i, a)) \/ UNCHANGED accepted
    BY DEF AnswerPermission
  <2>3. CASE UNCHANGED accepted
    BY <1>2, <1>3, <2>1, <2>3, CallerWalks DEF CallerOK
  <2>. QED  BY <1>1, <1>2, <1>3, <2>1, <2>2, <2>3, ToldStep
<1>4. CASE UNCHANGED accepted /\ caller' = [caller EXCEPT ![p] = [IdleCaller EXCEPT
                                     !.pc = "deliver", !.id = i, !.answer = a]]
  <2>. DEFINE k == [IdleCaller EXCEPT !.pc = "deliver", !.id = i, !.answer = a]
  <2>1. k \in CallerStates /\ k.pc = "deliver" /\ k.id = i /\ k.answer = a
    BY <1>1 DEF IdleCaller, CallerStates
  <2>. HIDE DEF k
  <2>2. /\ caller' \in [Answerers -> CallerStates] /\ caller'[p] = k
        /\ \A q \in Answerers \ {p} : caller'[q] = caller[q]
    BY <1>4, <2>1 DEF Running, PcTyped, k
  <2>. QED  BY <1>1, <1>2, <1>4, <2>1, <2>2, CallerWalks DEF Busy
<1>. QED  BY <1>3, <1>4 DEF AnswerPermission

LEMMA ForgetStep ==
  ASSUME Running, NEW p \in Answerers, forget(p)
  PROVE  Running'
<1>1. /\ caller' \in [Answerers -> CallerStates] /\ caller'[p] = IdleCaller
      /\ \A q \in Answerers \ {p} : caller'[q] = caller[q]
  BY IdleTyped DEF forget, Running, PcTyped
<1>2. UNCHANGED <<setup, requested, open, applied, accepted, claim, res>>
  BY DEF forget
<1>. QED  BY <1>1, <1>2, IdleTyped, CallerWalks DEF Busy

\* An answer goes into the channel of a claim that control owns.
LEMMA DeliveredStep ==
  ASSUME Running, NEW p \in Answerers, NEW i \in ReqIds, NEW a \in Answers, NEW r \in Requests,
         caller[p].pc = "deliver", caller[p].id = i, caller[p].answer = a, claim[i].req = r,
         ControlOwned(i), ~claim[i].queued,
         claim' = [claim EXCEPT ![i].queue = a, ![i].queued = TRUE],
         accepted' = Told(r, a),
         caller' = [caller EXCEPT ![p].pc = "forget", ![p].req = r],
         UNCHANGED <<setup, requested, open, applied, res>>
  PROVE  Running'
<1>. DEFINE c == [claim[i] EXCEPT !.queue = a, !.queued = TRUE]
            k == [caller[p] EXCEPT !.pc = "forget", !.req = r]
<1>1. /\ claim[i] \in Claims /\ caller[p] \in CallerStates /\ r \in Nat
      /\ claim[i].state \in {"reserved", "control"}
  BY ClaimFacts, CallerFacts DEF ControlOwned, Requests
<1>2. /\ c \in Claims /\ c.state = claim[i].state /\ c.req = r /\ c.queue = a /\ c.queued = TRUE
  BY <1>1 DEF Claims
<1>3. k \in CallerStates /\ k.pc = "forget" /\ k.id = i /\ k.answer = a
  BY <1>1 DEF CallerStates
<1>4. claim' = [claim EXCEPT ![i] = c] /\ caller' = [caller EXCEPT ![p] = k]
  OBVIOUS
<1>. HIDE DEF c, k
<1>5. /\ claim' \in [ReqIds -> Claims] /\ claim'[i] = c
      /\ \A j \in ReqIds \ {i} : claim'[j] = claim[j]
      /\ caller' \in [Answerers -> CallerStates] /\ caller'[p] = k
      /\ \A q \in Answerers \ {p} : caller'[q] = caller[q]
  <2>1. claim \in [ReqIds -> Claims] /\ caller \in [Answerers -> CallerStates]
    BY DEF Running, PcTyped
  <2>2. /\ claim' \in [ReqIds -> Claims] /\ claim'[i] = c
        /\ \A j \in ReqIds \ {i} : claim'[j] = claim[j]
    BY <2>1, <1>2, <1>3, <1>4
  <2>3. /\ caller' \in [Answerers -> CallerStates] /\ caller'[p] = k
        /\ \A q \in Answerers \ {p} : caller'[q] = caller[q]
    BY <2>1, <1>2, <1>3, <1>4
  <2>. QED  BY <2>2, <2>3
<1>6. accepted[r] = {} /\ (applied[r] # "none" => res.id = i /\ res.pc = "mark")
  BY ClaimFacts DEF ControlOK
<1>7. /\ accepted' \in [Requests -> SUBSET Answers] /\ accepted'[r] = {a}
      /\ \A s \in Requests \ {r} : accepted'[s] = accepted[s]
  BY <1>6, ToldOne
<1>8. PcTyped'
  BY <1>5, <1>7 DEF Running, PcTyped
<1>9. Touches(i)
  <2>1. r \in open => applied[r] = "none"
    BY DEF Running, RequestOK
  <2>. QED  BY <1>1, <1>2, <1>5, <1>7, <2>1 DEF Touches
<1>10. ControlOK(i)' /\ OtherOK(i)'
  <2>1. a # "none"
    BY ClaimAssumption
  <2>. QED  BY <1>1, <1>2, <1>5, <1>6, <1>7, <2>1 DEF ControlOK, OtherOK, ControlOwned
<1>11. ResolverOK'
  <2>1. CASE res.pc \in {"free", "prepare"} \/ res.id # i
    BY <1>9, <2>1, ResolverKept
  <2>2. CASE res.pc \notin {"free", "prepare"} /\ res.id = i
    <3>1. /\ res.req = r /\ res.req \in 1..requested /\ res.state # "unknown" /\ ResolverAt
      BY <2>2 DEF Running, ResolverOK
    <3>2. res.pc \notin {"answer", "mark"}
      BY <1>1, <2>2, <3>1 DEF ResolverAt
    <3>3. ResolverAt'
      BY <1>2, <1>5, <2>2, <3>1, <3>2 DEF ResolverAt
    <3>. QED  BY <1>2, <1>5, <2>2, <3>1, <3>3 DEF ResolverOK
  <2>. QED  BY <2>1, <2>2
<1>12. CallerOK(p)' /\ ~Busy(p)'
  BY <1>3, <1>5 DEF CallerOK, Busy
<1>. QED  BY <1>1, <1>5, <1>8, <1>9, <1>10, <1>11, <1>12, CallerMoves

\* The states of a claim that is left to a direct answer, between which a
\* caller moves it.
LEMMA DirectStep ==
  ASSUME Running, NEW p \in Answerers, NEW i \in ReqIds, NEW to \in {"noResolver", "directDelivery"},
         claim[i].state \in {"noResolver", "directDelivery"},
         claim' = [claim EXCEPT ![i].state = to],
         NEW k \in CallerStates, caller' = [caller EXCEPT ![p] = k],
         k.pc # "idle" => k.id = i /\ k.answer \in Answers,
         k.pc \in {"direct", "write"} => to = "directDelivery" /\ k.req = claim[i].req,
         k.pc = "write" => applied'[k.req] = k.answer,
         claim[i].state = "directDelivery" => Busy(p) /\ caller[p].id = i,
         \/ UNCHANGED <<open, applied>>
         \/ /\ open' = open \ {claim[i].req}
            /\ \E a \in Answers : applied' = [applied EXCEPT ![claim[i].req] = a],
         UNCHANGED <<setup, requested, accepted, res>>
  PROVE  Running'
<1>. DEFINE c == [claim[i] EXCEPT !.state = to]
            r == claim[i].req
<1>1. /\ claim[i] \in Claims /\ r \in Requests /\ claim[i].queue = "none" /\ accepted[r] = {}
  BY ClaimFacts DEF ControlOwned, OtherOK
<1>2. c \in Claims /\ c.state = to /\ c.req = r /\ c.queue = "none"
  BY <1>1 DEF Claims, ClaimStates
<1>3. claim' = [claim EXCEPT ![i] = c]
  OBVIOUS
<1>. HIDE DEF c
<1>4. /\ claim' \in [ReqIds -> Claims] /\ claim'[i] = c
      /\ \A j \in ReqIds \ {i} : claim'[j] = claim[j]
      /\ caller' \in [Answerers -> CallerStates] /\ caller'[p] = k
      /\ \A q \in Answerers \ {p} : caller'[q] = caller[q]
  <2>1. claim \in [ReqIds -> Claims] /\ caller \in [Answerers -> CallerStates]
    BY DEF Running, PcTyped
  <2>2. /\ claim' \in [ReqIds -> Claims] /\ claim'[i] = c
        /\ \A j \in ReqIds \ {i} : claim'[j] = claim[j]
    BY <2>1, <1>2, <1>3
  <2>3. /\ caller' \in [Answerers -> CallerStates] /\ caller'[p] = k
        /\ \A q \in Answerers \ {p} : caller'[q] = caller[q]
    BY <2>1, <1>2, <1>3
  <2>. QED  BY <2>2, <2>3
<1>5. /\ applied' \in [Requests -> Answers \cup {"", "none"}] /\ open' \subseteq open
      /\ \A s \in Requests \ {r} : applied'[s] = applied[s]
      /\ r \in open' => applied'[r] = "none"
  BY <1>1 DEF Running, PcTyped, RequestOK
<1>6. PcTyped'
  BY <1>4, <1>5 DEF Running, PcTyped
<1>7. Touches(i)
  BY <1>2, <1>4, <1>5 DEF Touches
<1>8. ControlOK(i)' /\ OtherOK(i)'
  BY <1>1, <1>2, <1>4 DEF ControlOK, OtherOK, ControlOwned
<1>9. ResolverOK'
  BY <1>2, <1>4, <1>7, ResolverOvertaken DEF Direct
<1>10. CallerOK(p)' /\ (Busy(p)' => caller'[p].id = i)
  BY <1>2, <1>4 DEF CallerOK, Busy
<1>. QED  BY <1>4, <1>6, <1>7, <1>8, <1>9, <1>10, CallerMoves

LEMMA DeliverStep ==
  ASSUME Running, NEW p \in Answerers, DeliverPendingPermission(p)
  PROVE  Running'
<1>1. PICK i \in ReqIds, a \in Answers : i = caller[p].id /\ a = caller[p].answer
  BY CallerFacts DEF DeliverPendingPermission
<1>2. PICK r \in Nat : r = claim[i].req
  BY ClaimFacts
<1>3. /\ caller[p].pc = "deliver" /\ UNCHANGED <<setup, requested, open, applied, res>>
      /\ caller[p] \in CallerStates
  BY CallerFacts DEF DeliverPendingPermission
<1>4. CASE /\ ControlOwned(i) /\ ~ChannelFull(i)
           /\ claim' = [claim EXCEPT ![i].queue = a, ![i].queued = TRUE]
           /\ accepted' = Told(r, a)
           /\ caller' = [caller EXCEPT ![p].pc = "forget", ![p].req = r]
  <2>1. r \in Requests
    BY <1>2, <1>4, ClaimFacts DEF ControlOwned
  <2>. QED  BY <1>1, <1>2, <1>3, <1>4, <2>1, DeliveredStep DEF ChannelFull
<1>5. CASE /\ claim[i].state = "noResolver"
           /\ claim' = [claim EXCEPT ![i].state = "directDelivery"]
           /\ caller' = [caller EXCEPT ![p].pc = "direct", ![p].req = r]
           /\ UNCHANGED accepted
  <2>. DEFINE k == [caller[p] EXCEPT !.pc = "direct", !.req = r]
  <2>1. k \in CallerStates /\ k.pc = "direct" /\ k.id = i /\ k.answer = a /\ k.req = claim[i].req
    BY <1>1, <1>2, <1>3 DEF CallerStates
  <2>2. caller' = [caller EXCEPT ![p] = k]
    BY <1>5
  <2>. HIDE DEF k
  <2>. QED  BY <1>3, <1>5, <2>1, <2>2, DirectStep
<1>6. CASE /\ accepted' = IF Matches(i, a) THEN Told(r, a) ELSE accepted
           /\ caller' = [caller EXCEPT ![p] = IdleCaller]
           /\ UNCHANGED claim
  <2>1. /\ caller' \in [Answerers -> CallerStates] /\ caller'[p].pc = "idle"
        /\ \A q \in Answerers \ {p} : caller'[q] = caller[q]
    BY <1>6, IdleTyped DEF Running, PcTyped
  <2>2. CallerOK(p)' /\ ~Busy(p)'
    BY <2>1 DEF CallerOK, Busy
  <2>3. CASE Matches(i, a)
    BY <1>2, <1>3, <1>6, <2>1, <2>2, <2>3, ToldStep
  <2>4. CASE ~Matches(i, a)
    BY <1>3, <1>6, <2>1, <2>2, <2>4, CallerWalks
  <2>. QED  BY <2>3, <2>4
<1>. QED  BY <1>1, <1>2, <1>4, <1>5, <1>6 DEF DeliverPendingPermission

LEMMA BusyFacts ==
  ASSUME Running, NEW p \in Answerers, Busy(p)
  PROVE  /\ caller[p] \in CallerStates /\ caller[p].id \in ReqIds /\ caller[p].answer \in Answers
         /\ claim[caller[p].id].state = "directDelivery"
         /\ claim[caller[p].id].req = caller[p].req /\ caller[p].req \in Requests
         /\ claim \in [ReqIds -> Claims]
BY CallerFacts, ClaimFacts DEF Busy, Running, PcTyped

\* The provider did not take a direct answer, or it was not written down.
LEMMA RetryStep ==
  ASSUME Running, NEW p \in Answerers, Busy(p), claim' = Retried(caller[p].id),
         caller' = [caller EXCEPT ![p] = IdleCaller],
         UNCHANGED <<setup, requested, open, applied, accepted, res>>
  PROVE  Running'
<1>1. PICK i \in ReqIds : i = caller[p].id
  BY BusyFacts
<1>2. claim[i].state = "directDelivery" /\ claim' = [claim EXCEPT ![i].state = "noResolver"]
  BY <1>1, BusyFacts DEF Retried
<1>. QED  BY <1>1, <1>2, IdleTyped, DirectStep

LEMMA CallStep ==
  ASSUME Running, NEW p \in Answerers, CallDirectProvider(p)
  PROVE  Running'
<1>1. Busy(p) /\ UNCHANGED <<setup, requested, accepted, res>>
  BY DEF CallDirectProvider, Busy
<1>2. CASE /\ Takes(caller[p].req, caller[p].answer)
           /\ caller' = [caller EXCEPT ![p].pc = "write"]
           /\ UNCHANGED claim
  <2>1. PICK i \in ReqIds, r \in Requests, a \in Answers :
          i = caller[p].id /\ r = caller[p].req /\ a = caller[p].answer
    BY <1>1, BusyFacts
  <2>2. /\ open' = open \ {r} /\ applied' = [applied EXCEPT ![r] = a] /\ applied'[r] = a
        /\ claim[i].state = "directDelivery" /\ claim[i].req = r
    BY <1>1, <1>2, <2>1, BusyFacts DEF Takes, Running, PcTyped
  <2>. DEFINE k == [caller[p] EXCEPT !.pc = "write"]
  <2>3. k \in CallerStates /\ k.pc = "write" /\ k.id = i /\ k.answer = a /\ k.req = r
    BY <1>1, <2>1, BusyFacts DEF CallerStates
  <2>4. caller' = [caller EXCEPT ![p] = k]
    BY <1>2
  <2>. HIDE DEF k
  <2>5. claim' = [claim EXCEPT ![i].state = "directDelivery"]
    <3>1. claim[i] = [claim[i] EXCEPT !.state = "directDelivery"]
      BY <2>2, ClaimFacts DEF Claims
    <3>. QED  BY <1>1, <1>2, <3>1, BusyFacts
  <2>. QED  BY <1>1, <2>1, <2>2, <2>3, <2>4, <2>5, DirectStep
<1>3. CASE /\ Refuses /\ claim' = Retried(caller[p].id)
           /\ caller' = [caller EXCEPT ![p] = IdleCaller]
  BY <1>1, <1>3, RetryStep DEF Refuses
<1>. QED  BY <1>2, <1>3 DEF CallDirectProvider

LEMMA WriteStep ==
  ASSUME Running, NEW p \in Answerers, WriteDirectAnswer(p)
  PROVE  Running'
<1>0. Busy(p) /\ UNCHANGED <<setup, requested, open, applied, res>> /\ caller[p].pc = "write"
      /\ caller' = [caller EXCEPT ![p] = IdleCaller]
  BY DEF WriteDirectAnswer, Busy
<1>1. PICK i \in ReqIds, r \in Requests, a \in Answers :
        i = caller[p].id /\ r = caller[p].req /\ a = caller[p].answer
  BY <1>0, BusyFacts
<1>2. /\ claim[i].state = "directDelivery" /\ claim[i].req = r /\ accepted[r] = {} /\ applied[r] = a
  <2>1. claim[i].state = "directDelivery" /\ claim[i].req = r
    BY <1>0, <1>1, BusyFacts
  <2>. QED  BY <1>0, <1>1, <2>1, CallerFacts, ClaimFacts DEF OtherOK
<1>3. CASE claim' = Resolved(i, a) /\ accepted' = Told(r, a)
  <2>1. /\ claim' \in [ReqIds -> Claims] /\ \A j \in ReqIds \ {i} : claim'[j] = claim[j]
        /\ claim'[i].state = "resolved" /\ claim'[i].req = claim[i].req
        /\ claim'[i].queue = "none" /\ claim'[i].resolution = a
    BY <1>2, <1>3, ResolvedClaim
  <2>2. /\ accepted' \in [Requests -> SUBSET Answers] /\ accepted'[r] = {a}
        /\ \A s \in Requests \ {r} : accepted'[s] = accepted[s]
    BY <1>2, <1>3, ToldOne
  <2>3. /\ caller' \in [Answerers -> CallerStates] /\ caller'[p].pc = "idle"
        /\ \A q \in Answerers \ {p} : caller'[q] = caller[q]
    BY <1>0, IdleTyped DEF Running, PcTyped
  <2>4. Touches(i)
    <3>1. r \in open => applied[r] = "none"
      BY DEF Running, RequestOK
    <3>. QED  BY <1>0, <1>2, <2>1, <2>2, <3>1 DEF Touches
  <2>5. PcTyped'
    BY <1>0, <2>1, <2>2, <2>3 DEF Running, PcTyped
  <2>6. ControlOK(i)' /\ OtherOK(i)'
    BY <1>0, <1>2, <2>1, <2>2 DEF ControlOK, OtherOK, ControlOwned, Sound
  <2>7. ResolverOK'
    BY <1>0, <1>2, <2>1, <2>4, ResolverOvertaken DEF Direct
  <2>8. CallerOK(p)' /\ ~Busy(p)'
    BY <2>3 DEF CallerOK, Busy
  <2>. QED  BY <1>0, <1>1, <2>3, <2>4, <2>5, <2>6, <2>7, <2>8, CallerMoves
<1>4. CASE claim' = Retried(i) /\ UNCHANGED accepted
  BY <1>0, <1>1, <1>4, RetryStep
<1>. QED  BY <1>1, <1>3, <1>4 DEF WriteDirectAnswer

-----------------------------------------------------------------------------
(***************************************************************************)
(* Clients, the end of the run, and the invariant.                         *)
(***************************************************************************)
\* A disconnect that is signalled changes nothing but what the resolver sees of it.
LEMMA ScanStep ==
  ASSUME Running, NEW c \in Clients, signalClientDisconnect(c)
  PROVE  Running'
<1>1. UNCHANGED <<setup, requested, open, applied, accepted, res, caller>>
  BY DEF signalClientDisconnect
<1>2. claim' \in [ReqIds -> Claims]
  <2>1. claim \in [ReqIds -> Claims]
    BY DEF Running, PcTyped
  <2>2. \A i \in ReqIds : [claim[i] EXCEPT !.gone = TRUE] \in Claims
    BY <2>1 DEF Claims
  <2>. QED  BY <2>1, <2>2 DEF signalClientDisconnect
<1>3. ASSUME NEW i \in ReqIds
      PROVE  /\ claim'[i].state = claim[i].state /\ claim'[i].req = claim[i].req
             /\ claim'[i].queue = claim[i].queue /\ claim'[i].queued = claim[i].queued
             /\ claim'[i].resolution = claim[i].resolution
  <2>1. claim[i] \in Claims
    BY DEF Running, PcTyped
  <2>2. claim'[i] = claim[i] \/ claim'[i] = [claim[i] EXCEPT !.gone = TRUE]
    BY DEF signalClientDisconnect
  <2>. QED  BY <2>1, <2>2 DEF Claims
<1>4. PcTyped'
  BY <1>1, <1>2 DEF Running, PcTyped
<1>5. ASSUME NEW i \in ReqIds PROVE ClaimNamed(i)' /\ ControlOK(i)' /\ OtherOK(i)'
  <2>1. ClaimNamed(i)'
    <3>1. \A k \in ReqIds : claim'[k].req = claim[k].req /\ claim'[k].state = claim[k].state
      BY <1>3
    <3>2. ClaimNamed(i)
      BY ClaimFacts
    <3>. QED  BY <1>1, <3>1, <3>2 DEF ClaimNamed
  <2>2. ControlOK(i)'
    BY <1>1, <1>3, ClaimFacts DEF ControlOK, ControlOwned, InHand
  <2>3. OtherOK(i)'
    BY <1>1, <1>3, ClaimFacts DEF OtherOK, ControlOwned, Sound
  <2>. QED  BY <2>1, <2>2, <2>3
<1>6. \A r \in Requests : Claimed(r)' <=> Claimed(r)
  BY <1>3 DEF Claimed
<1>7. \A r \in Requests : RequestOK(r)'
  BY <1>1, <1>6 DEF Running, RequestOK, Sound
<1>8. CallersApart' /\ \A p \in Answerers : CallerOK(p)'
  <2>1. CallersApart'
    BY <1>1 DEF Running, CallersApart, Busy
  <2>2. ASSUME NEW p \in Answerers PROVE CallerOK(p)'
    BY <1>1, <1>3, CallerFacts DEF CallerOK, Busy
  <2>. QED  BY <2>1, <2>2
<1>9. ResolverOK'
  <2>1. CASE res.pc = "free"
    BY <1>1, <2>1 DEF ResolverOK
  <2>2. CASE res.pc = "prepare"
    <3>1. ~Claimed(res.req)'
      BY <1>1, <1>3, <2>2, ResolverFacts DEF Claimed
    <3>. QED  BY <1>1, <2>2, <3>1, ResolverFacts DEF ResolverOK, Running
  <2>3. CASE res.pc \notin {"free", "prepare"}
    <3>1. PICK i \in ReqIds : i = res.id
      BY <2>3, ResolverFacts
    <3>2. claim[i].req = res.req /\ ResolverAt /\ res.req \in 1..requested /\ res.state # "unknown"
      BY <2>3, <3>1 DEF Running, ResolverOK
    <3>3. ResolverAt'
      BY <1>1, <1>3, <3>1, <3>2 DEF ResolverAt
    <3>. QED  BY <1>1, <1>3, <2>3, <3>1, <3>2, <3>3 DEF ResolverOK
  <2>. QED  BY <2>1, <2>2, <2>3
<1>. QED  BY <1>4, <1>5, <1>7, <1>8, <1>9 DEF Running

LEMMA FrameStep ==
  ASSUME Running, UNCHANGED <<setup, requested, open, applied, accepted, claim, res, caller>>
  PROVE  Running'
<1>1. PcTyped'
  BY DEF Running, PcTyped
<1>2. ResolverOK'
  BY DEF Running, ResolverOK, ResolverAt, Claimed
<1>3. \A i \in ReqIds : ClaimNamed(i)' /\ ControlOK(i)' /\ OtherOK(i)'
  BY DEF Running, ClaimNamed, ControlOK, OtherOK, ControlOwned, InHand, Sound
<1>4. \A r \in Requests : RequestOK(r)'
  BY DEF Running, RequestOK, Claimed, Sound
<1>5. CallersApart' /\ \A q \in Answerers : CallerOK(q)'
  BY DEF Running, CallerOK, CallersApart, Busy
<1>. QED  BY <1>1, <1>2, <1>3, <1>4, <1>5 DEF Running

\* A session that is over stays over, and its context is cancelled.
LEMMA OverStays ==
  ASSUME PcIInv, PcNext
  PROVE  (over => over') /\ (over' => ~up') /\ over' \in BOOLEAN
<1>. DEFINE Goal == (over => over') /\ (over' => ~up') /\ over' \in BOOLEAN
<1>. USE DEF PcIInv
<1>1. ASSUME NEW c \in Clients, Connect(c) \/ Disconnect(c) \/ signalClientDisconnect(c)
      PROVE  Goal
  BY <1>1 DEF Connect, Disconnect, signalClientDisconnect
<1>2. ASSUME NEW i \in ReqIds, NEW u \in BOOLEAN, Request(i, u)
      PROVE  Goal
  BY <1>2 DEF Request
<1>3. ASSUME ResolverStep \/ FileAnswer
      PROVE  Goal \/ ResolverGivesUp
  BY <1>3 DEF ResolverStep, FileAnswer, PreparePermissionClaim, PublishRequest, StartAutomatic,
              BeginPermissionClaim, StartFallback, ReceiveAnswer, FileHandle, ProviderAnswer,
              MarkPermissionClaimResolved, LeaveUnresolved
<1>4. ASSUME ResolverGivesUp
      PROVE  Goal
  <2>1. PICK next \in {"resolved", "file", "noResolver"} :
          /\ next = "resolved" => ~up
          /\ IF HandoffAnswer(res.id) # "none" THEN UNCHANGED over
             ELSE over' = (over \/ next = "resolved")
    BY <1>4 DEF ResolverGivesUp, Fallback
  <2>2. up' = up
    BY <1>4 DEF ResolverGivesUp
  <2>. QED  BY <2>1, <2>2
<1>5. ASSUME NEW p \in Answerers, CallerStep(p)
      PROVE  Goal
  BY <1>5 DEF CallerStep, DeliverPendingPermission, forget, CallDirectProvider, WriteDirectAnswer
<1>6. ASSUME NEW p \in Answerers, NEW i \in ReqIds, NEW a \in Says[p], AnswerPermission(p, i, a)
      PROVE  Goal
  BY <1>6 DEF AnswerPermission
<1>7. ASSUME Cancel
      PROVE  Goal
  BY <1>7 DEF Cancel
<1>8. ASSUME clearRuntimePermissionOptions
      PROVE  Goal
  BY <1>8 DEF clearRuntimePermissionOptions
<1>9. Goal
  <2>. HIDE DEF Goal, PcIInv
  <2>. QED  BY <1>1, <1>2, <1>3, <1>4, <1>5, <1>6, <1>7, <1>8 DEF PcNext
<1>. QED  BY <1>9

LEMMA ClaimsInit == PcInit => PcIInv
<1>. SUFFICES ASSUME PcInit PROVE PcIInv
  OBVIOUS
<1>. USE DEF PcInit
<1>1. NoClaim \in Claims /\ NoClaim.state = "unknown" /\ NoClaim.req = 0 /\ NoClaim.queue = "none"
  BY DEF NoClaim, Claims, ClaimStates
<1>2. \A i \in ReqIds : claim[i] = NoClaim
  OBVIOUS
<1>3. \A p \in Answerers : caller[p].pc = "idle"
  BY IdleTyped
<1>4. PcTyped
  <2>1. requested \in 0..MaxRequests
    <3>1. requested = 0 /\ MaxRequests \in Nat
      BY ClaimAssumption
    <3>. HIDE DEF PcInit
    <3>. QED  BY <3>1
  <2>2. caller \in [Answerers -> CallerStates] /\ claim \in [ReqIds -> Claims]
    BY <1>1, IdleTyped
  <2>. QED  BY <2>1, <2>2, FreeTyped DEF PcTyped
<1>5. ResolverOK
  BY FreeTyped DEF ResolverOK
<1>6. \A i \in ReqIds : ClaimNamed(i) /\ ControlOK(i) /\ OtherOK(i)
  BY <1>1, <1>2 DEF ClaimNamed, ControlOK, OtherOK, ControlOwned
<1>7. CallersApart /\ \A p \in Answerers : CallerOK(p)
  BY <1>3 DEF CallersApart, CallerOK, Busy
<1>8. \A r \in Requests : RequestOK(r)
  BY DEF RequestOK, Sound
<1>9. Running
  BY <1>4, <1>5, <1>6, <1>7, <1>8 DEF Running
<1>. QED  BY <1>9 DEF PcIInv

LEMMA RunningKept ==
  ASSUME Running, ~over, ~over', PcNext
  PROVE  Running'
<1>1. ASSUME NEW c \in Clients, Connect(c) \/ Disconnect(c) PROVE Running'
  BY <1>1, FrameStep DEF Connect, Disconnect
<1>2. ASSUME NEW c \in Clients, signalClientDisconnect(c) PROVE Running'
  BY <1>2, ScanStep
<1>3. ASSUME NEW i \in ReqIds, NEW u \in BOOLEAN, Request(i, u) PROVE Running'
  BY <1>3, RequestStep
<1>4. ASSUME ResolverStep \/ FileAnswer PROVE Running'
  BY <1>4, PrepareStep, PublishStep, StartAutomaticStep, BeginStep, StartFallbackStep, WaitSteps,
     FileSteps, ProviderStep, MarkStep, LeaveStep DEF ResolverStep
<1>5. ASSUME NEW p \in Answerers, CallerStep(p) PROVE Running'
  BY <1>5, DeliverStep, ForgetStep, CallStep, WriteStep DEF CallerStep
<1>6. ASSUME NEW p \in Answerers, NEW i \in ReqIds, NEW a \in Says[p], AnswerPermission(p, i, a)
      PROVE  Running'
  BY <1>6, AnswerStep
<1>7. ASSUME Cancel PROVE Running'
  BY <1>7, FrameStep DEF Cancel
<1>8. ~clearRuntimePermissionOptions
  BY DEF clearRuntimePermissionOptions
<1>. QED  BY <1>1, <1>2, <1>3, <1>4, <1>5, <1>6, <1>7, <1>8 DEF PcNext

\* The invariant of the claims of a run, for any clients, callers and request
\* IDs: where the resolver, the callers and the claims are, in every
\* interleaving of resolvePermission with the control server's handlers.
THEOREM ClaimsInductive == PcSpec => []PcIInv
<1>1. PcInit => PcIInv
  BY ClaimsInit
<1>2. PcIInv /\ [PcNext]_pcVars => PcIInv'
  <2>1. ASSUME PcIInv, PcNext PROVE PcIInv'
    <3>1. (over => over') /\ (over' => ~up') /\ over' \in BOOLEAN
      BY <2>1, OverStays
    <3>2. ~over' => Running'
      BY <2>1, <3>1, RunningKept DEF PcIInv
    <3>. QED  BY <3>1, <3>2 DEF PcIInv
  <2>2. ASSUME PcIInv, UNCHANGED pcVars PROVE PcIInv'
    <3>1. UNCHANGED <<setup, up, over, requested, open, applied, accepted, claim, res, caller>>
      BY <2>2 DEF pcVars
    <3>. QED  BY <2>2, <3>1, FrameStep DEF PcIInv
  <2>. QED  BY <2>1, <2>2
<1>. QED  BY <1>1, <1>2, PTL DEF PcSpec

\* Two callers are never both told yes to different answers, and the provider
\* never took another one, while the session runs: of the channel send in
\* DeliverPendingPermission, the direct delivery and the comparison with the
\* resolution at most one says yes first.
THEOREM AcceptedAgree == PcSpec => []AcceptedAnswersAgree
<1>1. PcIInv => AcceptedAnswersAgree
  <2>. SUFFICES ASSUME Running, NEW r \in Requests
                PROVE  /\ Cardinality(accepted[r]) <= 1
                       /\ applied[r] # "none" => accepted[r] \subseteq {applied[r]}
    BY DEF PcIInv, AcceptedAnswersAgree
  <2>1. (applied[r] # "none" => accepted[r] \subseteq {applied[r]}) /\ \E a : accepted[r] \subseteq {a}
    <3>1. CASE ~Claimed(r)
      BY <3>1 DEF Running, RequestOK, Sound
    <3>2. CASE Claimed(r)
      <4>1. PICK i \in ReqIds : claim[i].req = r
        BY <3>2 DEF Claimed
      <4>2. claim[i].state # "unknown" /\ claim[i].state \in ClaimStates /\ claim[i].queued \in BOOLEAN
        BY <4>1, ClaimFacts DEF ClaimNamed, Requests
      <4>3. CASE ControlOwned(i)
        <5>1. applied[r] # "none" => res.id = i /\ res.pc = "mark"
          BY <4>1, <4>3, ClaimFacts DEF ControlOK
        <5>2. res.id = i /\ res.pc = "mark" =>
                 /\ claim[i].queued /\ claim[i].queue = "none" /\ applied[r] = res.hand
          BY <4>1, <4>3, ResolverFacts DEF ResolverAt, ControlOwned
        <5>. QED  BY <4>1, <4>2, <4>3, <5>1, <5>2, ClaimFacts DEF ControlOK
      <4>4. CASE ~ControlOwned(i)
        BY <4>1, <4>2, <4>4, ClaimFacts DEF OtherOK, Sound, ControlOwned, ClaimStates
      <4>. QED  BY <4>3, <4>4
    <3>. QED  BY <3>1, <3>2
  <2>2. PICK a : accepted[r] \subseteq {a}
    BY <2>1
  <2>3. IsFiniteSet({a}) /\ Cardinality({a}) = 1
    BY FS_Singleton
  <2>4. Cardinality(accepted[r]) <= 1
    BY <2>2, <2>3, FS_Subset
  <2>. QED  BY <2>1, <2>4
<1>. QED  BY <1>1, ClaimsInductive, PTL

\* An answer a caller was told was accepted is never dropped while the run is
\* up: the hand-off of the claim, a timeout and a disconnect all find it in the
\* channel, or the resolver has it in hand, or the provider took it.
THEOREM AcceptedKept == PcSpec => []AcceptedAnswerIsKept
<1>1. PcIInv => AcceptedAnswerIsKept
  <2>. SUFFICES ASSUME Running, NEW r \in Requests, accepted[r] # {}, applied[r] = "none"
                PROVE  \/ \E i \in ReqIds : /\ claim[i].req = r /\ ControlOwned(i)
                                            /\ claim[i].queue \in accepted[r]
                       \/ res.req = r /\ res.pc = "answer" /\ res.hand \in accepted[r]
    BY DEF PcIInv, AcceptedAnswerIsKept
  <2>1. accepted[r] \subseteq Answers /\ "none" \notin Answers
    BY ClaimAssumption DEF Running, PcTyped
  <2>2. Claimed(r)
    BY <2>1 DEF Running, RequestOK, Sound
  <2>3. PICK i \in ReqIds : claim[i].req = r
    BY <2>2 DEF Claimed
  <2>4. claim[i].state # "unknown" /\ claim[i].state \in ClaimStates /\ claim[i].queued \in BOOLEAN
    BY <2>3, ClaimFacts DEF ClaimNamed, Requests
  <2>5. ControlOwned(i)
    BY <2>1, <2>3, <2>4, ClaimFacts DEF OtherOK, Sound, ControlOwned, ClaimStates
  <2>6. CASE claim[i].queue # "none"
    BY <2>3, <2>4, <2>5, <2>6, ClaimFacts DEF ControlOK
  <2>7. CASE claim[i].queue = "none"
    <3>1. InHand(i) /\ accepted[r] = {res.hand}
      BY <2>3, <2>4, <2>5, <2>7, ClaimFacts DEF ControlOK
    <3>2. res.req = r /\ (res.pc = "mark" => applied[r] = res.hand)
      BY <2>3, <3>1, ResolverFacts DEF InHand, ResolverAt
    <3>. QED  BY <2>1, <3>1, <3>2 DEF InHand
  <2>. QED  BY <2>6, <2>7
<1>. QED  BY <1>1, ClaimsInductive, PTL
=============================================================================
