------------------------------ MODULE AskStore ------------------------------
(***************************************************************************)
(* The ask lifecycle of one broker: the edges, waiters, terminal fences    *)
(* and tell routes of messaging/askstore, over the inboxes of              *)
(* runtime/broker.  Every request (send, wait, reply, withdraw, poll) may  *)
(* arrive late, twice or never: a request is an action that is enabled     *)
(* whenever its caller may make it.                                        *)
(*                                                                         *)
(* Message IDs are versioned: the acceptance deadline is part of the ID.   *)
(* An ID names its sender and its target.  Edges and inbox entries are     *)
(* pointers in the code; here they are numbered by the admission that made *)
(* them.                                                                   *)
(***************************************************************************)
EXTENDS Naturals, Sequences, FiniteSets

CONSTANTS
  Runs,           \* runs with an inbox in this broker
  Ids,            \* versioned message IDs
  From,           \* ID -> the run that sends it
  To,             \* ID -> the run it is sent to
  Leavers,        \* bound: runs that may be deleted
  Waiters,        \* concurrent calls of Wait
  FenceCapacity,  \* records the store holds before it refuses new work
  AbsentQuota,    \* edge-absent fences of one sender
  MaxSends        \* bound: admissions in one behaviour

ASSUME AskAssumption ==
  /\ IsFiniteSet(Ids)
  /\ From \in [Ids -> Runs] /\ To \in [Ids -> Runs] /\ Leavers \subseteq Runs
  /\ FenceCapacity \in Nat /\ AbsentQuota \in Nat /\ MaxSends \in Nat

VARIABLES
  live,      \* runs with a record
  leaving,   \* runs whose record is gone and whose edges are not yet
  inbox,     \* ControlQueue of each run, a set of entries
  seen,      \* asks and tells that a poll has taken
  sent,      \* admissions so far: edge or tell, in order
  active,    \* ID -> number of its live edge, 0 without one
  outcome,   \* edge -> "open" or its terminal outcome
  gaveUp,    \* edges whose asker stopped waiting
  fence,     \* ID -> terminal record
  route,     \* tell routes, of messages and of their replies
  past,      \* IDs whose acceptance deadline has passed
  waiting,   \* waiter -> the edge it blocks on, 0 when it does not
  posting,   \* answers on their way into the asker's inbox
  told,      \* terminal outcomes reported to callers
  withdrawn  \* IDs withdrawn before their target saw them

askVars == <<live, leaving, inbox, seen, sent, active, outcome, gaveUp, fence,
             route, past, waiting, posting, told, withdrawn>>

-----------------------------------------------------------------------------
(***************************************************************************)
(* Records.  An entry is an ask or a tell with the number of its admission,*)
(* or the answer to an ID.  The handle of a fence is the entry that its    *)
(* remove function takes out of an inbox.                                  *)
(***************************************************************************)
Entry(kind, i, n) == [kind |-> kind, id |-> i, n |-> n]
NoEntry == [kind |-> "none"]
NoFence == [outcome |-> "none", absent |-> FALSE, delivered |-> FALSE,
            handle |-> NoEntry]
Fence(o, h) == [NoFence EXCEPT !.outcome = o, !.handle = h]
AbsentFence == [NoFence EXCEPT !.outcome = "withdrawn", !.absent = TRUE]
DeliveredFence == [NoFence EXCEPT !.outcome = "sent", !.delivered = TRUE]

Message(i) == <<i, "message">>
ReplyID(i) == <<i, "reply">>

Edges == DOMAIN sent
Asked(n) == Entry("ask", sent[n].id, n)
Fenced(i) == fence[i] # NoFence

fenceCount(F) ==
  Cardinality({i \in Ids : active[i] # 0}) + Cardinality(route)
    + Cardinality({i \in Ids : F[i] # NoFence /\ ~F[i].absent})
absentBySender(F, r) == Cardinality({i \in Ids : From[i] = r /\ F[i].absent})

Take(box, entries) == [r \in Runs |-> box[r] \ entries]
Report(i, o) == told' = told \cup {<<i, o>>}
Deliver(r, e) == [inbox EXCEPT ![r] = @ \cup {e}]

\* setFenceLocked and dropFenceLocked: the record that is replaced retracts the
\* entry it holds a handle of.
SetFence(i, f) ==
  /\ fence' = [fence EXCEPT ![i] = f]
  /\ inbox' = Take(inbox, {fence[i].handle})

\* Mutant: a fence is reclaimed before the deadline of its ID.
Reclaimable_Early(i) == fence[i].outcome \in {"sent", "replied"}

Reclaimable(i) == i \in past

\* reclaimLocked, which every Admit, RecordTellRoute, Withdraw and Prune runs.
Reclaimed == [i \in Ids |-> IF Reclaimable(i) THEN NoFence ELSE fence[i]]
ReclaimedBox == Take(inbox, {fence[i].handle : i \in {j \in Ids : Reclaimable(j)}})

AskInit ==
  /\ live = Runs /\ leaving = {}
  /\ inbox = [r \in Runs |-> {}] /\ seen = {}
  /\ sent = << >>
  /\ active = [i \in Ids |-> 0]
  /\ outcome = << >> /\ gaveUp = {}
  /\ fence = [i \in Ids |-> NoFence]
  /\ route = {} /\ past = {}
  /\ waiting = [w \in Waiters |-> 0]
  /\ posting = {} /\ told = {} /\ withdrawn = {}

-----------------------------------------------------------------------------
(***************************************************************************)
(* Admission.                                                              *)
(***************************************************************************)
\* Two runs never wait for each other.
mutualAsk(i) ==
  \E j \in Ids : active[j] # 0 /\ From[j] = To[i] /\ To[j] = From[i]

Refused(i, kind) ==
  \/ Reclaimed[i] # NoFence
  \/ active[i] # 0
  \/ Message(i) \in route
  \/ kind = "ask" /\ mutualAsk(i)
  \/ fenceCount(Reclaimed) >= FenceCapacity
  \/ To[i] \notin live

\* handleSend and Admit.  An expired ID is refused before anything else; a
\* refusal still reclaims, and reports the outcome of a fence.
Admit(i, kind) ==
  /\ From[i] \in live /\ i \notin past
  /\ \/ /\ Refused(i, kind)
        /\ fence' = Reclaimed /\ inbox' = ReclaimedBox
        /\ told' = IF Reclaimed[i].outcome \in {"none", "sent"} THEN told
                   ELSE told \cup {<<i, Reclaimed[i].outcome>>}
        /\ UNCHANGED <<sent, active, outcome, route>>
     \/ /\ ~Refused(i, kind) /\ Len(sent) < MaxSends
        /\ LET n == Len(sent) + 1
           IN /\ sent' = Append(sent, [id |-> i, kind |-> kind])
              /\ inbox' = [ReclaimedBox EXCEPT ![To[i]] = @ \cup {Entry(kind, i, n)}]
              /\ \/ /\ kind = "ask"
                    /\ active' = [active EXCEPT ![i] = n]
                    /\ outcome' = Append(outcome, "open")
                    /\ fence' = Reclaimed
                    /\ UNCHANGED route
                 \/ /\ kind = "tell"
                    /\ fence' = [Reclaimed EXCEPT ![i] = DeliveredFence]
                    /\ route' = route \cup {Message(i)}
                    /\ outcome' = Append(outcome, "sent")
                    /\ UNCHANGED active
        /\ UNCHANGED told
  /\ UNCHANGED <<live, leaving, seen, gaveUp, past, waiting, posting, withdrawn>>

-----------------------------------------------------------------------------
(***************************************************************************)
(* Waiting.                                                                *)
(***************************************************************************)
\* consumeLocked: the replied edge n leaves its record behind.
Consume(i) ==
  /\ active' = [active EXCEPT ![i] = 0]
  /\ SetFence(i, Fence("replied", NoEntry))

\* Wait, up to the block: a settled ask is reported at once.
Wait(w, i) ==
  /\ From[i] \in live /\ waiting[w] = 0
  /\ \/ /\ active[i] # 0 /\ outcome[active[i]] = "replied"
        /\ Report(i, "replied") /\ Consume(i)
        /\ UNCHANGED waiting
     \/ /\ active[i] # 0 /\ outcome[active[i]] = "open" /\ active[i] \notin gaveUp
        /\ waiting' = [waiting EXCEPT ![w] = active[i]]
        /\ UNCHANGED <<active, fence, inbox, told>>
     \/ /\ active[i] = 0 /\ fence[i].outcome \in {"withdrawn", "timed-out", "lost"}
        /\ Report(i, fence[i].outcome)
        /\ UNCHANGED <<active, fence, inbox, waiting>>
  /\ UNCHANGED <<live, leaving, seen, sent, outcome, gaveUp, route, past, posting,
                 withdrawn>>

\* waitOnEdge, the done channel.
WakeDone(w) ==
  LET n == waiting[w]  i == sent[n].id
  IN /\ n # 0 /\ outcome[n] # "open"
     /\ waiting' = [waiting EXCEPT ![w] = 0]
     /\ Report(i, outcome[n])
     /\ \/ outcome[n] = "replied" /\ Consume(i)
        \/ outcome[n] # "replied" /\ UNCHANGED <<active, fence, inbox>>
     /\ UNCHANGED <<live, leaving, seen, sent, outcome, gaveUp, route, past,
                    posting, withdrawn>>

\* waitOnEdge, the timer or the caller's context; select may take this case
\* although the edge is done.
WakeTimeout(w) ==
  LET n == waiting[w]
  IN /\ n # 0
     /\ waiting' = [waiting EXCEPT ![w] = 0]
     /\ gaveUp' = IF outcome[n] = "open" THEN gaveUp \cup {n} ELSE gaveUp
     /\ told' = told \cup {<<sent[n].id, "gave-up">>}
     /\ UNCHANGED <<live, leaving, inbox, seen, sent, active, outcome, fence,
                    route, past, posting, withdrawn>>

-----------------------------------------------------------------------------
(***************************************************************************)
(* Replies.                                                                *)
(***************************************************************************)
\* recordReplyRouteLocked.
RouteReply(i) ==
  route' = IF fenceCount(fence) < FenceCapacity THEN route \cup {ReplyID(i)} ELSE route

\* replyLocked on a live edge.  Somebody who still waits gets the answer; one
\* who gave up gets it as a message, delivered after the lock is released.
Reply(i) ==
  LET n == active[i]
  IN /\ To[i] \in live /\ n # 0
     /\ \E e \in seen : e.kind = "ask" /\ e.id = i
     /\ outcome[n] = "open"
     /\ outcome' = [outcome EXCEPT ![n] = "replied"]
     /\ RouteReply(i)
     /\ \/ /\ n \notin gaveUp
           /\ UNCHANGED <<active, fence, inbox, posting>>
        \/ /\ n \in gaveUp
           /\ Consume(i)
           /\ posting' = posting \cup {[id |-> i, late |-> TRUE, done |-> FALSE]}
     /\ UNCHANGED <<live, leaving, seen, sent, gaveUp, past, waiting, told,
                    withdrawn>>

\* The reply to a tell, or to an ask without an edge: its route is recorded
\* before it is delivered, and a route that exists refuses a repeated reply.
ReplyAbsent(i) ==
  /\ To[i] \in live /\ active[i] = 0
  /\ \E e \in seen : e.kind \in {"ask", "tell"} /\ e.id = i
  /\ ReplyID(i) \notin route
  /\ fenceCount(Reclaimed) < FenceCapacity
  /\ fence' = Reclaimed /\ inbox' = ReclaimedBox
  /\ route' = route \cup {ReplyID(i)}
  /\ posting' = posting \cup {[id |-> i, late |-> FALSE, done |-> FALSE]}
  /\ UNCHANGED <<live, leaving, seen, sent, active, outcome, gaveUp, past, waiting,
                 told, withdrawn>>

\* Tell and lateReplyDeliver: the answer is queued for the asker.  A tell that
\* fails retracts its route; a late answer whose asker is gone keeps it.
Post(p) ==
  LET i == p.id
  IN /\ p \in posting /\ ~p.done
     /\ \/ /\ From[i] \in live
           /\ inbox' = Deliver(From[i], Entry("answer", i, 0))
           /\ posting' = (posting \ {p}) \cup
                           (IF p.late THEN {[p EXCEPT !.done = TRUE]} ELSE {})
           /\ UNCHANGED route
        \/ /\ From[i] \notin live
           /\ posting' = posting \ {p}
           /\ route' = IF p.late THEN route ELSE route \ {ReplyID(i)}
           /\ UNCHANGED inbox
     /\ UNCHANGED <<live, leaving, seen, sent, active, outcome, gaveUp, fence, past,
                    waiting, told, withdrawn>>

\* Reply, after a late delivery: the fence gets the retraction handle.
KeepHandle(p) ==
  LET i == p.id
  IN /\ p \in posting /\ p.done
     /\ posting' = posting \ {p}
     /\ fence' = IF Fenced(i)
                   THEN [fence EXCEPT ![i].handle = Entry("answer", i, 0)]
                   ELSE fence
     /\ UNCHANGED <<live, leaving, inbox, seen, sent, active, outcome, gaveUp,
                    route, past, waiting, told, withdrawn>>

-----------------------------------------------------------------------------
(***************************************************************************)
(* Withdrawal, expiry and removal.                                         *)
(***************************************************************************)
\* Mutant: a withdrawal that finds no edge installs no fence.
AbsentRecord_None == NoFence

AbsentRecord == AbsentFence

Unseen(i) == ~ \E e \in seen : e.id = i /\ e.kind \in {"ask", "tell"}
Gone(i) == withdrawn' = IF Unseen(i) THEN withdrawn \cup {i} ELSE withdrawn

\* Withdraw: retracts the ask of a live edge, consumes an answer that won,
\* retracts what an expired ask left in a queue, or fences an unknown ID.
Withdraw(i) ==
  LET n == active[i]  f == Reclaimed[i]
  IN /\ From[i] \in live
     /\ \/ /\ n # 0 /\ outcome[n] = "replied"
           /\ active' = [active EXCEPT ![i] = 0]
           /\ fence' = [Reclaimed EXCEPT ![i] = Fence("replied", NoEntry)]
           /\ inbox' = ReclaimedBox
           /\ Report(i, "replied")
           /\ UNCHANGED <<outcome, withdrawn>>
        \/ /\ n # 0 /\ outcome[n] = "open"
           /\ active' = [active EXCEPT ![i] = 0]
           /\ outcome' = [outcome EXCEPT ![n] = "withdrawn"]
           /\ fence' = [Reclaimed EXCEPT ![i] = Fence("withdrawn", NoEntry)]
           /\ inbox' = Take(ReclaimedBox, {Asked(n)})
           /\ Report(i, "withdrawn") /\ Gone(i)
        \/ /\ n = 0 /\ f # NoFence
           /\ fence' = [Reclaimed EXCEPT ![i].handle = NoEntry]
           /\ inbox' = Take(ReclaimedBox, {f.handle})
           /\ told' = IF f.delivered THEN told ELSE told \cup {<<i, f.outcome>>}
           /\ \/ f.handle.kind = "ask" /\ Gone(i)
              \/ f.handle.kind # "ask" /\ UNCHANGED withdrawn
           /\ UNCHANGED <<active, outcome>>
        \/ /\ n = 0 /\ f = NoFence /\ i \notin past
           /\ absentBySender(Reclaimed, From[i]) < AbsentQuota
           /\ fence' = [Reclaimed EXCEPT ![i] = AbsentRecord]
           /\ inbox' = ReclaimedBox
           /\ Report(i, "withdrawn") /\ Gone(i)
           /\ UNCHANGED <<active, outcome>>
     /\ UNCHANGED <<live, leaving, seen, sent, gaveUp, route, past, waiting,
                    posting>>

\* The acceptance deadline of an ID passes.
PassDeadline(i) ==
  /\ i \notin past
  /\ past' = past \cup {i}
  /\ UNCHANGED <<live, leaving, inbox, seen, sent, active, outcome, gaveUp, fence,
                 route, waiting, posting, told, withdrawn>>

Overdue == {i \in past : active[i] # 0}

AfterPrune(i) == IF i \in Overdue THEN 0 ELSE active[i]

\* What completeLocked and consumeLocked leave of an edge that expires.
ExpiredFence(n) ==
  IF outcome[n] = "replied" THEN Fence("replied", NoEntry)
                            ELSE Fence("timed-out", Asked(n))

\* Prune: reclaims first, so that the record of an edge that expires now stays
\* until the next tick.  The route of a reply has a deadline of its own.
Prune ==
  /\ \E late \in SUBSET {k \in route : k[2] = "reply"} :
       route' = (route \ late) \ {Message(i) : i \in past}
  /\ fence' = [i \in Ids |-> IF i \in Overdue THEN ExpiredFence(active[i])
                                              ELSE Reclaimed[i]]
  /\ inbox' = ReclaimedBox
  /\ active' = [i \in Ids |-> AfterPrune(i)]
  /\ outcome' = [n \in Edges |->
                   IF outcome[n] = "open" /\ n \in {active[i] : i \in Overdue}
                     THEN "timed-out" ELSE outcome[n]]
  /\ UNCHANGED <<live, leaving, seen, sent, gaveUp, past, waiting, posting, told,
                 withdrawn>>

\* DeleteRun and the retirement of a peer: the record and its inbox go first ...
DeleteRun(r) ==
  /\ r \in live \cap Leavers
  /\ live' = live \ {r} /\ leaving' = leaving \cup {r}
  /\ inbox' = [inbox EXCEPT ![r] = {}]
  /\ UNCHANGED <<seen, sent, active, outcome, gaveUp, fence, route, past, waiting,
                 posting, told, withdrawn>>

\* ... then recordRemoved ends the asks and the routes of the run.  An ask that
\* is lost stays in the inbox of its target.
RemoveRun(r) ==
  LET ends(i) == r \in {From[i], To[i]}
      lost == {i \in Ids : ends(i) /\ active[i] # 0}
      open(i) == outcome[active[i]] = "open"
  IN /\ r \in leaving
     /\ leaving' = leaving \ {r}
     /\ outcome' = [n \in Edges |-> IF \E i \in lost : n = active[i] /\ open(i)
                                      THEN "lost" ELSE outcome[n]]
     /\ active' = [i \in Ids |-> IF i \in lost /\ open(i) THEN 0 ELSE active[i]]
     /\ fence' = [i \in Ids |-> IF i \in lost /\ open(i) THEN Fence("lost", NoEntry)
                                                         ELSE fence[i]]
     /\ inbox' = Take(inbox, {fence[i].handle : i \in {j \in lost : open(j)}})
     /\ route' = {k \in route : ~ends(k[1])}
     /\ UNCHANGED <<live, seen, sent, gaveUp, past, waiting, posting, told,
                    withdrawn>>

\* A poll takes what is queued.
Poll(r) ==
  /\ r \in live /\ inbox[r] # {}
  /\ seen' = seen \cup {e \in inbox[r] : e.kind # "answer"}
  /\ inbox' = [inbox EXCEPT ![r] = {}]
  /\ UNCHANGED <<live, leaving, sent, active, outcome, gaveUp, fence, route, past,
                 waiting, posting, told, withdrawn>>

-----------------------------------------------------------------------------
AskNext ==
  \/ \E i \in Ids :
       \/ \E kind \in {"ask", "tell"} : Admit(i, kind)
       \/ \E w \in Waiters : Wait(w, i)
       \/ Reply(i) \/ ReplyAbsent(i) \/ Withdraw(i) \/ PassDeadline(i)
  \/ \E w \in Waiters : WakeDone(w) \/ WakeTimeout(w)
  \/ \E p \in posting : Post(p) \/ KeepHandle(p)
  \/ Prune
  \/ \E r \in Runs : DeleteRun(r) \/ RemoveRun(r) \/ Poll(r)

AskSpec == AskInit /\ [][AskNext]_askVars

-----------------------------------------------------------------------------
(***************************************************************************)
(* Properties.                                                             *)
(***************************************************************************)
\* No replay: however often a message is sent again, before or after it was
\* answered, withdrawn, expired, lost or reclaimed, it is queued once (Admit,
\* and the records that completeLocked, consumeLocked and Prune leave); and one
\* that was withdrawn before its target saw it is never seen, although the send
\* may still be in flight (Withdraw, fenceAbsentLocked).
NoReplay ==
  /\ \A m, n \in Edges : sent[m].id = sent[n].id => m = n
  /\ \A i \in withdrawn :
       Unseen(i) /\ \A r \in Runs : \A e \in inbox[r] : e.id = i => e.kind = "answer"

\* The store stays within its capacity, whatever the order of sends, replies
\* and withdrawals, up to the records of messages whose deadline has passed.  A
\* tell is charged once and takes two records, its fence and its route; a waiter
\* that wakes after its edge was reclaimed writes a fence again until the next
\* prune (fenceCountLocked, recordTellRouteLocked, consumeLocked).
RecordsBounded ==
  /\ Cardinality({i \in Ids \ past : active[i] # 0})
       + Cardinality({i \in Ids \ past : Fenced(i) /\ ~fence[i].absent})
       + Cardinality(route) <= FenceCapacity + 1
  /\ \A r \in Runs : absentBySender(fence, r) <= AbsentQuota

\* What the callers are promised, see AskPromise.
Settled(i) == {o \in {outcome[n] : n \in {m \in Edges : sent[m].id = i}} : o # "sent"}
Verdict(i) ==
  IF Settled(i) # {} THEN CHOOSE o \in Settled(i) : TRUE
  ELSE IF <<i, "withdrawn">> \in told THEN "withdrawn" ELSE "none"
Promise == INSTANCE AskPromise
  WITH verdict <- [i \in Ids |-> Verdict(i)],
       reported <- {t \in told : t[2] # "gave-up"}

\* Every ask settles at most once, and everybody who is told how it ended is
\* told the same: the waiters, the caller that withdraws it and the caller that
\* sends it again.
KeepsPromise == Promise!Spec
=============================================================================
