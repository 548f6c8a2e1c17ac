---------------------------- MODULE EventHistory ----------------------------
(***************************************************************************)
(* What the durable store promises its callers: the authoritative state of *)
(* an instance is an append-only history of events.  Whatever fails, an    *)
(* event is appended at most once, events are never reordered, and events  *)
(* of a command whose call returned success are never lost.                *)
(*                                                                         *)
(* A repetition of a command may be told that the command is done.  It can *)
(* rely on that as long as nothing has failed: then the call that did the  *)
(* work had its success.  After a failure nothing is promised to it: what  *)
(* it was told is done may be half done, or be lost again.                 *)
(***************************************************************************)
EXTENDS Naturals, Sequences

CONSTANT Commands

VARIABLES
  hist,      \* the events applied to the authoritative snapshot, in order
  acked,     \* commands reported as committed by the call that committed them
  repeated,  \* commands of which a repetition was told that they are done
  failed     \* a write, a process or the machine has failed

histVars == <<hist, acked, repeated, failed>>

Members(h) == {<<h[n].cmd, h[n].idx>> : n \in DOMAIN h}
CommandsOf(h) == {h[n].cmd : n \in DOMAIN h}

Init == hist = << >> /\ acked = {} /\ repeated = {} /\ failed = FALSE

\* New events are appended, each of them for the first time.
Extend ==
  /\ Len(hist') > Len(hist)
  /\ SubSeq(hist', 1, Len(hist)) = hist
  /\ \A m, n \in DOMAIN hist' :
       m # n => <<hist'[m].cmd, hist'[m].idx>> # <<hist'[n].cmd, hist'[n].idx>>
  /\ UNCHANGED acked

\* A command whose events are in the history is reported as committed.
Acknowledge ==
  /\ \E c \in CommandsOf(hist) : acked' = acked \cup {c}
  /\ UNCHANGED hist

\* A power loss may drop a suffix of events that belong to no reported command.
Forget ==
  /\ failed'
  /\ \E n \in 0..(Len(hist) - 1) :
       /\ hist' = SubSeq(hist, 1, n)
       /\ CommandsOf(SubSeq(hist, n + 1, Len(hist))) \cap acked = {}
  /\ UNCHANGED acked

\* What a repetition is told, with no effect on the history but that of the load
\* that found the command.
Repeat ==
  \E c \in Commands : /\ repeated' = repeated \cup {c}
                      /\ failed \/ c \in acked

Next ==
  /\ Extend \/ Acknowledge \/ Forget \/ UNCHANGED <<hist, acked>>
  /\ Repeat \/ UNCHANGED repeated
  /\ failed => failed'

Spec == Init /\ [][Next]_histVars
=============================================================================
