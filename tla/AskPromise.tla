----------------------------- MODULE AskPromise -----------------------------
(***************************************************************************)
(* What the ask store promises the parties of an ask, whatever is late,    *)
(* repeated or lost: an ask has one verdict, nobody changes it, and it is  *)
(* the only one that is ever reported.                                     *)
(***************************************************************************)
CONSTANT Ids

VARIABLES
  verdict,   \* ID -> "none", "open" or how the ask ended
  reported   \* the verdicts callers were told

Final == {"replied", "withdrawn", "timed-out", "lost"}

Init ==
  /\ verdict = [i \in Ids |-> "none"]
  /\ reported = {}

\* An ask is admitted; one that was withdrawn before it came never is.
Open(i) ==
  /\ verdict[i] = "none"
  /\ verdict' = [verdict EXCEPT ![i] = "open"]
  /\ UNCHANGED reported

\* Asks end, and a caller may learn of one of them in the same step.
Settle ==
  /\ verdict' \in [Ids -> Final \cup {"none", "open"}]
  /\ \A i \in Ids :
       verdict'[i] # verdict[i] => verdict[i] \in {"none", "open"} /\ verdict'[i] \in Final
  /\ \/ UNCHANGED reported
     \/ \E i \in Ids : verdict'[i] \in Final /\ reported' = reported \cup {<<i, verdict'[i]>>}

Next == Settle \/ \E i \in Ids : Open(i)

Spec == Init /\ [][Next]_<<verdict, reported>>
=============================================================================
