------------------------------- MODULE Mailbox -------------------------------
(***************************************************************************)
(* What the mailboxes promise, without runs, members, tables or receivers: *)
(* what may be said of a message to whoever sent it.  A message that is    *)
(* said to be sent can be read, then and for ever; one that is refused may *)
(* have come to be read all the same.  A message that awaits a result is   *)
(* told of once more, of how that ended: a completed one has its result,   *)
(* unless that was lost, a failed one has none and never will; only one    *)
(* that was dropped, alone or with the one in whose course it was sent,    *)
(* leaves it open.                                                         *)
(***************************************************************************)
CONSTANTS Messages

VARIABLES
  posted,  \* the messages that can be read
  results, \* those whose result can be read
  lost,    \* those whose result could not be kept
  told     \* told[m]: what the sender of m was told last

vars == <<posted, results, lost, told>>

Init ==
  /\ posted = {} /\ results = {} /\ lost = {}
  /\ told = [m \in Messages |-> "unsent"]

SayOf(m, what) == told' = [told EXCEPT ![m] = what]

(* "pending": the sender goes on waiting for the result. *)
Post(m, what) ==
  /\ told[m] = "unsent"
  /\ posted' = posted \cup {m}
  /\ SayOf(m, what)
  /\ UNCHANGED <<results, lost>>

Refuse(m) ==
  /\ told[m] = "unsent"
  /\ posted' \in {posted, posted \cup {m}}
  /\ SayOf(m, "refused")
  /\ UNCHANGED <<results, lost>>

(* The result of a message that is awaited is kept, or lost, once. *)
Answer(m) ==
  /\ told[m] = "pending" /\ m \notin results \cup lost
  /\ \/ results' = results \cup {m} /\ UNCHANGED lost
     \/ lost' = lost \cup {m} /\ UNCHANGED results
  /\ UNCHANGED <<posted, told>>

(* "dropped": nobody waits any more, whether there is a result or not. *)
Dropping(S) == [m \in Messages |-> IF m \in S THEN "dropped" ELSE told[m]]
Awaited == {m \in Messages : told[m] = "pending"}

(* With m, others that are awaited may be dropped. *)
End(m, what, others) ==
  /\ m \in Awaited \ others /\ others \subseteq Awaited
  /\ what = "completed" => m \in results \cup lost
  /\ what = "failed" => m \notin results \cup lost
  /\ told' = [Dropping(others) EXCEPT ![m] = what]
  /\ UNCHANGED <<posted, results, lost>>

Drop(S) ==
  /\ S \subseteq Awaited
  /\ told' = Dropping(S)
  /\ UNCHANGED <<posted, results, lost>>

Next ==
  \/ \E S \in SUBSET Messages :
       \/ Drop(S)
       \/ \E m \in Messages, what \in {"completed", "failed", "dropped"} : End(m, what, S)
  \/ \E m \in Messages :
       \/ \E what \in {"sent", "pending"} : Post(m, what)
       \/ Refuse(m) \/ Answer(m)

Spec == Init /\ [][Next]_vars
=============================================================================
