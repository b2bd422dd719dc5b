---------------------------- MODULE ApprovalGate ----------------------------
(***************************************************************************)
(* What the approval gate promises, without saying how: a gated tool call  *)
(* runs at most once and only after its request was granted, a request is  *)
(* ruled on at most once, and a ruling is never taken back.  Requests may  *)
(* also lapse, several at a time.  The state of a request lives in the     *)
(* approval_requests table, so nothing here is lost in a crash.            *)
(***************************************************************************)
EXTENDS Naturals

CONSTANTS Calls,   \* the tool calls agents make
          Gated    \* those whose tool has trust_level >= 2

VARIABLES verdict, \* verdict[c]: what became of the request of call c
          ran      \* ran[c]: how many times the tool of call c was started

vars == <<verdict, ran>>

Init ==
  /\ verdict = [c \in Calls |-> "none"]
  /\ ran = [c \in Calls |-> 0]

Ask(c) ==
  /\ c \in Gated
  /\ verdict[c] = "none"
  /\ verdict' = [verdict EXCEPT ![c] = "asked"]
  /\ UNCHANGED ran

Rule(c, v) ==
  /\ verdict[c] = "asked"
  /\ verdict' = [verdict EXCEPT ![c] = v]
  /\ UNCHANGED ran

Lapse(S) ==
  /\ \A c \in S : verdict[c] = "asked"
  /\ verdict' = [c \in Calls |-> IF c \in S THEN "lapsed" ELSE verdict[c]]
  /\ UNCHANGED ran

Run(c) ==
  /\ ran[c] = 0
  /\ c \in Gated => verdict[c] = "granted"
  /\ ran' = [ran EXCEPT ![c] = 1]
  /\ UNCHANGED verdict

Next ==
  \/ \E c \in Calls : Ask(c) \/ Run(c)
  \/ \E c \in Calls, v \in {"granted", "refused"} : Rule(c, v)
  \/ \E S \in SUBSET Calls : Lapse(S)

Spec == Init /\ [][Next]_vars
=============================================================================
