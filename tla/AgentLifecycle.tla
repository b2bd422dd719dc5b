--------------------------- MODULE AgentLifecycle ---------------------------
(***************************************************************************)
(* The lifecycle that agent-engine declares for an agent: the states of    *)
(* AgentState and the table of can_transition_to.  The runtime never calls *)
(* the table; AgentRun shows that it keeps to it all the same.             *)
(***************************************************************************)
CONSTANT Runs
VARIABLE state   \* state[r]: the AgentState of run r

States == {"idle", "planning", "executing", "reflecting", "waiting_approval",
           "completed", "failed", "suspended"}

CanTransitionTo(from, to) ==
  \/ from = "idle" /\ to \in {"planning", "executing"}
  \/ from = "planning" /\ to \in {"executing", "failed"}
  \/ /\ from = "executing"
     /\ to \in {"completed", "failed", "suspended", "waiting_approval", "planning",
                "reflecting"}
  \/ from = "reflecting" /\ to \in {"executing", "planning", "completed", "failed"}
  \/ from = "waiting_approval" /\ to \in {"executing", "suspended", "failed"}
  \/ from = "suspended" /\ to \in {"executing", "idle", "failed"}
  \/ from \in {"completed", "failed"} /\ to = "idle"

Init == state = [r \in Runs |-> "idle"]

(* transition: one run moves along the table. *)
Transition(r) ==
  \E to \in States :
    /\ CanTransitionTo(state[r], to)
    /\ state' = [state EXCEPT ![r] = to]

Next == \E r \in Runs : Transition(r)

Spec == Init /\ [][Next]_state
=============================================================================
