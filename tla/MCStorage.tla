----------------------------- MODULE MCStorage -----------------------------
(***************************************************************************)
(* The components that keep their state on disk: in tables, the audit log  *)
(* and the costs among them, and skills in a directory.  They share no     *)
(* state with each other, so that each behaviour is one of a single        *)
(* component, chosen in the initial state.                                 *)
(***************************************************************************)
EXTENDS MemoryStore, Migrations, Goals, Conversation, Administration, Skills,
        AuditLog, CostTracker, TLC

CONSTANTS scribe, nobody, fact, trifle, m1, m2

MCSymmetry == Permutations({m1, m2})

(* A private fact of the agent, the same for everyone, and a note of the   *)
(* dashboard.                                                              *)
MCNewMemories ==
  {[fact |-> fact, type |-> "semantic", agent |-> scribe, access |-> "private",
    importance |-> 3],
   [fact |-> fact, type |-> "semantic", agent |-> scribe, access |-> "workspace",
    importance |-> 6],
   [fact |-> trifle, type |-> "session", agent |-> nobody, access |-> "workspace",
    importance |-> 3]}

VARIABLE component

Init ==
  /\ component \in
       {"memory", "migrations", "goals", "conversation", "administration", "skills",
        "log", "costs"}
  /\ MemInit /\ MigInit /\ GoalInit /\ ConvInit /\ AdminInit /\ SkillsInit /\ LogInit
  /\ CostInit

Next ==
  /\ UNCHANGED component
  /\ \/ /\ component = "memory" /\ MemNext
        /\ UNCHANGED <<migVars, goalVars, convVars, adminVars, skillVars, logVars, costVars>>
     \/ /\ component = "migrations" /\ MigNext
        /\ UNCHANGED <<memVars, goalVars, convVars, adminVars, skillVars, logVars, costVars>>
     \/ /\ component = "goals" /\ GoalNext
        /\ UNCHANGED <<memVars, migVars, convVars, adminVars, skillVars, logVars, costVars>>
     \/ /\ component = "conversation" /\ ConvNext
        /\ UNCHANGED <<memVars, migVars, goalVars, adminVars, skillVars, logVars, costVars>>
     \/ /\ component = "administration" /\ AdminNext
        /\ UNCHANGED <<memVars, migVars, goalVars, convVars, skillVars, logVars, costVars>>
     \/ /\ component = "skills" /\ SkillsNext
        /\ UNCHANGED <<memVars, migVars, goalVars, convVars, adminVars, logVars, costVars>>
     \/ /\ component = "log" /\ LogNext
        /\ UNCHANGED <<memVars, migVars, goalVars, convVars, adminVars, skillVars, costVars>>
     \/ /\ component = "costs" /\ CostNext
        /\ UNCHANGED <<memVars, migVars, goalVars, convVars, adminVars, skillVars, logVars>>

vars == <<component, memVars, migVars, goalVars, convVars, adminVars, skillVars,
          logVars, costVars>>

Spec == Init /\ [][Next]_vars
=============================================================================
