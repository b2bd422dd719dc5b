----------------------------- MODULE MCServices -----------------------------
(***************************************************************************)
(* What keeps the daemon answering: its boot and restart, the worker       *)
(* threads and connections its operations share, and the way of a chat     *)
(* message through it.  They share no state with each other, so that each  *)
(* behaviour is one of a single component, chosen in the initial state;    *)
(* the others rest in a state where fairness asks nothing of them.         *)
(***************************************************************************)
EXTENDS Daemon, ConnectionPool, MessageRouter

VARIABLE component

Init ==
  /\ component \in {"daemon", "pool", "router"}
  /\ DaemonInit /\ (component # "daemon" => ~overdue)
  /\ IF component = "pool" THEN PoolInit ELSE phase = [o \in PoolOps |-> "done"]
  /\ RouterInit /\ (component # "router" => ~gateway)

Next ==
  /\ UNCHANGED component
  /\ \/ /\ component = "daemon" /\ DaemonNext
        /\ UNCHANGED <<poolVars, routerVars>>
     \/ /\ component = "pool" /\ PoolNext
        /\ UNCHANGED <<daemonVars, routerVars>>
     \/ /\ component = "router" /\ RouterNext
        /\ UNCHANGED <<daemonVars, poolVars>>

vars == <<component, daemonVars, poolVars, routerVars>>

(* The fairness of FairDaemonSpec, FairPoolSpec and FairRouterSpec, each   *)
(* for the behaviours of its component.                                    *)
Spec ==
  /\ Init /\ [][Next]_vars
  /\ WF_daemonVars(component = "daemon" /\ DaemonProgress)
  /\ WF_poolVars(component = "pool" /\ PoolNext)
  /\ RouterFairness
=============================================================================
