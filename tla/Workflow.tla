------------------------------- MODULE Workflow -------------------------------
(***************************************************************************)
(* The workflow engine: Kahn's algorithm orders the nodes, then they are   *)
(* executed in this order, those that a satisfied edge of an executed node *)
(* leads to.  Nothing checks that the ends of an edge are defined nodes,   *)
(* nor that the list of nodes names each of them once: of nodes with one   *)
(* id the last is executed, and the others only count.                     *)
(*                                                                         *)
(* A conditional edge is one whose condition its source's output may or    *)
(* may not satisfy: an output is the set of the conditional edges that it  *)
(* satisfies.  Every output is a JSON object, so that "truthy", like an    *)
(* unknown condition or none, is always satisfied.                         *)
(***************************************************************************)
EXTENDS Naturals, Sequences, FiniteSets

CONSTANTS
  Nodes,     \* the ids of the defined nodes
  Dangling,  \* ids that edges name and no node has
  MaxEdges,  \* bound: edges of a definition
  MaxRepeats \* bound: nodes of a definition with the id of another one

ASSUME WorkflowAssumption ==
  /\ Nodes \cap Dangling = {} /\ IsFiniteSet(Nodes \cup Dangling)
  /\ MaxEdges \in Nat /\ MaxRepeats \in Nat

Edge == [from : Nodes \cup Dangling, to : Nodes \cup Dangling, conditional : BOOLEAN]

VARIABLES
  edges,     \* the definition ...
  repeats,   \* ... and how many of its nodes have the id of another one
  stage,     \* "sorting", "executing", or how the run ended
  inDegree,  \* of every node, and of every target of an edge
  queue,     \* the nodes without incoming edges left, in order
  order,     \* the order so far
  next,      \* the position in order that comes next
  reachable, \* nodes that may be executed
  executed   \* executed nodes: the conditional edges their output satisfied

definition == <<edges, repeats>>
workflowVars == <<definition, stage, inDegree, queue, order, next, reachable, executed>>

Targets == {e.to : e \in edges}
Into(n) == {e \in edges : e.to = n}
OutOf(n) == {e \in edges : e.from = n}
Permutations(S) == {s \in [1 .. Cardinality(S) -> S] : {s[i] : i \in DOMAIN s} = S}

(* Every edge counts. *)
Degree == [n \in Nodes \cup Targets |-> Cardinality(Into(n))]

(* A run of a definition. *)
StartsWith(E, r) ==
  /\ edges = E /\ repeats = r
  /\ stage = "validating"
  /\ inDegree = <<>> /\ queue = <<>> /\ order = <<>>
  /\ next = 1
  /\ reachable = {}
  /\ executed = <<>>

WorkflowInit ==
  \E r \in 0 .. MaxRepeats, k \in 0 .. MaxEdges :
    \E e \in [1 .. k -> Edge] : StartsWith({e[i] : i \in 1 .. k}, r)

(* The in-degrees, and the first nodes of the queue in the order of a map. *)
StartSort ==
  /\ stage = "validating"
  /\ stage' = "sorting"
  /\ inDegree' = Degree
  /\ queue' \in Permutations({n \in DOMAIN inDegree' : inDegree'[n] = 0})
  /\ UNCHANGED <<definition, order, next, reachable, executed>>

(* One node is ordered; those it was the last to hold back follow in the   *)
(* order of the edges.                                                     *)
OrderNode ==
  /\ stage = "sorting" /\ queue # <<>>
  /\ LET n == Head(queue)
         Held(m) == Cardinality({e \in OutOf(n) : e.to = m})
         left == [m \in DOMAIN inDegree |-> inDegree[m] - Held(m)]
         freed == {e.to : e \in OutOf(n)} \cap {m \in DOMAIN left : left[m] = 0}
     IN /\ order' = Append(order, n)
        /\ inDegree' = left
        /\ \E s \in Permutations(freed) : queue' = Tail(queue) \o s
  /\ UNCHANGED <<definition, stage, next, reachable, executed>>

(* The length of the order, compared with that of the list of nodes,       *)
(* decides whether there is a cycle; the nodes without incoming edges are  *)
(* reachable.                                                              *)
EndSort ==
  /\ stage = "sorting" /\ queue = <<>>
  /\ stage' = IF Len(order) = Cardinality(Nodes) + repeats THEN "executing" ELSE "cycle"
  /\ reachable' = Nodes \ Targets
  /\ UNCHANGED <<definition, inDegree, queue, order, next, executed>>

Skip ==
  /\ stage = "executing" /\ next <= Len(order)
  /\ order[next] \notin reachable
  /\ next' = next + 1
  /\ UNCHANGED <<definition, stage, inDegree, queue, order, reachable, executed>>

(* Slip: the condition is ignored. *)
TraverseAll(e, output) == TRUE

(* should_traverse_edge. *)
ShouldTraverse(e, output) == e.conditional => e \in output

(* execute_node, and the edges that its output satisfies. *)
Execute ==
  /\ stage = "executing" /\ next <= Len(order)
  /\ order[next] \in reachable \cap Nodes
  /\ \E output \in SUBSET {e \in OutOf(order[next]) : e.conditional} :
       /\ executed' = [n \in DOMAIN executed \cup {order[next]} |->
                         IF n = order[next] THEN output ELSE executed[n]]
       /\ reachable' = reachable \cup {e.to : e \in {d \in OutOf(order[next]) : ShouldTraverse(d, output)}}
  /\ next' = next + 1
  /\ UNCHANGED <<definition, stage, inDegree, queue, order>>

(* A tool or an agent fails, or a reachable node is not defined. *)
Fail ==
  /\ stage = "executing" /\ next <= Len(order)
  /\ order[next] \in reachable
  /\ stage' = "failed"
  /\ UNCHANGED <<definition, inDegree, queue, order, next, reachable, executed>>

Complete ==
  /\ stage = "executing" /\ next > Len(order)
  /\ stage' = "completed"
  /\ UNCHANGED <<definition, inDegree, queue, order, next, reachable, executed>>

WorkflowNext == StartSort \/ OrderNode \/ EndSort \/ Skip \/ Execute \/ Fail \/ Complete
WorkflowSpec == WorkflowInit /\ [][WorkflowNext]_workflowVars

-----------------------------------------------------------------------------
WorkflowTypeOK ==
  /\ edges \subseteq Edge /\ repeats \in 0 .. MaxRepeats
  /\ stage \in {"validating", "sorting", "executing", "completed", "failed", "cycle"}
  /\ DOMAIN executed \subseteq Nodes
  /\ next \in 1 .. Len(order) + 1

WellFormed == \A e \in edges : e.from \in Nodes /\ e.to \in Nodes
Cyclic == \E S \in SUBSET Nodes : S # {} /\ \A n \in S : \E e \in Into(n) : e.from \in S
Decided == stage \notin {"validating", "sorting"}

(* A definition whose edges join defined nodes is refused if, and only if, *)
(* it has a cycle or repeats an id: parallel edges and loops do not upset  *)
(* the count by which Kahn's algorithm decides, and no repeated id makes   *)
(* up for the nodes of a cycle.                                            *)
RefusedForCause == Decided /\ WellFormed => (stage = "cycle" <=> Cyclic \/ repeats > 0)

(* A node was executed because nothing leads to it, or because a node      *)
(* executed before it had an output that satisfied the edge between them;  *)
(* whatever else leads to it was executed before it or will not be.        *)
ExecutedByASatisfiedEdge ==
  \A n \in DOMAIN executed :
    \/ Into(n) = {}
    \/ /\ \E e \in Into(n) : e.from \in DOMAIN executed /\ (e.conditional => e \in executed[e.from])
       /\ \A e \in Into(n) : e.from \in DOMAIN executed \/ e.from \notin {order[i] : i \in next .. Len(order)}

(* Both: a workflow is refused, and its nodes are executed, as it defines. *)
FollowsDefinition == RefusedForCause /\ ExecutedByASatisfiedEdge

(* What the documentation of topological_sort says ("Returns               *)
(* Err(CycleDetected) if the graph contains a cycle",                      *)
(* core/workflow-engine/src/engine.rs:52), of every definition: a repeated *)
(* id or an edge to no node has an acyclic graph refused as cyclic.        *)
CycleDetectedIffCyclic == Decided => (stage = "cycle" <=> Cyclic)
=============================================================================
