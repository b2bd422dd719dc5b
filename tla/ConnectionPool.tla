--------------------------- MODULE ConnectionPool ---------------------------
(***************************************************************************)
(* The two connection pools of the daemon, the one of nexmind.db and the   *)
(* one of memory.db, and the worker threads of the runtime that serve both.*)
(* Pool::get blocks the thread it is called on, so a waiting operation     *)
(* keeps its worker.  Two operations do more than take one connection for  *)
(* one statement: Scheduler::record_run calls get, which takes a second    *)
(* connection, while it holds its first; and MemoryStoreImpl::store and    *)
(* retrieve keep theirs while they await an embedding, without a worker.   *)
(***************************************************************************)
EXTENDS Naturals, FiniteSets

CONSTANTS
  Queries,        \* operations on nexmind.db that take one connection
  RecordRuns,     \* calls of record_run
  Embeddings,     \* calls of store and retrieve that await an embedding
  MaxConnections, \* max_size of each pool
  WorkerThreads   \* worker threads of the runtime

ASSUME PoolAssumption ==
  MaxConnections \in Nat \ {0} /\ WorkerThreads \in Nat \ {0}

PoolOps == Queries \cup RecordRuns \cup Embeddings

Pools == {"nexmind.db", "memory.db"}
PoolOf(o) == IF o \in Embeddings THEN "memory.db" ELSE "nexmind.db"

VARIABLES
  phase  \* phase[o]: where the operation is

poolVars == phase

(* Without a worker: not yet scheduled, awaiting the model server, or with *)
(* an answer and not yet scheduled again; on one: blocked in get, using a  *)
(* connection, blocked in the second get, using two.                       *)
PoolPhases == {"new", "away", "answered", "get", "use", "get2", "use2", "done", "failed"}
OnWorker == {"get", "use", "get2", "use2"}

Busy == Cardinality({o \in PoolOps : phase[o] \in OnWorker})

Held(o) == IF phase[o] = "use2" THEN 2
           ELSE IF phase[o] \in {"use", "get2", "away", "answered"} THEN 1 ELSE 0

(* The connections of pool p that are in use: one per holder, and one more *)
(* for those that use two.                                                 *)
InUse(p) == Cardinality({o \in PoolOps : PoolOf(o) = p /\ Held(o) >= 1})
            + Cardinality({o \in PoolOps : PoolOf(o) = p /\ Held(o) = 2})

FreeConnection(o) == InUse(PoolOf(o)) < MaxConnections

PoolInit == phase = [o \in PoolOps |-> "new"]

Move(o, from, to) == phase[o] = from /\ phase' = [phase EXCEPT ![o] = to]

-----------------------------------------------------------------------------
(* A worker takes up an operation, which calls Pool::get.                  *)
StartOp(o) ==
  /\ Busy < WorkerThreads
  /\ Move(o, "new", "get")

GetConnection(o) ==
  /\ FreeConnection(o)
  /\ Move(o, "get", "use")

(* Slip: the pool was built without a connection timeout. *)
WaitOn(o) == FALSE /\ UNCHANGED phase

(* connection_timeout runs out and the operation returns an error, giving  *)
(* back what it holds.                                                     *)
GetTimesOut(o) ==
  /\ ~FreeConnection(o)
  /\ Move(o, "get", "failed") \/ Move(o, "get2", "failed")

(* The statements of a query are run. *)
EndQuery(o) == o \in Queries /\ Move(o, "use", "done")

(* record_run has updated the row and reads it back. *)
RecordRunReads(o) == o \in RecordRuns /\ Move(o, "use", "get2")
GetSecond(o) == FreeConnection(o) /\ Move(o, "get2", "use2")
EndRecordRun(o) == Move(o, "use2", "done")

(* The connection is kept across the await. *)
AwaitEmbedding(o) == o \in Embeddings /\ Move(o, "use", "away")
ModelServerAnswers(o) == Move(o, "away", "answered")
EndEmbedding(o) ==
  /\ Busy < WorkerThreads
  /\ Move(o, "answered", "done")

PoolStep(o) ==
  \/ StartOp(o) \/ GetConnection(o) \/ GetTimesOut(o) \/ EndQuery(o)
  \/ RecordRunReads(o) \/ GetSecond(o) \/ EndRecordRun(o)
  \/ AwaitEmbedding(o) \/ ModelServerAnswers(o) \/ EndEmbedding(o)

PoolNext == \E o \in PoolOps : PoolStep(o)

PoolSpec == PoolInit /\ [][PoolNext]_poolVars

(* As long as some operation can go on, one does: a worker that is free    *)
(* takes up what waits for it, a connection that is free is given away,    *)
(* get gives up after its timeout, and the client of the model server has  *)
(* a timeout of its own.  Operations never go back, so that no stronger    *)
(* fairness is needed.                                                     *)
FairPoolSpec == PoolSpec /\ WF_poolVars(PoolNext)

-----------------------------------------------------------------------------
PoolTypeOK == phase \in [PoolOps -> PoolPhases]

(* Every database operation ends: neither the second connection of         *)
(* record_run, for which the holders of all connections may wait, nor      *)
(* workers that block in get while the holders of the connections wait for *)
(* a worker, stop the daemon for good.                                     *)
PoolOpsEnd == <>(\A o \in PoolOps : phase[o] \in {"done", "failed"})
=============================================================================
