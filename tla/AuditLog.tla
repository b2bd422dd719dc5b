------------------------------ MODULE AuditLog ------------------------------
(***************************************************************************)
(* The audit log: tool executions append rows to audit_log, each row       *)
(* carrying a MAC of some of its columns (id, timestamp, actor_id, action, *)
(* outcome) and of the MAC of the row before it.  The other columns        *)
(* (workspace_id, actor_type, resource_type, resource_id, error_message,   *)
(* correlation_id, channel, metadata) are in no MAC: "details" stands for  *)
(* them, and "outcome" for the columns that the MAC covers.                *)
(* log_event reads the last MAC and inserts in two statements, without a   *)
(* transaction, and agent runs on several threads log at the same time.    *)
(* The registry drops the result of every log_event.                       *)
(*                                                                         *)
(* The MAC is a keyed hash, modelled as an injective function of what it   *)
(* is computed from.  Identifiers are unique, so the identifier in a MAC   *)
(* names that MAC: "prev" is the identifier of the row whose MAC was used, *)
(* Genesis when there was none.                                            *)
(***************************************************************************)
EXTENDS Naturals, Sequences, FiniteSets

CONSTANTS
  Writers,    \* the tasks that log: one tool execution at a time each
  MaxEvents,  \* bound: events ever begun
  DbMayFail,  \* may a statement return an error?
  MayAlter    \* may a stored row be edited behind the logger's back?

ASSUME MaxEventsAssumption == MaxEvents \in Nat
ASSUME FlagsAssumption == DbMayFail \in BOOLEAN /\ MayAlter \in BOOLEAN

(* The outcomes the registry logs, "denied" standing for "error" too and   *)
(* "timeout" for "needs_approval"; and those among them that the CHECK of  *)
(* the table's outcome column admits.                                      *)
Outcome == {"success", "denied", "timeout"}
Admitted == {"success", "denied"}

(* The columns that no MAC covers: the registry gives an error_message     *)
(* with every outcome but a success.                                       *)
Details == {"none", "message"}
DetailsOf(outcome) == IF outcome = "success" THEN "none" ELSE "message"

Genesis == 0
Id == 1 .. MaxEvents
Mac == [id : Id, outcome : Outcome, prev : Id \cup {Genesis}]
Row == [id : Id, outcome : Outcome, details : Details, mac : Mac]

(* An event to log; NoEvent stands for none. *)
Event == [id : Id \cup {Genesis}, outcome : Outcome, details : Details]
NoEvent == [id |-> Genesis, outcome |-> "success", details |-> "none"]

VARIABLES
  log,      \* the rows of audit_log in rowid order
  pc,       \* pc[w]: where log_event is
  event,    \* event[w]: the event it logs
  tail,     \* tail[w]: prev_hmac as it was read
  begun,    \* how many events there have been
  returned  \* the events whose log_event has returned, with or without error

logVars == <<log, pc, event, tail, begun, returned>>

LogInit ==
  /\ log = <<>>
  /\ pc = [w \in Writers |-> "idle"]
  /\ event = [w \in Writers |-> NoEvent]
  /\ tail = [w \in Writers |-> Genesis]
  /\ begun = 0
  /\ returned = {}

-----------------------------------------------------------------------------
(* ToolRegistry::execute or execute_approved has an outcome to log. *)
Begin(w, o) ==
  /\ pc[w] = "idle"
  /\ begun < MaxEvents
  /\ begun' = begun + 1
  /\ event' = [event EXCEPT ![w] = [id |-> begun', outcome |-> o, details |-> DetailsOf(o)]]
  /\ pc' = [pc EXCEPT ![w] = "read"]
  /\ UNCHANGED <<log, tail, returned>>

(* SELECT row_hmac ... ORDER BY rowid DESC LIMIT 1; an error is taken for  *)
(* an empty table.                                                         *)
ReadTail(w) ==
  /\ pc[w] = "read"
  /\ \/ tail' = [tail EXCEPT ![w] =
                   IF log = <<>> THEN Genesis ELSE log[Len(log)].mac.id]
     \/ DbMayFail /\ tail' = [tail EXCEPT ![w] = Genesis]
  /\ pc' = [pc EXCEPT ![w] = "insert"]
  /\ UNCHANGED <<log, event, begun, returned>>

(* Slip: the outcome is left out of what the MAC covers. *)
MacOfIdAndPrev(id, outcome, prev) ==
  [id |-> id, outcome |-> "success", prev |-> prev]

(* compute_row_hmac: no details. *)
MacOf(id, outcome, prev) == [id |-> id, outcome |-> outcome, prev |-> prev]

NewRow(w) ==
  [id |-> event[w].id, outcome |-> event[w].outcome, details |-> event[w].details,
   mac |-> MacOf(event[w].id, event[w].outcome, tail[w])]

Return(w) ==
  /\ pc' = [pc EXCEPT ![w] = "idle"]
  /\ event' = [event EXCEPT ![w] = NoEvent]
  /\ tail' = [tail EXCEPT ![w] = Genesis]
  /\ returned' = returned \cup {event[w]}
  /\ UNCHANGED begun

Insert(w) ==
  /\ pc[w] = "insert"
  /\ event[w].outcome \in Admitted
  /\ log' = Append(log, NewRow(w))
  /\ Return(w)

(* The CHECK rejects the row or the statement fails; the caller discards   *)
(* the error.                                                              *)
InsertFails(w) ==
  /\ pc[w] = "insert"
  /\ event[w].outcome \notin Admitted \/ DbMayFail
  /\ Return(w)
  /\ UNCHANGED log

(* The process dies: what was being logged is gone. *)
Crash ==
  /\ pc' = [w \in Writers |-> "idle"]
  /\ event' = [w \in Writers |-> NoEvent]
  /\ tail' = [w \in Writers |-> Genesis]
  /\ UNCHANGED <<log, begun, returned>>

(* A column of a stored row is changed with a plain UPDATE: one that the   *)
(* MAC covers, or one that it does not.                                    *)
Alter(i, o) ==
  /\ MayAlter
  /\ log[i].outcome # o
  /\ log' = [log EXCEPT ![i].outcome = o]
  /\ UNCHANGED <<pc, event, tail, begun, returned>>

AlterDetails(i, d) ==
  /\ MayAlter
  /\ log[i].details # d
  /\ log' = [log EXCEPT ![i].details = d]
  /\ UNCHANGED <<pc, event, tail, begun, returned>>

LogNext ==
  \/ \E w \in Writers : \/ \E o \in Outcome : Begin(w, o)
                        \/ ReadTail(w) \/ Insert(w) \/ InsertFails(w)
  \/ Crash
  \/ \E i \in DOMAIN log : \/ \E o \in Admitted : Alter(i, o)
                           \/ \E d \in Details : AlterDetails(i, d)

LogSpec == LogInit /\ [][LogNext]_logVars

-----------------------------------------------------------------------------
(* verify_audit_chain over a prefix of the table (get_rows takes a limit). *)
ExpectedMac(rows, i) ==
  MacOf(rows[i].id, rows[i].outcome, IF i = 1 THEN Genesis ELSE rows[i - 1].mac.id)

Verifies(rows) == \A i \in DOMAIN rows : ExpectedMac(rows, i) = rows[i].mac

-----------------------------------------------------------------------------
(* The identifiers of the rows, and the rows written after row p. *)
Stored == {log[i].id : i \in DOMAIN log}
RowsAfter(p) == {i \in DOMAIN log : log[i].mac.prev = p}

(* The types; and a predecessor that was read names a stored row, so that  *)
(* a reader of the log can follow every link.                              *)
LogTypeOK ==
  /\ log \in Seq(Row)
  /\ pc \in [Writers -> {"idle", "read", "insert"}]
  /\ event \in [Writers -> Event]
  /\ tail \in [Writers -> Stored \cup {Genesis}]
  /\ begun \in 0 .. MaxEvents
  /\ returned \subseteq Event

(* "tampered chain should be detected" (core/security/src/lib.rs:382), of  *)
(* the columns that the MAC covers: each row of a table that verifies has  *)
(* the identifier and the outcome of one event that was logged, whatever   *)
(* writers overlapped, failed or died.  Of its details nothing is said.    *)
VerifiedRowsWereLogged ==
  Verifies(log) =>
    \A i \in DOMAIN log :
      \E e \in returned : e.id = log[i].id /\ e.outcome = log[i].outcome

(* The same of all columns, which does not hold: an UPDATE of metadata or  *)
(* error_message leaves a table that verifies.                             *)
WholeRowsWereLogged ==
  Verifies(log) =>
    \A i \in DOMAIN log :
      [id |-> log[i].id, outcome |-> log[i].outcome, details |-> log[i].details] \in returned

(* How badly log_event can fork the chain: no more rows follow one row     *)
(* than there are writers, however often they overlap.  (A tail read that  *)
(* fails starts a new chain, so Genesis is excepted when reads may fail.)  *)
ForkWidth ==
  \A p \in Stored \cup (IF DbMayFail THEN {} ELSE {Genesis}) :
    Cardinality(RowsAfter(p)) <= Cardinality(Writers)

(* Forks are all that log_event can do to the chain: when no two rows have *)
(* the same predecessor, each row's MAC is chained to the row before it in *)
(* the table, whichever writers overlapped or died on the way.             *)
UnforkedIsLinked ==
  (\A i, j \in DOMAIN log : log[i].mac.prev = log[j].mac.prev => i = j) =>
    \A i \in DOMAIN log :
      log[i].mac.prev = IF i = 1 THEN Genesis ELSE log[i - 1].mac.id

(* "chain should be intact" (core/security/src/lib.rs:327): rows that only *)
(* log_event wrote pass the verification.                                  *)
ChainIntact == Verifies(log)

(* "Execute a tool call with permission checking and audit logging."       *)
(* (core/tool-runtime/src/registry.rs:240): when the database answers,     *)
(* every outcome the registry logs is in the table.                        *)
OutcomesAudited == {e.id : e \in returned} \subseteq Stored
=============================================================================
