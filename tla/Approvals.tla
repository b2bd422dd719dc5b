----------------------------- MODULE Approvals ------------------------------
(***************************************************************************)
(* The approval gate of the daemon: an agent's tool call, when the tool    *)
(* has trust_level >= 2, inserts a row in approval_requests and polls it   *)
(* until a person decides on one of the surfaces (gRPC, dashboard,         *)
(* Telegram, the CLI in a process of its own) or time runs out.            *)
(*                                                                         *)
(* A call makes at most one request, so a row is named by its call.  The   *)
(* waiter's loop takes one action per database statement; every such       *)
(* statement is one SQLite transaction, and anything may happen between    *)
(* two of them.  Time is kept as ages that stop counting at the bound that *)
(* the code compares them with, so the clock needs no bound of its own.    *)
(***************************************************************************)
EXTENDS Naturals

CONSTANTS
  Calls,       \* the tool calls agents make
  Gated,       \* calls of tools with trust_level >= 2
  Permitted,   \* calls that are valid and whose agent holds the permissions
  Deciders,    \* who may approve or deny
  External,    \* deciders that do not need the daemon: the CLI
  Timeout,     \* execution_policy.timeout_seconds, in ticks
  DbMayFail    \* may a statement of the waiter return an error?

ASSUME CallsAssumption == Gated \subseteq Calls /\ Permitted \subseteq Calls
ASSUME DecidersAssumption == External \subseteq Deciders
ASSUME TimeoutAssumption == Timeout \in Nat
ASSUME DbMayFailAssumption == DbMayFail \in BOOLEAN

VARIABLES
  up,       \* is the daemon running?
  status,   \* status[c]: the row's status column ("absent": no row)
  rowAge,   \* rowAge[c]: ticks since created_at, Timeout + 1: expires_at < now
  acks,     \* acks[c]: the deciders told that their decision was taken
  pc,       \* pc[c]: where execute_tool_call is
  waitAge,  \* waitAge[c]: start.elapsed(), Timeout: elapsed >= timeout
  answer,   \* answer[c]: what the call returned to the agent
  ran       \* ran[c]: how often the tool was started

db == <<status, rowAge, acks>>
vars == <<up, status, rowAge, acks, pc, waitAge, answer, ran>>

-----------------------------------------------------------------------------
Status == {"absent", "pending", "approved", "denied", "expired"}
Verdict == {"approved", "denied"}
Waiting == {"waiting", "expire", "check", "pendingRead", "sleep"}
Busy == Waiting \cup {"request", "granted", "running"}
PC == Busy \cup {"idle", "done", "dropped"}
Answer == {"none", "executed", "refused", "denied", "expired", "error"}

Overdue(c) == rowAge[c] > Timeout
TimedOut(c) == waitAge[c] >= Timeout

(* The call returns a to the agent. *)
Return(c, a) ==
  /\ pc' = [pc EXCEPT ![c] = "done"]
  /\ answer' = [answer EXCEPT ![c] = a]

Goto(c, label) ==
  /\ pc' = [pc EXCEPT ![c] = label]
  /\ UNCHANGED answer

(* tool.execute is called: from here on the tool has had its effect. *)
StartTool(c) ==
  /\ ran' = [ran EXCEPT ![c] = @ + 1]
  /\ Goto(c, "running")
  /\ UNCHANGED <<up, db, waitAge>>

(* Slip: the UPDATE without AND status = 'pending'. *)
ExpireRowsUnguarded(S) ==
  status' = [c \in Calls |-> IF c \in S /\ status[c] # "absent"
                             THEN "expired" ELSE status[c]]

(* UPDATE ... SET status = 'expired' WHERE status = 'pending' AND ... *)
ExpireRows(S) ==
  status' = [c \in Calls |-> IF c \in S /\ status[c] = "pending"
                             THEN "expired" ELSE status[c]]

Stale == {c \in Calls : Overdue(c)}

Init ==
  /\ up = TRUE
  /\ status = [c \in Calls |-> "absent"]
  /\ rowAge = [c \in Calls |-> 0]
  /\ acks = [c \in Calls |-> {}]
  /\ pc = [c \in Calls |-> "idle"]
  /\ waitAge = [c \in Calls |-> 0]
  /\ answer = [c \in Calls |-> "none"]
  /\ ran = [c \in Calls |-> 0]

-----------------------------------------------------------------------------
(* ToolRegistry::execute and the first half of execute_tool_call.          *)

(* Unknown tool, invalid arguments or a missing permission. *)
RefuseCall(c) ==
  /\ up /\ pc[c] = "idle"
  /\ c \notin Permitted
  /\ Return(c, "refused")
  /\ UNCHANGED <<up, db, waitAge, ran>>

(* Slip: the trust level is not tested. *)
RunUntested(c) ==
  /\ up /\ pc[c] = "idle"
  /\ c \in Permitted
  /\ StartTool(c)

RunUngated(c) ==
  /\ up /\ pc[c] = "idle"
  /\ c \in Permitted \ Gated
  /\ StartTool(c)

NeedsApproval(c) ==
  /\ up /\ pc[c] = "idle"
  /\ c \in Permitted \cap Gated
  /\ Goto(c, "request")
  /\ UNCHANGED <<up, db, waitAge, ran>>

RequestApproval(c) ==
  /\ pc[c] = "request"
  /\ status' = [status EXCEPT ![c] = "pending"]
  /\ rowAge' = [rowAge EXCEPT ![c] = 0]
  /\ Goto(c, "waiting")
  /\ UNCHANGED <<up, acks, waitAge, ran>>

-----------------------------------------------------------------------------
(* wait_for_decision.                                                      *)

(* let start = Instant::now() *)
BeginWait(c) ==
  /\ pc[c] = "waiting"
  /\ waitAge' = [waitAge EXCEPT ![c] = 0]
  /\ Goto(c, "expire")
  /\ UNCHANGED <<up, db, ran>>

ExpireStale(c) ==
  /\ pc[c] = "expire"
  /\ ExpireRows(Stale)
  /\ Goto(c, "check")
  /\ UNCHANGED <<up, rowAge, acks, waitAge, ran>>

CheckStatus(c) ==
  /\ pc[c] = "check"
  /\ \/ status[c] = "approved" /\ Goto(c, "granted")
     \/ status[c] = "denied" /\ Return(c, "denied")
     \/ status[c] = "expired" /\ Return(c, "expired")
     \/ status[c] = "pending" /\ Goto(c, "pendingRead")
  /\ UNCHANGED <<up, db, waitAge, ran>>

(* Slip: the wait times out and leaves the row as it is. *)
TimeOutOnly(c) ==
  /\ pc[c] = "pendingRead" /\ TimedOut(c)
  /\ Return(c, "expired")
  /\ UNCHANGED <<up, db, waitAge, ran>>

(* Pending was read: when the wait has lasted long enough the row is       *)
(* expired and the call answers "expired"; neither the number of updated   *)
(* rows nor an error of this statement is looked at.                       *)
ForceExpire(c) ==
  /\ pc[c] = "pendingRead" /\ TimedOut(c)
  /\ ExpireRows({c}) \/ (DbMayFail /\ UNCHANGED status)
  /\ Return(c, "expired")
  /\ UNCHANGED <<up, rowAge, acks, waitAge, ran>>

Sleep(c) ==
  /\ pc[c] = "pendingRead" /\ ~TimedOut(c)
  /\ Goto(c, "sleep")
  /\ UNCHANGED <<up, db, waitAge, ran>>

(* Slip: the waiter is woken by a decision and by nothing else. *)
WakeOnDecision(c) ==
  /\ pc[c] = "sleep" /\ status[c] # "pending"
  /\ Goto(c, "expire")
  /\ UNCHANGED <<up, db, waitAge, ran>>

Wake(c) ==
  /\ pc[c] = "sleep"
  /\ Goto(c, "expire")
  /\ UNCHANGED <<up, db, waitAge, ran>>

(* The ? of a statement (the insert, expire_stale, check_status) or of     *)
(* taking the connection for the forced expiry returns an error.           *)
DbError(c) ==
  /\ DbMayFail
  /\ \/ pc[c] \in {"request", "expire", "check"}
     \/ pc[c] = "pendingRead" /\ TimedOut(c)
  /\ Return(c, "error")
  /\ UNCHANGED <<up, db, waitAge, ran>>

-----------------------------------------------------------------------------
(* execute_approved: permissions are checked again, the trust level not.   *)
RunApproved(c) ==
  /\ pc[c] = "granted"
  /\ c \in Permitted
  /\ StartTool(c)

(* Success, an error of the tool and its timeout alike. *)
Finish(c) ==
  /\ pc[c] = "running"
  /\ Return(c, "executed")
  /\ UNCHANGED <<up, db, waitAge, ran>>

(* The future is dropped at an await: a delegation timed out or a job was  *)
(* aborted.  Nothing cleans up the row.                                    *)
Drop(c) ==
  /\ pc[c] \in {"sleep", "running"}
  /\ Goto(c, "dropped")
  /\ UNCHANGED <<up, db, waitAge, ran>>

-----------------------------------------------------------------------------
(* approve and deny, on any surface, at any time: expires_at is not looked *)
(* at.  On a row that is no longer pending they return an error and change *)
(* nothing.                                                                *)
Available(d) == up \/ d \in External

(* Slip: the UPDATE without AND status = 'pending'. *)
DecideUnguarded(d, c, v) ==
  /\ Available(d)
  /\ status[c] # "absent"
  /\ status' = [status EXCEPT ![c] = v]
  /\ acks' = [acks EXCEPT ![c] = @ \cup {<<d, v>>}]
  /\ UNCHANGED <<up, rowAge, pc, waitAge, answer, ran>>

Decide(d, c, v) ==
  /\ Available(d)
  /\ status[c] = "pending"
  /\ status' = [status EXCEPT ![c] = v]
  /\ acks' = [acks EXCEPT ![c] = @ \cup {<<d, v>>}]
  /\ UNCHANGED <<up, rowAge, pc, waitAge, answer, ran>>

(* nexmind approve expire-stale *)
CliExpireStale ==
  /\ ExpireRows(Stale)
  /\ UNCHANGED <<up, rowAge, acks, pc, waitAge, answer, ran>>

(* Slip: a restart takes up the granted calls again, those under way too. *)
CrashAndRedo ==
  /\ up
  /\ up' = FALSE
  /\ pc' = [c \in Calls |-> IF pc[c] = "running" THEN "granted"
                            ELSE IF pc[c] \in Busy THEN "dropped" ELSE pc[c]]
  /\ UNCHANGED <<db, waitAge, answer, ran>>

(* The process dies: the rows stay, the calls under way are gone. *)
Crash ==
  /\ up
  /\ up' = FALSE
  /\ pc' = [c \in Calls |-> IF pc[c] \in Busy THEN "dropped" ELSE pc[c]]
  /\ UNCHANGED <<db, waitAge, answer, ran>>

Restart ==
  /\ ~up
  /\ up' = TRUE
  /\ UNCHANGED <<db, pc, waitAge, answer, ran>>

Tick ==
  /\ rowAge' = [c \in Calls |-> IF status[c] = "pending" /\ rowAge[c] <= Timeout
                                THEN rowAge[c] + 1 ELSE rowAge[c]]
  /\ waitAge' = [c \in Calls |-> IF pc[c] \in Waiting /\ waitAge[c] < Timeout
                                 THEN waitAge[c] + 1 ELSE waitAge[c]]
  /\ UNCHANGED <<up, status, acks, pc, answer, ran>>

-----------------------------------------------------------------------------
CallStep(c) ==
  \/ RefuseCall(c) \/ RunUngated(c) \/ NeedsApproval(c) \/ RequestApproval(c)
  \/ BeginWait(c) \/ ExpireStale(c) \/ CheckStatus(c) \/ ForceExpire(c)
  \/ Sleep(c) \/ Wake(c) \/ DbError(c) \/ RunApproved(c) \/ Finish(c)

Next ==
  \/ \E c \in Calls : CallStep(c) \/ Drop(c)
  \/ \E d \in Deciders, c \in Calls, v \in Verdict : Decide(d, c, v)
  \/ CliExpireStale \/ Crash \/ Restart \/ Tick

Spec == Init /\ [][Next]_vars

(* The executor polls a task that is ready and clocks advance; nobody has  *)
(* to decide, and nothing has to crash, restart or be dropped.             *)
Fairness == WF_vars(Tick) /\ \A c \in Calls : WF_vars(CallStep(c))
FairSpec == Spec /\ Fairness

-----------------------------------------------------------------------------
TypeOK ==
  /\ up \in BOOLEAN
  /\ status \in [Calls -> Status]
  /\ rowAge \in [Calls -> 0 .. Timeout + 1]
  /\ acks \in [Calls -> SUBSET (Deciders \X Verdict)]
  /\ pc \in [Calls -> PC]
  /\ waitAge \in [Calls -> 0 .. Timeout]
  /\ answer \in [Calls -> Answer]
  /\ ran \in [Calls -> Nat]

(* Whatever polls, decisions, expiries and crashes interleave, a tool of   *)
(* trust level 2 or more has run only when its row is approved and one     *)
(* decider was told so (execute_tool_call calls execute_approved on        *)
(* nothing but the Approved it has read, runtime.rs:965).                  *)
GatedRunsOnlyApproved ==
  \A c \in Gated : ran[c] > 0 =>
    /\ status[c] = "approved"
    /\ \E d \in Deciders : <<d, "approved">> \in acks[c]

(* Of the surfaces racing on one request, at most one is told that its     *)
(* decision was taken, and what it was told is what the row says for good. *)
OneDecisionAcknowledged ==
  \A c \in Calls : \A a \in acks[c] : acks[c] = {a} /\ status[c] = a[2]

(* What the agent is told of a gated call agrees with the row: "executed"  *)
(* and "denied" are what a person decided, and a call that was refused,    *)
(* failed to ask or saw its request expire has not run the tool.           *)
AnswerAgreesWithRow ==
  \A c \in Gated :
    /\ answer[c] = "executed" => status[c] = "approved"
    /\ answer[c] = "denied" => status[c] = "denied"
    /\ answer[c] \in {"refused", "denied", "expired", "error"} => ran[c] = 0

(* No statement of any actor overwrites a decision: approved, denied and   *)
(* expired rows stay as they are, and no row goes away.                    *)
DecisionFinal ==
  [][\A c \in Calls :
       status'[c] = status[c] \/ status[c] \in {"absent", "pending"}]_vars

(* "Force expire this specific approval" (approval.rs:431): a call that    *)
(* answers "expired" leaves its request expired.                           *)
ExpiredAnswerMeansExpiredRow ==
  \A c \in Calls : answer[c] = "expired" => status[c] = "expired"

(* No poll loop waits for ever: it ends with an answer, a granted request  *)
(* or the end of its task, even when nobody decides.                       *)
WaitEnds == \A c \in Calls : pc[c] \in Waiting ~> pc[c] \notin Waiting

(* While its waiter lives and the database answers, a request does not     *)
(* stay pending: it is decided or expires.                                 *)
PendingSettles ==
  \A c \in Calls :
    (status[c] = "pending" /\ pc[c] \in Waiting)
      ~> (status[c] # "pending" \/ pc[c] = "dropped")

(* The abstract gate, and the mapping that shows this module implements it.*)
VerdictOf(s) ==
  CASE s = "absent" -> "none"
    [] s = "pending" -> "asked"
    [] s = "approved" -> "granted"
    [] s = "denied" -> "refused"
    [] s = "expired" -> "lapsed"

Gate == INSTANCE ApprovalGate WITH
          verdict <- [c \in Calls |-> VerdictOf(status[c])]

(* Every behaviour of the table, its waiters and its deciders is one the   *)
(* abstract gate allows.                                                   *)
GateSpec == Gate!Spec
=============================================================================
