-------------------------- MODULE ApprovalsProofs ---------------------------
(***************************************************************************)
(* Theorems about Approvals, for any sets of calls and deciders, any       *)
(* timeout and with or without database errors.                            *)
(***************************************************************************)
EXTENDS Approvals, TLAPS

USE CallsAssumption, DecidersAssumption, TimeoutAssumption, DbMayFailAssumption

-----------------------------------------------------------------------------
(* The inductive invariant: what the label of a call says of its row, of   *)
(* its answer and of how often its tool was started.                       *)

RowInv(c) ==
  /\ pc[c] \in {"idle", "request"} => status[c] = "absent"
  /\ pc[c] \in Waiting \cup {"granted"} => c \in Gated /\ status[c] # "absent"
  /\ pc[c] = "granted" => status[c] = "approved"
  /\ pc[c] = "request" => c \in Gated

RanInv(c) ==
  /\ ran[c] \in {0, 1}
  /\ pc[c] \in {"idle", "request", "granted"} \cup Waiting => ran[c] = 0
  /\ c \in Gated /\ (ran[c] = 1 \/ pc[c] = "running") => status[c] = "approved"

AnswerInv(c) ==
  /\ pc[c] # "done" => answer[c] = "none"
  /\ c \in Gated /\ answer[c] = "executed" => status[c] = "approved"
  /\ answer[c] = "denied" => status[c] = "denied"
  /\ answer[c] \in {"refused", "denied", "expired", "error"} => ran[c] = 0

AckInv(c) ==
  /\ status[c] = "approved" => \E d \in Deciders : <<d, "approved">> \in acks[c]
  /\ \A a \in acks[c] : acks[c] = {a} /\ status[c] = a[2]

CallInv(c) == RowInv(c) /\ RanInv(c) /\ AnswerInv(c) /\ AckInv(c)

IInv == TypeOK /\ \A c \in Calls : CallInv(c)

-----------------------------------------------------------------------------
(* The UPDATE that expires rows touches pending rows only. *)
LEMMA ExpireRowsPending ==
  ASSUME TypeOK, NEW S, ExpireRows(S)
  PROVE  /\ status' \in [Calls -> Status]
         /\ \A c \in Calls : \/ status'[c] = status[c]
                             \/ status[c] = "pending" /\ status'[c] = "expired"
BY DEF TypeOK, ExpireRows, Status

(* Initially no row exists and nothing has run. *)
LEMMA InitIInv == Init => IInv
BY DEF Init, IInv, TypeOK, CallInv, RowInv, RanInv, AnswerInv, AckInv, Status,
       PC, Busy, Waiting, Answer

(* Every step keeps the types. *)
LEMMA NextTypeOK == TypeOK /\ [Next]_vars => TypeOK'
<1> SUFFICES ASSUME TypeOK, [Next]_vars PROVE TypeOK'
  OBVIOUS
<1> USE DEF TypeOK, Status, Verdict, PC, Busy, Waiting, Answer
<1>1. ASSUME NEW c \in Calls, CallStep(c) PROVE TypeOK'
  <2>1. CASE RefuseCall(c) \/ NeedsApproval(c) \/ BeginWait(c) \/ CheckStatus(c)
             \/ Sleep(c) \/ Wake(c) \/ DbError(c) \/ Finish(c)
    BY <2>1 DEF RefuseCall, NeedsApproval, BeginWait, CheckStatus, Sleep, Wake,
                DbError, Finish, Goto, Return, db
  <2>2. CASE RunUngated(c) \/ RunApproved(c)
    BY <2>2 DEF RunUngated, RunApproved, StartTool, Goto, db
  <2>3. CASE RequestApproval(c)
    BY <2>3 DEF RequestApproval, Goto
  <2>4. CASE ExpireStale(c)
    BY <2>4, ExpireRowsPending DEF ExpireStale, Goto
  <2>5. CASE ForceExpire(c)
    BY <2>5, ExpireRowsPending DEF ForceExpire, Return
  <2> QED
    BY <1>1, <2>1, <2>2, <2>3, <2>4, <2>5 DEF CallStep
<1>2. ASSUME NEW c \in Calls, Drop(c) PROVE TypeOK'
  BY <1>2 DEF Drop, Goto, db
<1>3. ASSUME NEW d \in Deciders, NEW c \in Calls, NEW v \in Verdict, Decide(d, c, v)
      PROVE  TypeOK'
  BY <1>3 DEF Decide
<1>4. CASE CliExpireStale
  BY <1>4, ExpireRowsPending DEF CliExpireStale
<1>5. CASE Crash \/ Restart
  BY <1>5 DEF Crash, Restart, db
<1>6. CASE Tick
  BY <1>6 DEF Tick
<1>7. CASE UNCHANGED vars
  BY <1>7 DEF vars
<1> QED
  BY <1>1, <1>2, <1>3, <1>4, <1>5, <1>6, <1>7 DEF Next

(* Type correctness: the labels, answers, statuses and saturating ages of  *)
(* approval.rs and execute_tool_call stay in their ranges.                 *)
THEOREM TypeCorrect == Spec => []TypeOK
<1>1. Init => TypeOK
  BY InitIInv DEF IInv
<1> QED
  BY <1>1, NextTypeOK, PTL DEF Spec

-----------------------------------------------------------------------------
(* No step overwrites a decided or expired row. *)
LEMMA StepFinal ==
  ASSUME IInv, [Next]_vars, NEW x \in Calls
  PROVE  status'[x] = status[x] \/ status[x] \in {"absent", "pending"}
<1> USE DEF IInv, TypeOK
<1>1. ASSUME NEW c \in Calls, CallStep(c) \/ Drop(c)
      PROVE  status'[x] = status[x] \/ status[x] \in {"absent", "pending"}
  <2>1. CASE RequestApproval(c)
    BY <2>1 DEF RequestApproval, CallInv, RowInv
  <2>2. CASE ExpireStale(c)
    BY <2>2, ExpireRowsPending DEF ExpireStale
  <2>3. CASE ForceExpire(c)
    BY <2>3, ExpireRowsPending DEF ForceExpire
  <2> QED
    BY <1>1, <2>1, <2>2, <2>3 DEF CallStep, Drop, RefuseCall, RunUngated,
       NeedsApproval, BeginWait, CheckStatus, Sleep, Wake, DbError, RunApproved,
       Finish, StartTool, db
<1>2. ASSUME NEW d \in Deciders, NEW c \in Calls, NEW v \in Verdict, Decide(d, c, v)
      PROVE  status'[x] = status[x] \/ status[x] \in {"absent", "pending"}
  BY <1>2 DEF Decide
<1>3. CASE CliExpireStale
  BY <1>3, ExpireRowsPending DEF CliExpireStale
<1>4. CASE Crash \/ Restart \/ Tick \/ UNCHANGED vars
  BY <1>4 DEF Crash, Restart, Tick, vars, db
<1> QED
  BY <1>1, <1>2, <1>3, <1>4 DEF Next

(* Nobody has been told of a decision on a request that is not decided.    *)
LEMMA UndecidedUnacked ==
  ASSUME IInv, NEW x \in Calls, status[x] \notin Verdict
  PROVE  acks[x] = {}
<1> SUFFICES ASSUME NEW a \in acks[x] PROVE FALSE
  OBVIOUS
<1>1. status[x] = a[2]
  BY DEF IInv, CallInv, AckInv
<1>2. a[2] \in Verdict
  BY DEF IInv, TypeOK
<1> QED
  BY <1>1, <1>2

(* A call that does not move keeps its invariant when its row stays or     *)
(* expires.                                                                *)
LEMMA BystanderKeeps ==
  ASSUME IInv, NEW x \in Calls,
         pc'[x] = pc[x], answer'[x] = answer[x], ran'[x] = ran[x], acks'[x] = acks[x],
         \/ status'[x] = status[x]
         \/ status[x] = "pending" /\ status'[x] = "expired"
  PROVE  CallInv(x)'
<1> USE DEF IInv, CallInv
<1>1. RowInv(x)'
  BY DEF RowInv, Waiting
<1>2. RanInv(x)'
  BY DEF RanInv, Waiting
<1>3. AnswerInv(x)'
  BY DEF AnswerInv
<1>4. AckInv(x)'
  BY UndecidedUnacked DEF AckInv, Verdict
<1> QED
  BY <1>1, <1>2, <1>3, <1>4

(* Preservation of the invariant of one call x: by a step of x itself and  *)
(* by a step of another call, then by the steps of the others.             *)
LEMMA OwnStepKeeps ==
  ASSUME IInv, NEW x \in Calls, CallStep(x) \/ Drop(x)
  PROVE  CallInv(x)'
<1> USE DEF IInv, TypeOK, CallInv, RowInv, RanInv, AnswerInv, AckInv
<1>1. CASE RefuseCall(x) \/ NeedsApproval(x)
  BY <1>1 DEF RefuseCall, NeedsApproval, Goto, Return, db, Waiting
<1>2. CASE RunUngated(x) \/ RunApproved(x)
  <2>1. /\ pc'[x] = "running" /\ answer'[x] = answer[x] /\ ran'[x] = ran[x] + 1
        /\ UNCHANGED <<status, acks>>
        /\ pc[x] \in {"idle", "granted"}
        /\ x \in Gated => pc[x] = "granted"
    BY <1>2 DEF RunUngated, RunApproved, StartTool, Goto, db
  <2>2. ran'[x] = 1
    BY <2>1
  <2> QED
    BY <2>1, <2>2 DEF Waiting
<1>3. CASE RequestApproval(x)
  <2>1. acks[x] = {}
    BY <1>3, UndecidedUnacked DEF RequestApproval, Verdict
  <2> QED
    BY <1>3, <2>1 DEF RequestApproval, Goto, Waiting
<1>4. CASE BeginWait(x) \/ Sleep(x) \/ Wake(x)
  BY <1>4 DEF BeginWait, Sleep, Wake, Goto, db, Waiting
<1>5. CASE ExpireStale(x)
  <2>1. /\ pc[x] = "expire" /\ pc'[x] = "check"
        /\ UNCHANGED <<answer, ran, acks>>
        /\ status'[x] = status[x] \/ (status[x] = "pending" /\ status'[x] = "expired")
    BY <1>5, ExpireRowsPending DEF ExpireStale, Goto
  <2> QED
    BY <2>1, UndecidedUnacked DEF Waiting, Verdict
<1>6. CASE CheckStatus(x)
  BY <1>6 DEF CheckStatus, Goto, Return, db, Waiting
<1>7. CASE ForceExpire(x)
  <2>1. /\ pc[x] = "pendingRead" /\ pc'[x] = "done" /\ answer'[x] = "expired"
        /\ UNCHANGED <<ran, acks>>
        /\ status'[x] = status[x] \/ (status[x] = "pending" /\ status'[x] = "expired")
    BY <1>7, ExpireRowsPending DEF ForceExpire, Return
  <2> QED
    BY <2>1, UndecidedUnacked DEF Waiting, Verdict
<1>8. CASE DbError(x)
  BY <1>8 DEF DbError, Return, db, Waiting
<1>9. CASE Finish(x)
  BY <1>9 DEF Finish, Return, db, Waiting
<1>10. CASE Drop(x)
  BY <1>10 DEF Drop, Goto, db, Waiting
<1> QED
  BY <1>1, <1>2, <1>3, <1>4, <1>5, <1>6, <1>7, <1>8, <1>9, <1>10 DEF CallStep

(* ... by a step of another call. *)
LEMMA AnothersStepKeeps ==
  ASSUME IInv, NEW c \in Calls, CallStep(c) \/ Drop(c), NEW x \in Calls, x # c
  PROVE  CallInv(x)'
<1>1. /\ pc'[x] = pc[x] /\ answer'[x] = answer[x] /\ ran'[x] = ran[x]
      /\ acks'[x] = acks[x]
      /\ status'[x] = status[x] \/ (status[x] = "pending" /\ status'[x] = "expired")
  <2> USE DEF IInv, TypeOK
  <2>1. CASE ExpireStale(c)
    BY <2>1, ExpireRowsPending DEF ExpireStale, Goto
  <2>2. CASE ForceExpire(c)
    BY <2>2, ExpireRowsPending DEF ForceExpire, Return
  <2>3. CASE RequestApproval(c)
    BY <2>3 DEF RequestApproval, Goto
  <2> QED
    BY <2>1, <2>2, <2>3 DEF CallStep, Drop, RefuseCall, RunUngated, NeedsApproval,
       BeginWait, CheckStatus, Sleep, Wake, DbError, RunApproved, Finish, StartTool,
       Goto, Return, db
<1> QED
  BY <1>1, BystanderKeeps

(* ... by the deciders, the CLI, crashes and time. *)
LEMMA OtherStepKeeps ==
  ASSUME IInv, NEW x \in Calls,
         \/ \E d \in Deciders, c \in Calls, v \in Verdict : Decide(d, c, v)
         \/ CliExpireStale \/ Crash \/ Restart \/ Tick \/ UNCHANGED vars
  PROVE  CallInv(x)'
<1>1. ASSUME NEW d \in Deciders, NEW c \in Calls, NEW v \in Verdict, Decide(d, c, v)
      PROVE  CallInv(x)'
  <2> USE DEF IInv, TypeOK
  <2>1. CASE x = c
    <3>1. acks[x] = {}
      BY <1>1, <2>1, UndecidedUnacked DEF Decide, Verdict
    <3>2. /\ status[x] = "pending" /\ status'[x] = v /\ acks'[x] = {<<d, v>>}
          /\ UNCHANGED <<pc, ran, answer>>
      BY <1>1, <2>1, <3>1 DEF Decide
    <3> QED
      BY <3>2 DEF CallInv, RowInv, RanInv, AnswerInv, AckInv, Verdict, Waiting
  <2>2. CASE x # c
    <3>1. /\ status'[x] = status[x] /\ acks'[x] = acks[x]
          /\ UNCHANGED <<pc, ran, answer>>
      BY <1>1, <2>2 DEF Decide
    <3> QED
      BY <3>1, BystanderKeeps
  <2> QED
    BY <2>1, <2>2
<1>2. CASE CliExpireStale
  BY <1>2, ExpireRowsPending, BystanderKeeps DEF CliExpireStale, IInv
<1>3. CASE Crash
  BY <1>3 DEF Crash, db, Busy, Waiting, IInv, TypeOK, CallInv, RowInv, RanInv,
              AnswerInv, AckInv
<1>4. CASE Restart \/ Tick \/ UNCHANGED vars
  BY <1>4, BystanderKeeps DEF Restart, Tick, vars, db
<1> QED
  BY <1>1, <1>2, <1>3, <1>4

(* The inductive invariant holds of every reachable state. *)
LEMMA Inductive == Spec => []IInv
<1>1. IInv /\ [Next]_vars => IInv'
  <2> SUFFICES ASSUME IInv, [Next]_vars PROVE IInv'
    OBVIOUS
  <2>1. TypeOK'
    BY NextTypeOK DEF IInv
  <2>2. ASSUME NEW x \in Calls PROVE CallInv(x)'
    BY <2>2, OwnStepKeeps, AnothersStepKeeps, OtherStepKeeps DEF Next
  <2> QED
    BY <2>1, <2>2 DEF IInv
<1> QED
  BY <1>1, InitIInv, PTL DEF Spec

(* The gate: a tool of trust level 2 or more has run only when its row is  *)
(* approved and a decider was told so, for every interleaving of waiters,  *)
(* surfaces, expiries, database errors and crashes.                        *)
THEOREM GateSafety == Spec => []GatedRunsOnlyApproved
<1>1. IInv => GatedRunsOnlyApproved
  BY DEF IInv, TypeOK, CallInv, RanInv, AckInv, GatedRunsOnlyApproved
<1> QED
  BY <1>1, Inductive, PTL

(* At most one decider of a request is told that its decision was taken,   *)
(* and the row agrees with what it was told.                               *)
THEOREM AcknowledgedOnce == Spec => []OneDecisionAcknowledged
<1>1. IInv => OneDecisionAcknowledged
  BY DEF IInv, CallInv, AckInv, OneDecisionAcknowledged
<1> QED
  BY <1>1, Inductive, PTL

(* What the agent is told of a gated call agrees with the row. *)
THEOREM AnswerSound == Spec => []AnswerAgreesWithRow
<1>1. IInv => AnswerAgreesWithRow
  BY DEF IInv, CallInv, AnswerInv, AnswerAgreesWithRow
<1> QED
  BY <1>1, Inductive, PTL

(* A decided or expired row is never overwritten. *)
THEOREM DecisionsStand == Spec => DecisionFinal
<1>1. IInv /\ [Next]_vars =>
        [\A c \in Calls :
           status'[c] = status[c] \/ status[c] \in {"absent", "pending"}]_vars
  BY StepFinal
<1> QED
  BY <1>1, Inductive, PTL DEF Spec, DecisionFinal

-----------------------------------------------------------------------------
(* Refinement: each step is a step of the abstract gate or a stutter of it.*)
AbsVerdict == [c \in Calls |-> VerdictOf(status[c])]

(* The refinement mapping looks at status and ran only. *)
LEMMA AbsUnchanged ==
  ASSUME UNCHANGED <<status, ran>>
  PROVE  UNCHANGED Gate!vars
BY DEF Gate!vars

(* Expiring rows is a lapse of the gate. *)
LEMMA ExpiryIsLapse ==
  ASSUME IInv, NEW S, ExpireRows(S), UNCHANGED ran
  PROVE  \E T \in SUBSET Calls : Gate!Lapse(T)
<1> DEFINE T == {c \in Calls : c \in S /\ status[c] = "pending"}
<1>1. \A c \in T : AbsVerdict[c] = "asked"
  BY DEF AbsVerdict, VerdictOf
<1>2. AbsVerdict' = [c \in Calls |-> IF c \in T THEN "lapsed" ELSE AbsVerdict[c]]
  BY DEF AbsVerdict, VerdictOf, ExpireRows, IInv, TypeOK, Status
<1>3. Gate!Lapse(T)
  BY <1>1, <1>2 DEF Gate!Lapse, AbsVerdict
<1> QED
  BY <1>3

(* Starting the tool is a run of the gate. *)
LEMMA StartIsRun ==
  ASSUME IInv, NEW c \in Calls, RunUngated(c) \/ RunApproved(c)
  PROVE  Gate!Run(c)
<1>1. ran[c] = 0 /\ ran' = [ran EXCEPT ![c] = 1] /\ UNCHANGED status
  BY DEF IInv, TypeOK, CallInv, RanInv, RunUngated, RunApproved, StartTool, db
<1>2. c \in Gated => AbsVerdict[c] = "granted"
  BY DEF IInv, CallInv, RowInv, RunUngated, RunApproved, AbsVerdict, VerdictOf
<1> QED
  BY <1>1, <1>2 DEF Gate!Run, AbsVerdict

(* Inserting the row is asking the gate. *)
LEMMA RequestIsAsk ==
  ASSUME IInv, NEW c \in Calls, RequestApproval(c)
  PROVE  Gate!Ask(c)
<1>1. c \in Gated /\ AbsVerdict[c] = "none"
  BY DEF IInv, CallInv, RowInv, RequestApproval, AbsVerdict, VerdictOf
<1>2. VerdictOf("pending") = "asked"
  BY DEF VerdictOf
<1>3. AbsVerdict' = [AbsVerdict EXCEPT ![c] = "asked"]
  BY <1>2 DEF RequestApproval, AbsVerdict, IInv, TypeOK
<1> QED
  BY <1>1, <1>3 DEF Gate!Ask, RequestApproval, AbsVerdict

(* approve and deny are rulings of the gate. *)
LEMMA DecideIsRule ==
  ASSUME IInv, NEW d \in Deciders, NEW c \in Calls, NEW v \in Verdict, Decide(d, c, v)
  PROVE  \E w \in {"granted", "refused"} : Gate!Rule(c, w)
<1>1. AbsVerdict[c] = "asked" /\ VerdictOf(v) \in {"granted", "refused"}
  BY DEF Decide, AbsVerdict, VerdictOf, Verdict
<1>2. AbsVerdict' = [AbsVerdict EXCEPT ![c] = VerdictOf(v)]
  BY DEF Decide, AbsVerdict, IInv, TypeOK
<1> QED
  BY <1>1, <1>2 DEF Gate!Rule, Decide, AbsVerdict

(* Every step is a step of the gate or a stutter. *)
LEMMA StepRefines == IInv /\ [Next]_vars => [Gate!Next]_(Gate!vars)
<1> SUFFICES ASSUME IInv, [Next]_vars PROVE Gate!Next \/ UNCHANGED Gate!vars
  OBVIOUS
<1>1. ASSUME NEW c \in Calls, CallStep(c) \/ Drop(c)
      PROVE  Gate!Next \/ UNCHANGED Gate!vars
  <2>1. CASE RunUngated(c) \/ RunApproved(c)
    BY <2>1, StartIsRun DEF Gate!Next
  <2>2. CASE RequestApproval(c)
    BY <2>2, RequestIsAsk DEF Gate!Next
  <2>3. CASE ExpireStale(c)
    BY <2>3, ExpiryIsLapse DEF ExpireStale, Gate!Next
  <2>4. CASE ForceExpire(c)
    BY <2>4, ExpiryIsLapse, AbsUnchanged DEF ForceExpire, Gate!Next
  <2>5. CASE UNCHANGED <<status, ran>>
    BY <2>5, AbsUnchanged
  <2> QED
    BY <1>1, <2>1, <2>2, <2>3, <2>4, <2>5 DEF CallStep, Drop, RefuseCall,
       NeedsApproval, BeginWait, CheckStatus, Sleep, Wake, DbError, Finish, db
<1>2. ASSUME NEW d \in Deciders, NEW c \in Calls, NEW v \in Verdict, Decide(d, c, v)
      PROVE  Gate!Next
  BY <1>2, DecideIsRule DEF Gate!Next
<1>3. CASE CliExpireStale
  BY <1>3, ExpiryIsLapse DEF CliExpireStale, Gate!Next
<1>4. CASE Crash \/ Restart \/ Tick \/ UNCHANGED vars
  BY <1>4, AbsUnchanged DEF Crash, Restart, Tick, vars, db
<1> QED
  BY <1>1, <1>2, <1>3, <1>4 DEF Next

(* The table, its waiters and its deciders implement the abstract gate.    *)
THEOREM ImplementsGate == Spec => GateSpec
<1>1. Init => Gate!Init
  BY DEF Init, Gate!Init, VerdictOf
<1> QED
  BY <1>1, StepRefines, Inductive, PTL DEF Spec, GateSpec, Gate!Spec
=============================================================================
