------------------------------ MODULE AgentMail ------------------------------
(***************************************************************************)
(* The mailbox router and its two users: the collaborative team run, which *)
(* registers its members, runs the supervisor and unregisters them, and    *)
(* the communication tools of the agents.                                  *)
(*                                                                         *)
(* A run drops each mailbox it registers as soon as it has it, so that a   *)
(* registered agent has a sender without a receiver: to send to it fails,  *)
(* after the message was stored.  What agents read comes from the table.   *)
(*                                                                         *)
(* A message without a task is stored under the task "default", whose row  *)
(* nothing in the program creates (taskRow); the tests do.                 *)
(*                                                                         *)
(* The tool calls of one answer of a model run in parallel, and an agent   *)
(* that carries out a delegation has the same tools: at any time several   *)
(* delegations of one run are awaited, some of them in the course of       *)
(* others, with which they are dropped.                                    *)
(***************************************************************************)
EXTENDS Naturals, FiniteSets

CONSTANTS
  MailAgents,   \* agents
  MailRuns,     \* collaborative runs, each of a team of its own
  MailMembers,  \* MailMembers[r]: the members of the team of r
  MaxMail,      \* bound: messages sent
  ReadLimit     \* limit of agent_receive_messages

ASSUME MailAssumption ==
  /\ MailMembers \in [MailRuns -> SUBSET MailAgents]
  /\ MaxMail \in Nat
  /\ ReadLimit \in Nat

NoRun == "no run"
Supervisor == "supervisor"
MailIds == 1 .. MaxMail

VARIABLES
  taskRow,   \* has tasks the row "default"?
  mailbox,   \* mailbox[a]: who registered a's sender, and is its receiver alive?
  rosters,   \* the runs whose team is listed
  phase,     \* phase[r]
  todo,      \* todo[r]: the members r has yet to register, or to unregister
  mailCount, \* how many messages were sent
  rows,      \* task_messages
  shared,    \* shared[r]: the message whose file has the name in the team's directory, or 0
  told,      \* told[i]: what the tool call that sent message i said, or "pending"
  lost,      \* the delegations whose result could not be stored
  awaited    \* awaited[r]: the delegations that are awaited in the run r

mailVars == <<taskRow, mailbox, rosters, phase, todo, mailCount, rows, shared, told, lost, awaited>>
postVars == <<mailCount, rows, shared, told, lost, awaited>>

(* A delegation that agent by awaits, in the course of those in within. *)
Delegation == [id : MailIds, by : MailAgents \cup {Supervisor}, to : MailAgents,
               within : SUBSET MailIds]

Nobody == [by |-> NoRun, open |-> FALSE]

MailInit ==
  /\ taskRow \in BOOLEAN
  /\ mailbox = [a \in MailAgents |-> Nobody]
  /\ rosters = {}
  /\ phase = [r \in MailRuns |-> "idle"]
  /\ todo = [r \in MailRuns |-> {}]
  /\ mailCount = 0
  /\ rows = {}
  /\ shared = [r \in MailRuns |-> 0]
  /\ told = [i \in MailIds |-> "unsent"]
  /\ lost = {}
  /\ awaited = [r \in MailRuns |-> {}]

-----------------------------------------------------------------------------
(* run_collaborative.                                                      *)

Moves(r, from, to) == phase[r] = from /\ phase' = [phase EXCEPT ![r] = to]

StartTeam(r) ==
  /\ Moves(r, "idle", "registering")
  /\ todo' = [todo EXCEPT ![r] = MailMembers[r]]
  /\ UNCHANGED <<taskRow, mailbox, rosters, postVars>>

(* register_agent replaces whatever sender the agent had. *)
Register(r, a) ==
  /\ phase[r] = "registering" /\ a \in todo[r]
  /\ mailbox' = [mailbox EXCEPT ![a] = [by |-> r, open |-> TRUE]]
  /\ todo' = [todo EXCEPT ![r] = @ \ {a}]
  /\ UNCHANGED <<taskRow, rosters, phase, postVars>>

(* The mailbox is dropped, and register_agent may go on with the next. *)
DropMailbox(r, a) ==
  /\ mailbox[a] = [by |-> r, open |-> TRUE]
  /\ mailbox' = [mailbox EXCEPT ![a] = [by |-> r, open |-> FALSE]]
  /\ UNCHANGED <<taskRow, rosters, phase, todo, postVars>>

HoldsMailbox(r) == \E a \in MailAgents : mailbox[a] = [by |-> r, open |-> TRUE]

(* register_team, and the supervisor's definition is looked up. *)
Announce(r) ==
  /\ todo[r] = {} /\ ~HoldsMailbox(r)
  /\ Moves(r, "registering", "supervising")
  /\ rosters' = rosters \cup {r}
  /\ UNCHANGED <<taskRow, mailbox, todo, postVars>>

(* It is not found: the run returns before the cleanup. *)
SupervisorMissing(r) ==
  /\ todo[r] = {} /\ ~HoldsMailbox(r)
  /\ Moves(r, "registering", "stranded")
  /\ rosters' = rosters \cup {r}
  /\ UNCHANGED <<taskRow, mailbox, todo, postVars>>

(* Slip: a failed run returns at once. *)
StartCleanupOnSuccess(r) ==
  /\ awaited[r] = {}
  /\ \/ /\ Moves(r, "supervising", "cleanup")
        /\ todo' = [todo EXCEPT ![r] = MailMembers[r]]
     \/ /\ Moves(r, "supervising", "ended")
        /\ UNCHANGED todo
  /\ UNCHANGED <<taskRow, mailbox, rosters, postVars>>

(* The supervisor's run is over. *)
StartCleanup(r) ==
  /\ awaited[r] = {}
  /\ Moves(r, "supervising", "cleanup")
  /\ todo' = [todo EXCEPT ![r] = MailMembers[r]]
  /\ UNCHANGED <<taskRow, mailbox, rosters, postVars>>

(* unregister_agent removes the sender, whoever registered it. *)
Unregister(r, a) ==
  /\ phase[r] = "cleanup" /\ a \in todo[r]
  /\ mailbox' = [mailbox EXCEPT ![a] = Nobody]
  /\ todo' = [todo EXCEPT ![r] = @ \ {a}]
  /\ UNCHANGED <<taskRow, rosters, phase, postVars>>

EndTeam(r) ==
  /\ todo[r] = {}
  /\ Moves(r, "cleanup", "ended")
  /\ rosters' = rosters \ {r}
  /\ UNCHANGED <<taskRow, mailbox, todo, postVars>>

(* The future is dropped at an await, by the deletion of the job whose     *)
(* timer awaits it: what it awaits is dropped with it, and no cleanup runs.*)
DropTeam(r) ==
  /\ phase[r] \in {"registering", "supervising", "cleanup"}
  /\ ~HoldsMailbox(r)
  /\ phase' = [phase EXCEPT ![r] = "stranded"]
  /\ told' = [i \in MailIds |-> IF \E k \in awaited[r] : k.id = i THEN "dropped" ELSE told[i]]
  /\ awaited' = [awaited EXCEPT ![r] = {}]
  /\ UNCHANGED <<taskRow, mailbox, rosters, todo, mailCount, rows, shared, lost>>

-----------------------------------------------------------------------------
(* send, and the tools that call it; nothing calls broadcast.              *)

NewRow(r, to, kind) ==
  [id |-> mailCount + 1, team |-> r, to |-> to, kind |-> kind, at |-> Cardinality(rows)]

(* persist_message, which fails without the task's row and whenever the    *)
(* INSERT does; then the recipient's sender.                               *)
MayStore == {FALSE, taskRow}
Stored(row, stores) == IF stores THEN rows \cup {row} ELSE rows
Refused(to, stores) == ~stores \/ (mailbox[to] # Nobody /\ ~mailbox[to].open)

SendOne(r, to, kind, stores) ==
  /\ phase[r] = "supervising"
  /\ mailCount < MaxMail
  /\ mailCount' = mailCount + 1
  /\ rows' = Stored(NewRow(r, to, kind), stores)
  /\ told' = [told EXCEPT ![mailCount'] = IF Refused(to, stores) THEN "refused" ELSE "sent"]
  /\ UNCHANGED <<taskRow, mailbox, rosters, phase, todo, lost, awaited>>

(* agent_send_message. *)
SendMessage(r, to, stores) == SendOne(r, to, "direct", stores) /\ UNCHANGED shared

(* agent_send_file: the file is copied to the team's directory, over       *)
(* another of its name, before the message is sent.                        *)
SendFile(r, to, stores) ==
  /\ SendOne(r, to, "file", stores)
  /\ shared' = [shared EXCEPT ![r] = mailCount + 1]

(* The delegate of i has answered. *)
Answered(i) == i \in lost \/ \E w \in rows : w.kind = "result" /\ w.id = i

(* Who may delegate: the supervisor, and those it, or another, has         *)
(* delegated to and that have not answered.                                *)
Delegators(r) ==
  {[by |-> Supervisor, within |-> {}]} \cup
    {[by |-> k.to, within |-> k.within \cup {k.id}] : k \in {c \in awaited[r] : ~Answered(c.id)}}

(* agent_delegate_task: the message is sent; a failure is returned before  *)
(* the agent is run.                                                       *)
Delegate(r, d, to, stores) ==
  /\ phase[r] = "supervising"
  /\ mailCount < MaxMail
  /\ mailCount' = mailCount + 1
  /\ rows' = Stored(NewRow(r, to, "delegation"), stores)
  /\ told' = [told EXCEPT ![mailCount'] = IF Refused(to, stores) THEN "refused" ELSE "pending"]
  /\ awaited' = [awaited EXCEPT ![r] = IF Refused(to, stores) THEN @ ELSE
       @ \cup {[id |-> mailCount + 1, by |-> d.by, to |-> to, within |-> d.within]}]
  /\ UNCHANGED <<taskRow, mailbox, rosters, phase, todo, shared, lost>>

(* The calls made in the course of k. *)
MadeWithin(r, k) == {c \in awaited[r] : k.id \in c.within}

(* The delegate has answered: the result is sent to the delegator.  send   *)
(* stores it, if it can, and goes on to wait for the table of senders; any *)
(* error is ignored.                                                       *)
StoreResult(r, k, stores) ==
  /\ ~Answered(k.id) /\ MadeWithin(r, k) = {}
  /\ rows' = Stored([id |-> k.id, team |-> r, to |-> k.by, kind |-> "result",
                     at |-> Cardinality(rows)], stores)
  /\ lost' = IF stores THEN lost ELSE lost \cup {k.id}
  /\ UNCHANGED <<taskRow, mailbox, rosters, phase, todo, mailCount, shared, told, awaited>>

(* A call ends, and with it those made in its course. *)
Tell(r, k, what) ==
  /\ told' = [i \in MailIds |->
       IF i = k.id THEN what
       ELSE IF \E c \in MadeWithin(r, k) : c.id = i THEN "dropped" ELSE told[i]]
  /\ awaited' = [awaited EXCEPT ![r] = (@ \ MadeWithin(r, k)) \ {k}]
  /\ UNCHANGED <<taskRow, mailbox, rosters, phase, todo, mailCount, rows, shared, lost>>

Report(r, k) == Answered(k.id) /\ Tell(r, k, "completed")

(* Slip: the time of the delegate goes on while its result is stored. *)
FailsAtAnyTime(r, k) == Tell(r, k, "failed")

(* The delegate fails, or its time is over and its run is dropped. *)
DelegateFails(r, k) == ~Answered(k.id) /\ Tell(r, k, "failed")

(* The registry's timeout drops the tool call, wherever it waits. *)
CallTimesOut(r, k) == Tell(r, k, "dropped")

MailNext ==
  \/ \E r \in MailRuns :
       \/ StartTeam(r) \/ Announce(r) \/ SupervisorMissing(r) \/ StartCleanup(r) \/ EndTeam(r)
       \/ DropTeam(r)
       \/ \E k \in awaited[r] :
            \/ \E stores \in MayStore : StoreResult(r, k, stores)
            \/ Report(r, k) \/ DelegateFails(r, k) \/ CallTimesOut(r, k)
  \/ \E r \in MailRuns, a \in MailAgents :
       \/ Register(r, a) \/ DropMailbox(r, a) \/ Unregister(r, a)
       \/ \E stores \in MayStore :
            \/ SendMessage(r, a, stores) \/ SendFile(r, a, stores)
            \/ \E d \in Delegators(r) : Delegate(r, d, a, stores)

MailSpec == MailInit /\ [][MailNext]_mailVars

-----------------------------------------------------------------------------
MailTypeOK ==
  /\ mailbox \in [MailAgents -> [by : MailRuns, open : BOOLEAN] \cup {Nobody}]
  /\ rosters \subseteq MailRuns
  /\ phase \in [MailRuns -> {"idle", "registering", "supervising", "cleanup", "ended", "stranded"}]
  /\ todo \in [MailRuns -> SUBSET MailAgents]
  /\ shared \in [MailRuns -> 0 .. MaxMail]
  /\ told \in [MailIds -> {"unsent", "pending", "sent", "refused", "completed", "failed", "dropped"}]
  /\ lost \subseteq MailIds
  /\ awaited \in [MailRuns -> SUBSET Delegation]

(* agent_receive_messages: the newest messages to agent a, of every team,  *)
(* read or not.                                                            *)
Newer(w) == {v \in rows : v.to = w.to /\ v.at > w.at}
Received(a) == {w \in rows : w.to = a /\ Cardinality(Newer(w)) < ReadLimit}

(* A message whose tool call said "sent", and a delegation that was run,   *)
(* is among those that the recipient receives, unless newer ones fill its  *)
(* list: that the mailbox took the message, or that it went to an agent of *)
(* no run, does not lose it.  The file it refers to is in the team's       *)
(* directory, unless another was shared under the name since.              *)
SentIsReceived ==
  \A i \in MailIds : told[i] \in {"sent", "pending", "completed", "failed"} =>
    \E w \in rows : /\ w.id = i /\ w.kind # "result"
                   /\ (w \in Received(w.to) \/ Cardinality(Newer(w)) >= ReadLimit)
                   /\ (w.kind = "file" => shared[w.team] >= i)

(* An agent stays registered, and refuses what is sent to it, only while   *)
(* a run that it is a member of is going on, or after one that ended       *)
(* without its cleanup: for want of a supervisor, or dropped.              *)
RegisteredForARun ==
  \A a \in MailAgents : mailbox[a] # Nobody =>
    \E r \in MailRuns :
      a \in MailMembers[r] /\ phase[r] \in {"registering", "supervising", "cleanup", "stranded"}

(* The abstract mailbox, and the mapping that shows this module implements *)
(* it: the messages that can be read are rows, and so are the results.     *)
Promise == INSTANCE Mailbox WITH
             Messages <- MailIds,
             posted <- {w.id : w \in {v \in rows : v.kind # "result"}},
             results <- {w.id : w \in {v \in rows : v.kind = "result"}}

(* What the caller of a tool is told of a message is so: what the table    *)
(* holds and what the callers are told go together as the abstract mailbox *)
(* says, and the recipient is shown what the caller was told of.  That a   *)
(* delegation is completed says only that the delegate answered: its       *)
(* result may be lost, which no one is told.                               *)
MailKeepsItsWord == Promise!Spec /\ []SentIsReceived

(* What the comment at the cleanup says: it unregisters all agents. *)
CleanupAlwaysRuns ==
  (\A r \in MailRuns : phase[r] \in {"idle", "ended", "stranded"}) =>
    \A a \in MailAgents : mailbox[a] = Nobody
=============================================================================
