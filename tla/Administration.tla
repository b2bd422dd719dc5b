--------------------------- MODULE Administration ---------------------------
(***************************************************************************)
(* What the dashboard and the chat commands administrate: the agents, the  *)
(* agent that chats, and its model.  Each request is a task of its own; an *)
(* agent definition is one row, which "/model set" reads, changes and      *)
(* writes back whole.  The boot writes the preset agents with INSERT OR    *)
(* REPLACE.  Every read and write of a row may fail: the pool has no       *)
(* connection, the statement fails, or the definition does not parse.      *)
(*                                                                         *)
(* Of a definition only its model and version are told apart; an agent is  *)
(* a number, by which list_all orders.                                     *)
(***************************************************************************)
EXTENDS Naturals, FiniteSets

CONSTANTS
  AgentIds,      \* a set of numbers
  DefaultAgent,  \* agt_default_chat, current after every boot
  Presets,       \* the agents that every boot writes
  Models,        \* the models "/model set" knows
  FirstModel,    \* the model of a definition that is created
  AdminCalls,    \* requests that may overlap
  MaxVersion,    \* bound: versions of a definition
  MaxBoots       \* bound: restarts of the daemon

ASSUME AdministrationAssumption ==
  /\ Presets \subseteq AgentIds /\ DefaultAgent \in Presets /\ AgentIds \subseteq Nat \ {0}
  /\ FirstModel \in Models
  /\ MaxVersion \in Nat \ {0} /\ MaxBoots \in Nat

NoAgent == 0
NoModel == "none"
NoRow == [model |-> NoModel, version |-> 0]
FirstRow == [model |-> FirstModel, version |-> 1]

VARIABLES
  agents,    \* agents[a]: the row, or NoRow
  current,   \* current_agent_id
  admin,     \* admin[c]: [pc, agent, model, version, excused], the request;
             \* excused: its agent was deleted, or could not be read
  boots,     \* how many restarts there were
  switched,  \* switched[a]: the latest model acknowledged for the row
  deleted    \* the agents deleted since "/agent switch" last looked for them

adminVars == <<agents, current, admin, boots, switched, deleted>>

NoCall == [pc |-> "idle", agent |-> NoAgent, model |-> NoModel, version |-> 0,
           excused |-> FALSE]

AdminInit ==
  /\ agents = [a \in AgentIds |-> IF a \in Presets THEN FirstRow ELSE NoRow]
  /\ current = DefaultAgent
  /\ admin = [c \in AdminCalls |-> NoCall]
  /\ boots = 0
  /\ switched = [a \in AgentIds |-> NoModel]
  /\ deleted = {}

-----------------------------------------------------------------------------
Exists(a) == agents[a] # NoRow
At(c, pc) == admin[c].pc = pc
Call(c, call) == admin' = [admin EXCEPT ![c] = call]

(* create, over HTTP or gRPC, where the id may be given: INSERT OR REPLACE.*)
CreateAgent(a) ==
  /\ agents' = [agents EXCEPT ![a] = FirstRow]
  /\ switched' = [switched EXCEPT ![a] = NoModel]
  /\ UNCHANGED <<current, admin, boots, deleted>>

DeleteAgent(a) ==
  /\ Exists(a)
  /\ agents' = [agents EXCEPT ![a] = NoRow]
  /\ switched' = [switched EXCEPT ![a] = NoModel]
  /\ deleted' = deleted \cup {a}
  /\ UNCHANGED <<current, admin, boots>>

-----------------------------------------------------------------------------
(* "/model set": the definition is read and changed, ... *)
SetModel(c, m) ==
  /\ At(c, "idle")
  /\ Exists(current)
  /\ Call(c, [NoCall EXCEPT !.pc = "update", !.agent = current, !.model = m])
  /\ UNCHANGED <<agents, current, boots, switched, deleted>>

(* ... AgentRegistry::update reads the row again, for its version, ... *)
ReadVersion(c) ==
  /\ At(c, "update")
  /\ LET row == agents[admin[c].agent] IN
     IF row = NoRow THEN Call(c, NoCall)
     ELSE Call(c, [admin[c] EXCEPT !.pc = "write", !.version = row.version + 1])
  /\ UNCHANGED <<agents, current, boots, switched, deleted>>

(* Slip: how many rows the UPDATE changed is not looked at. *)
WriteUnseen(c) ==
  /\ At(c, "write") /\ admin[c].version <= MaxVersion
  /\ LET a == admin[c].agent IN
     /\ agents' = IF Exists(a)
                  THEN [agents EXCEPT ![a] = [model |-> admin[c].model,
                                              version |-> admin[c].version]]
                  ELSE agents
     /\ switched' = [switched EXCEPT ![a] = admin[c].model]
  /\ Call(c, NoCall)
  /\ UNCHANGED <<current, boots, deleted>>

(* ... and writes it: "Model switched", or NotFound when it is gone. *)
WriteAgent(c) ==
  /\ At(c, "write") /\ admin[c].version <= MaxVersion
  /\ LET a == admin[c].agent IN
     IF Exists(a)
     THEN /\ agents' = [agents EXCEPT ![a] = [model |-> admin[c].model,
                                              version |-> admin[c].version]]
          /\ switched' = [switched EXCEPT ![a] = admin[c].model]
     ELSE UNCHANGED <<agents, switched>>
  /\ Call(c, NoCall)
  /\ UNCHANGED <<current, boots, deleted>>

(* The row of the agent, or the list, cannot be read or written: the       *)
(* request is answered with the error.                                     *)
AdminFails(c) ==
  /\ admin[c].pc \in {"update", "write", "fallback"}
  /\ Call(c, NoCall)
  /\ UNCHANGED <<agents, current, boots, switched, deleted>>

-----------------------------------------------------------------------------
(* "/agent switch": the agent is looked for ... *)
FindAgent(c, a) ==
  /\ At(c, "idle")
  /\ Exists(a)
  /\ Call(c, [NoCall EXCEPT !.pc = "switch", !.agent = a])
  /\ deleted' = deleted \ {a}
  /\ UNCHANGED <<agents, current, boots, switched>>

(* ... and becomes the current one. *)
SwitchAgent(c) ==
  /\ At(c, "switch")
  /\ current' = admin[c].agent
  /\ Call(c, NoCall)
  /\ UNCHANGED <<agents, boots, switched, deleted>>

(* chat and chat_stream: the current agent answers if get returns it,      *)
(* whatever the error else ...                                             *)
Chat(c, readable) ==
  /\ At(c, "idle")
  /\ Call(c, [NoCall EXCEPT
       !.pc = IF Exists(current) /\ readable THEN "answered" ELSE "fallback",
       !.agent = current, !.excused = current \in deleted \/ ~readable])
  /\ UNCHANGED <<agents, current, boots, switched, deleted>>

(* ... and else the first of the list, from which the rows that do not     *)
(* parse are missing.                                                      *)
FallBack(c, parsed) ==
  /\ At(c, "fallback")
  /\ \/ \E a \in parsed :
          /\ \A b \in parsed : a <= b
          /\ Call(c, [admin[c] EXCEPT !.pc = "another", !.agent = a])
     \/ parsed = {} /\ Call(c, NoCall)
  /\ UNCHANGED <<agents, current, boots, switched, deleted>>

EndChat(c) ==
  /\ admin[c].pc \in {"answered", "another"}
  /\ Call(c, NoCall)
  /\ UNCHANGED <<agents, current, boots, switched, deleted>>

-----------------------------------------------------------------------------
(* The daemon restarts: the presets are written, and the memory of the old *)
(* process is gone.                                                        *)
Reboot ==
  /\ boots < MaxBoots
  /\ boots' = boots + 1
  /\ agents' = [a \in AgentIds |-> IF a \in Presets THEN FirstRow ELSE agents[a]]
  /\ switched' = [a \in AgentIds |-> IF a \in Presets THEN NoModel ELSE switched[a]]
  /\ current' = DefaultAgent
  /\ admin' = [c \in AdminCalls |-> NoCall]
  /\ deleted' = deleted \ {DefaultAgent}

AdminNext ==
  \/ Reboot
  \/ \E a \in AgentIds : CreateAgent(a) \/ DeleteAgent(a)
  \/ \E c \in AdminCalls :
       \/ \E m \in Models : SetModel(c, m)
       \/ \E a \in AgentIds : FindAgent(c, a)
       \/ ReadVersion(c) \/ WriteAgent(c) \/ AdminFails(c) \/ SwitchAgent(c)
       \/ \E readable \in BOOLEAN : Chat(c, readable)
       \/ \E parsed \in SUBSET {a \in AgentIds : Exists(a)} : FallBack(c, parsed)
       \/ EndChat(c)

AdminSpec == AdminInit /\ [][AdminNext]_adminVars

-----------------------------------------------------------------------------
AdminTypeOK ==
  /\ agents \in [AgentIds -> [model : Models, version : 1 .. MaxVersion] \cup {NoRow}]
  /\ current \in AgentIds
  /\ admin \in [AdminCalls ->
       [pc : {"idle", "update", "write", "switch", "answered", "fallback", "another"},
        agent : AgentIds \cup {NoAgent}, model : Models \cup {NoModel},
        version : 0 .. MaxVersion + 1, excused : BOOLEAN]]
  /\ boots \in 0 .. MaxBoots
  /\ switched \in [AgentIds -> Models \cup {NoModel}]
  /\ deleted \subseteq AgentIds

(* "Model switched" is true: the agent exists and has the model that was   *)
(* acknowledged last, although requests overlap, the definition was read   *)
(* twice, and the agent may have been deleted or created again in between. *)
SwitchedModelStands ==
  \A a \in AgentIds : switched[a] # NoModel => agents[a].model = switched[a]

(* Another agent than the current one answers a chat, without a word, only *)
(* when the current one was deleted after it had been chosen, or could not *)
(* be read for this chat.                                                  *)
ChosenAgentAnswers ==
  \A c \in AdminCalls : admin[c].pc = "another" => admin[c].excused

(* Both: what a switch of the model said holds, and a chat is answered by  *)
(* the agent that it is told of.                                           *)
AnswersAreTrue == SwitchedModelStands /\ ChosenAgentAnswers
=============================================================================
