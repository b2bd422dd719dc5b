---------------------------- MODULE MessageRouter ----------------------------
(***************************************************************************)
(* Chat messages, from Telegram's servers to the answer.  The connector's  *)
(* poller fetches updates by offset and puts them into a broadcast channel;*)
(* one listener task takes them out and handles each to its end, the agent *)
(* run and the approvals it waits for included, before it takes the next.  *)
(* The offset is in memory only: Telegram forgets an update when a later   *)
(* request carries a greater offset.                                       *)
(*                                                                         *)
(* An update is its number, and what it carries its kind: a text or a      *)
(* voice message, which the agent runs, and whose run may ask for an       *)
(* approval, a command (and whatever else is answered on the spot), the    *)
(* button that approves what the chat's own run or a scheduled job asked   *)
(* for, or an update that parse_update drops: of a sender who is not       *)
(* allowed, or of an unsupported type.                                     *)
(***************************************************************************)
EXTENDS Naturals, Sequences, FiniteSets

CONSTANTS
  MaxUpdates,       \* bound: updates ever sent
  ChannelCapacity,  \* capacity of the broadcast channel: 256
  MaxCrashes        \* bound: how often the daemon dies

ASSUME RouterAssumption ==
  /\ MaxUpdates \in Nat
  /\ ChannelCapacity \in Nat \ {0}
  /\ MaxCrashes \in Nat

Update == 1 .. MaxUpdates
NoUpdate == 0
Origin == {"chat", "job"}  \* who asked for an approval
Kind == {"text", "voice", "command", "approve chat", "approve job", "dropped"}
Handled == Kind \ {"dropped"}
SendAttempts == 3

VARIABLES
  sent,      \* how many updates Telegram has received
  kind,      \* kind[u]
  confirmed, \* Telegram forgets updates up to this one
  running,   \* is the poller running?
  offset,    \* the next update it asks for; 0 after a start
  batch,     \* what it fetched and has not put into the channel
  channel,   \* the updates in the channel
  listener,  \* the listener task
  current,   \* the update it handles
  approval,  \* approval[o]: the row of the last request of a run of that origin
  taken,     \* the updates taken since the start, in order
  tries,     \* how often the answer to it was refused for want of time
  settled,   \* the updates that were answered, or whose handling ended without
  posted,    \* posted[u]: how many answers to u Telegram accepted
  gateway,   \* is the default agent OpenClaw's?
  lost,      \* lost[r]: the updates that were dropped unhandled for reason r
  crashes    \* how often the daemon died

routerVars == <<sent, kind, confirmed, running, offset, batch, channel, listener,
                current, approval, taken, tries, settled, posted, gateway, lost, crashes>>
serverVars == <<sent, kind, confirmed>>
pollerVars == <<running, offset, batch>>
listenerVars == <<listener, current, taken, tries>>
outcomeVars == <<settled, posted, gateway>>

Reason == {"lagged", "unheard", "crash", "panic"}

RouterInit ==
  /\ sent = 0
  /\ kind = [u \in Update |-> "dropped"]
  /\ confirmed = 0
  /\ running = FALSE /\ offset = 0 /\ batch = <<>>
  /\ channel = <<>>
  /\ listener = "down" /\ current = NoUpdate
  /\ approval = [o \in Origin |-> "none"]
  /\ taken = <<>>
  /\ tries = 0
  /\ settled = {} /\ posted = [u \in Update |-> 0] /\ gateway \in BOOLEAN
  /\ lost = [r \in Reason |-> {}]
  /\ crashes = 0

InSeq(s) == {s[i] : i \in DOMAIN s}

-----------------------------------------------------------------------------
(* The user and the daemon's other parts.                                  *)

(* The row is pending: with a run that waits, or with one that a crash     *)
(* ended.                                                                  *)
Open(o) == approval[o] \in {"pending", "orphaned"}

(* A button is shown for a pending row. *)
Send(k) ==
  /\ sent < MaxUpdates
  /\ k = "approve chat" => Open("chat")
  /\ k = "approve job" => Open("job")
  /\ sent' = sent + 1
  /\ kind' = [kind EXCEPT ![sent'] = k]
  /\ UNCHANGED <<confirmed, pollerVars, channel, listenerVars, approval, outcomeVars, lost,
                 crashes>>

(* A scheduled job's run asks for an approval. *)
JobAsks ==
  /\ listener # "down"
  /\ approval["job"] = "none"
  /\ approval' = [approval EXCEPT !["job"] = "pending"]
  /\ UNCHANGED <<serverVars, pollerVars, channel, listenerVars, outcomeVars, lost, crashes>>

(* The dashboard or the command line decides. *)
DecideElsewhere(o) ==
  /\ Open(o)
  /\ approval' = [approval EXCEPT ![o] = "closed"]
  /\ UNCHANGED <<serverVars, pollerVars, channel, listenerVars, outcomeVars, lost, crashes>>

(* Slip: only a job's run gives up waiting. *)
ExpireJobs(o) ==
  /\ o = "job" /\ Open(o)
  /\ approval' = [approval EXCEPT ![o] = "closed"]
  /\ UNCHANGED <<serverVars, pollerVars, channel, listenerVars, outcomeVars, lost, crashes>>

(* wait_for_decision times out, or expires what others left. *)
Expire(o) ==
  /\ Open(o)
  /\ approval' = [approval EXCEPT ![o] = "closed"]
  /\ UNCHANGED <<serverVars, pollerVars, channel, listenerVars, outcomeVars, lost, crashes>>

-----------------------------------------------------------------------------
(* The connector.                                                          *)

(* connect: start_polling with offset 0, before start subscribes. *)
Connect ==
  /\ ~running
  /\ running' = TRUE
  /\ offset' = 0
  /\ UNCHANGED <<serverVars, batch, channel, listenerVars, approval, outcomeVars, lost, crashes>>

(* subscribe, and the listener task. *)
Subscribe ==
  /\ running
  /\ listener = "down"
  /\ listener' = "idle"
  /\ UNCHANGED <<serverVars, pollerVars, channel, current, taken, tries, approval, outcomeVars,
                 lost, crashes>>

Confirmed == IF offset = 0 \/ offset - 1 < confirmed THEN confirmed ELSE offset - 1

(* getUpdates: the offset confirms the updates before it; the answer holds *)
(* the others, or does not arrive and the poller asks again.               *)
Poll ==
  /\ running
  /\ batch = <<>>
  /\ confirmed' = Confirmed
  /\ batch' \in {<<>>, [i \in 1 .. sent - confirmed' |-> confirmed' + i]}
  /\ UNCHANGED <<sent, kind, running, offset, channel, listenerVars, approval, outcomeVars, lost,
                 crashes>>

Listening == listener \notin {"down", "dead"}

(* Slip: the next request asks for the update again. *)
DispatchAtOffset ==
  /\ running
  /\ batch # <<>>
  /\ offset' = Head(batch)
  /\ batch' = Tail(batch)
  /\ channel' = IF Listening /\ Len(channel) < ChannelCapacity
                THEN Append(channel, Head(batch)) ELSE channel
  /\ UNCHANGED <<serverVars, running, listenerVars, approval, outcomeVars, lost, crashes>>

(* The next update of the batch: the offset moves past it; if it is not    *)
(* dropped it goes into the channel, whose oldest message makes room when  *)
(* the capacity is reached; without a receiver it is lost.                 *)
Dispatch ==
  /\ running
  /\ batch # <<>>
  /\ offset' = Head(batch) + 1
  /\ batch' = Tail(batch)
  /\ IF kind[Head(batch)] = "dropped" THEN UNCHANGED <<channel, lost>>
     ELSE IF ~Listening
       THEN /\ lost' = [lost EXCEPT !["unheard"] = @ \cup {Head(batch)}]
            /\ UNCHANGED channel
     ELSE IF Len(channel) = ChannelCapacity
       THEN /\ lost' = [lost EXCEPT !["lagged"] = @ \cup {Head(channel)}]
            /\ channel' = Append(Tail(channel), Head(batch))
     ELSE /\ channel' = Append(channel, Head(batch))
          /\ UNCHANGED lost
  /\ UNCHANGED <<serverVars, running, listenerVars, approval, outcomeVars, crashes>>

-----------------------------------------------------------------------------
(* The listener: MessageRouterHandler::handle_incoming.                    *)

(* recv. *)
Take ==
  /\ listener = "idle"
  /\ channel # <<>>
  /\ current' = Head(channel)
  /\ channel' = Tail(channel)
  /\ taken' = Append(taken, current')
  /\ listener' = "routing"
  /\ UNCHANGED <<serverVars, pollerVars, tries, approval, outcomeVars, lost, crashes>>

Goto(l) ==
  /\ listener' = l
  /\ UNCHANGED <<current, taken, tries>>

(* A text is run by the default agent, and so is a voice message that was  *)
(* downloaded and transcribed, whatever the default agent is.              *)
StartRun ==
  /\ listener = "routing"
  /\ kind[current] = "voice" \/ (kind[current] = "text" /\ ~gateway)
  /\ Goto("agent")
  /\ UNCHANGED <<serverVars, pollerVars, channel, approval, outcomeVars, lost, crashes>>

(* run_via_openclaw: the text goes to the gateway, and comes back, or an   *)
(* error, within the two minutes of the client.                            *)
AskGateway ==
  /\ listener = "routing"
  /\ kind[current] = "text" /\ gateway
  /\ Goto("gateway")
  /\ UNCHANGED <<serverVars, pollerVars, channel, approval, outcomeVars, lost, crashes>>

GatewayAnswers ==
  /\ listener = "gateway"
  /\ Goto("answer")
  /\ UNCHANGED <<serverVars, pollerVars, channel, approval, outcomeVars, lost, crashes>>

(* The run's tool call waits for a decision, and the listener for the run. *)
RunAsks ==
  /\ listener = "agent"
  /\ approval' = [approval EXCEPT !["chat"] = "pending"]
  /\ Goto("waiting")
  /\ UNCHANGED <<serverVars, pollerVars, channel, outcomeVars, lost, crashes>>

RunGoesOn ==
  /\ listener = "waiting"
  /\ approval["chat"] # "pending"
  /\ Goto("answer")
  /\ UNCHANGED <<serverVars, pollerVars, channel, approval, outcomeVars, lost, crashes>>

RunEnds ==
  /\ listener = "agent"
  /\ Goto("answer")
  /\ UNCHANGED <<serverVars, pollerVars, channel, approval, outcomeVars, lost, crashes>>

(* Commands, photos and documents are answered on the spot; so is a voice  *)
(* message that is too long, or that cannot be downloaded or transcribed,  *)
(* or whose agent is missing.                                              *)
AnswerAtOnce ==
  /\ listener = "routing"
  /\ kind[current] \in {"command", "voice"}
  /\ Goto("answer")
  /\ UNCHANGED <<serverVars, pollerVars, channel, approval, outcomeVars, lost, crashes>>

ButtonOf(o) == IF o = "chat" THEN "approve chat" ELSE "approve job"

(* Slip: a task of its own handles each press when it arrives. *)
PressAtOnce(o) ==
  /\ Listening /\ channel # <<>>
  /\ kind[Head(channel)] = ButtonOf(o)
  /\ approval' = [approval EXCEPT ![o] = IF Open(o) THEN "approved" ELSE @]
  /\ channel' = Tail(channel)
  /\ settled' = settled \cup {Head(channel)}
  /\ UNCHANGED <<serverVars, pollerVars, listenerVars, posted, gateway, lost, crashes>>

(* handle_callback_query: approve succeeds while the request is pending. *)
PressButton(o) ==
  /\ listener = "routing"
  /\ kind[current] = ButtonOf(o)
  /\ approval' = [approval EXCEPT ![o] = IF Open(o) THEN "approved" ELSE @]
  /\ Goto("answer")
  /\ UNCHANGED <<serverVars, pollerVars, channel, outcomeVars, lost, crashes>>

(* The handling of the update is over. *)
Settle ==
  /\ listener' = "idle"
  /\ current' = NoUpdate
  /\ tries' = 0
  /\ settled' = settled \cup {current}
  /\ UNCHANGED <<serverVars, pollerVars, channel, taken, approval, gateway, lost, crashes>>

(* The agent is not in the registry: the handler returns without an        *)
(* answer.                                                                 *)
AgentMissing ==
  /\ listener = "routing"
  /\ kind[current] = "text" /\ ~gateway
  /\ Settle
  /\ UNCHANGED posted

(* send_message_live: Telegram takes the answer, whether its response      *)
(* arrives or not.                                                         *)
Answer ==
  /\ listener = "answer"
  /\ Settle
  /\ posted' = [posted EXCEPT ![current] = @ + 1]

(* Too many requests: send_message_live waits and sends it again. *)
RateLimited ==
  /\ listener = "answer" /\ tries + 1 < SendAttempts
  /\ tries' = tries + 1
  /\ UNCHANGED <<serverVars, pollerVars, channel, listener, current, taken, approval,
                 outcomeVars, lost, crashes>>

(* A run has no answer; the last attempt is refused, the request fails, or *)
(* Telegram does not like the answer (too long, bad HTML): the error is    *)
(* ignored.                                                                *)
AnswerRefused ==
  /\ listener = "answer"
  /\ Settle
  /\ UNCHANGED posted

(* markdown_to_telegram_html slices backwards, and panics, when a code     *)
(* block opens and closes on one line of the agent's answer and the line   *)
(* has no spaces: the listener task is gone, and the channel's receiver    *)
(* with it.                                                                *)
AnswerPanics ==
  /\ listener = "answer"
  /\ kind[current] \in {"text", "voice"} /\ tries = 0
  /\ listener' = "dead"
  /\ current' = NoUpdate
  /\ lost' = [lost EXCEPT !["panic"] = @ \cup {current} \cup InSeq(channel)]
  /\ channel' = <<>>
  /\ UNCHANGED <<serverVars, pollerVars, taken, tries, approval, outcomeVars, crashes>>

(* The daemon dies.  What Telegram has not forgotten it sends again. *)
Crash ==
  /\ running
  /\ crashes < MaxCrashes
  /\ crashes' = crashes + 1
  /\ running' = FALSE /\ offset' = 0 /\ batch' = <<>>
  /\ lost' = [lost EXCEPT !["crash"] =
       @ \cup {u \in InSeq(channel) \cup ({current} \ {NoUpdate}) : u <= confirmed}]
  /\ channel' = <<>>
  /\ listener' = "down" /\ current' = NoUpdate
  /\ taken' = <<>> /\ tries' = 0
  /\ approval' = [o \in Origin |-> IF Open(o) THEN "orphaned" ELSE approval[o]]
  /\ UNCHANGED <<serverVars, outcomeVars>>

RouterStep ==
  \/ Subscribe \/ Poll \/ Dispatch \/ Take \/ StartRun \/ AgentMissing \/ RunGoesOn \/ RunEnds
  \/ AskGateway \/ GatewayAnswers \/ AnswerAtOnce
  \/ Answer \/ RateLimited \/ AnswerRefused \/ AnswerPanics
  \/ \E o \in Origin : PressButton(o) \/ Expire(o)

RouterNext ==
  \/ RouterStep
  \/ \E k \in Kind : Send(k)
  \/ JobAsks \/ RunAsks \/ Connect \/ Crash
  \/ \E o \in Origin : DecideElsewhere(o)

RouterSpec == RouterInit /\ [][RouterNext]_routerVars

(* The poller loops, and one of its requests is answered in the end; the   *)
(* listener task goes on; a run ends, and a wait for a decision times out. *)
(* Nothing is assumed of the user, of the runs' choices or of crashes.     *)
RouterFairness ==
  /\ WF_routerVars(Subscribe)
  /\ WF_routerVars(Poll /\ batch' # <<>>)
  /\ WF_routerVars(Dispatch)
  /\ WF_routerVars(Take)
  /\ WF_routerVars(StartRun \/ AgentMissing \/ AskGateway \/ AnswerAtOnce
                     \/ \E o \in Origin : PressButton(o))
  /\ WF_routerVars(GatewayAnswers)
  /\ WF_routerVars(RunEnds)
  /\ WF_routerVars(RunGoesOn)
  /\ WF_routerVars(Answer \/ RateLimited \/ AnswerRefused)
  /\ \A o \in Origin : WF_routerVars(Expire(o) /\ approval[o] = "pending")

FairRouterSpec == RouterSpec /\ RouterFairness

-----------------------------------------------------------------------------
RouterTypeOK ==
  /\ sent \in 0 .. MaxUpdates /\ confirmed \in 0 .. sent
  /\ kind \in [Update -> Kind]
  /\ running \in BOOLEAN /\ offset \in 0 .. sent + 1
  /\ batch \in Seq(Update) /\ channel \in Seq(Update)
  /\ Len(channel) <= ChannelCapacity
  /\ listener \in {"down", "idle", "routing", "gateway", "agent", "waiting", "answer",
                  "dead"}
  /\ current \in Update \cup {NoUpdate}
  /\ current # NoUpdate <=> listener \in {"routing", "gateway", "agent", "waiting", "answer"}
  /\ approval \in [Origin -> {"none", "pending", "orphaned", "approved", "closed"}]
  /\ settled \subseteq Update
  /\ taken \in Seq(Update)
  /\ tries \in 0 .. SendAttempts - 1
  /\ posted \in [Update -> Nat] /\ gateway \in BOOLEAN
  /\ lost \in [Reason -> SUBSET Update]
  /\ crashes \in 0 .. MaxCrashes

Gone == UNION {lost[r] : r \in Reason}

(* Whatever Telegram has forgotten was handled, is in the daemon, or went  *)
(* for a reason that is known: the channel overflowed (live.rs keeps no    *)
(* copy), nobody listened yet or any more, or the daemon or its listener   *)
(* died with it.  The batch, the offset and the confirmation by the next   *)
(* request leave no other gap, across restarts too.                        *)
ForgottenIsAccountedFor ==
  \A u \in 1 .. confirmed :
    kind[u] \in Handled => u \in settled \cup {current} \cup InSeq(channel) \cup Gone

(* Within one life of the daemon updates are handled in the order in which *)
(* they were sent, and each at most once: that a request is repeated, that *)
(* its answer is lost and that messages are skipped in an overflow do not  *)
(* bring one back or reorder them.                                         *)
HandledOnceInOrder ==
  \A i, j \in DOMAIN taken : i < j => taken[i] < taken[j]

(* A chat sees one answer to its message, and another for each life of the *)
(* daemon that fetched the message again: the attempts after a refusal for *)
(* want of time, or an answer that is lost, add none.                      *)
AnsweredOnceALife == \A u \in Update : posted[u] <= 1 + crashes

(* All three: a message is handled once, in its turn, or its loss has a    *)
(* reason, and is answered once.                                           *)
MessagesAccounted == ForgottenIsAccountedFor /\ HandledOnceInOrder /\ AnsweredOnceALife

(* The buttons of the chat never decide what the chat's own run waits for: *)
(* the listener awaits that run, and the press waits in the channel behind *)
(* it, until the run has given up (router.rs:137).                         *)
ButtonsNeverReachOwnRun ==
  [][approval["chat"] = "pending" => approval'["chat"] # "approved"]_routerVars

(* Every update that is sent while the daemon runs is answered, or is lost *)
(* for one of the known reasons, or the daemon dies: a run that waits for  *)
(* a decision nobody can give it holds up the others only until it expires.*)
UpdatesSettle ==
  \A u \in Update :
    (running /\ u <= sent /\ kind[u] \in Handled) ~> (u \in settled \cup Gone \/ ~running)

(* What the documentation of start says of every connector: it listens. *)
ListenerKeepsListening == listener # "dead"
=============================================================================
