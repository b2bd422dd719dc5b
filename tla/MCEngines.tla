------------------------------- MODULE MCEngines -------------------------------
(***************************************************************************)
(* What a run of an agent works with: the workflow engine, the mailboxes   *)
(* of the agents, the two sides of a model call, the browser, e-mail and   *)
(* the OpenClaw gateway.  They share no state with each other, so that each    *)
(* behaviour is one of a single component, chosen in the initial state.    *)
(***************************************************************************)
EXTENDS Workflow, AgentMail, ModelStream, ModelCalls, Browser, Gateway, Email

CONSTANTS r1, r2, a1, a2, a3

(* Two teams that share an agent, and an agent of no team. *)
MCMembers == [r \in {r1, r2} |-> IF r = r1 THEN {a1, a2} ELSE {a2}]

(* A text of Anthropic; a text and two calls; calls without ends, the last *)
(* without arguments.                                                      *)
MCAnswers ==
  {<<Text(1), Text(2), End(NoCall)>>,
   <<Text(1), End(NoCall), Start("c1"), Args("c1", 1), Args("c1", 2), End("c1"),
     Start("c2"), Args("c2", 1), End("c2")>>,
   <<Start("c1"), Args("c1", 1), Args("c1", 2), Start("c2")>>}

VARIABLE component

Init ==
  /\ component \in {"workflow", "mail", "stream", "calls", "browser", "gateway",
                   "email"}
  /\ MailInit /\ (component # "mail" => taskRow)
  /\ StreamInit /\ (component # "stream" => answer = <<Text(1), Text(2), End(NoCall)>>)
  /\ CallsInit /\ (component # "calls" => /\ registered = {} /\ primary = "openai"
                                          /\ fallback = NoModel /\ ~planning /\ ~streaming
                                          /\ Len(messages) = 2)
  /\ BrowserInit /\ GatewayInit /\ EmailInit
  /\ IF component = "workflow" THEN WorkflowInit ELSE StartsWith({}, 0)

Next ==
  /\ UNCHANGED component
  /\ \/ /\ component = "workflow" /\ WorkflowNext
        /\ UNCHANGED <<mailVars, streamVars, callsVars, browserVars, gatewayVars, emailVars>>
     \/ /\ component = "mail" /\ MailNext
        /\ UNCHANGED <<workflowVars, streamVars, callsVars, browserVars, gatewayVars, emailVars>>
     \/ /\ component = "stream" /\ StreamNext
        /\ UNCHANGED <<workflowVars, mailVars, callsVars, browserVars, gatewayVars, emailVars>>
     \/ /\ component = "calls" /\ CallsNext
        /\ UNCHANGED <<workflowVars, mailVars, streamVars, browserVars, gatewayVars, emailVars>>
     \/ /\ component = "browser" /\ BrowserNext
        /\ UNCHANGED <<workflowVars, mailVars, streamVars, callsVars, gatewayVars, emailVars>>
     \/ /\ component = "gateway" /\ GatewayNext
        /\ UNCHANGED <<workflowVars, mailVars, streamVars, callsVars, browserVars, emailVars>>
     \/ /\ component = "email" /\ EmailNext
        /\ UNCHANGED <<workflowVars, mailVars, streamVars, callsVars, browserVars,
                        gatewayVars>>

vars == <<component, workflowVars, mailVars, streamVars, callsVars, browserVars,
          gatewayVars, emailVars>>

Spec == Init /\ [][Next]_vars
=============================================================================
