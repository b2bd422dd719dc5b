------------------------------ MODULE Gateway ------------------------------
(***************************************************************************)
(* The client of an OpenClaw gateway, under the tools openclaw_send and    *)
(* openclaw_delegate.  A request is a POST that makes the gateway run an   *)
(* agent; one that is not answered in time, is refused or meets a server   *)
(* error is sent again, up to max_retries times, and the gateway cannot    *)
(* tell that it is the same message.  The tool registry drops a call whose *)
(* time is over.  The gateway is external: it executes what it receives,   *)
(* once per request, whether or not the client still waits.                *)
(***************************************************************************)
EXTENDS Naturals, FiniteSets

CONSTANTS
  GatewayCalls, \* calls of the tools
  MaxRetries    \* max_retries of the configuration

ASSUME GatewayAssumption == MaxRetries \in Nat

Attempts == 0 .. MaxRetries

VARIABLES
  sending,   \* sending[g]: where send_message is
  attempt,   \* attempt[g]: the attempt in progress, or the last one
  response,   \* response[g][a]: what the client saw of attempt a
  executing  \* the attempts, as pairs, that the gateway is executing

gatewayVars == <<sending, attempt, response, executing>>

Outcomes == {"none", "open", "reply", "garbled", "refused", "error", "busy",
             "unconnected", "timeout", "broken", "dropped"}

(* What makes send_message go on to its next attempt. *)
Retried == {"busy", "error", "unconnected", "timeout"}

GatewayInit ==
  /\ sending = [g \in GatewayCalls |-> "idle"]
  /\ attempt = [g \in GatewayCalls |-> 0]
  /\ response = [g \in GatewayCalls |-> [a \in Attempts |-> "none"]]
  /\ executing = {}

-----------------------------------------------------------------------------
(* POST /v1/chat/completions, when the gateway can be connected to. *)
Post(g) ==
  /\ sending[g] \in {"idle", "backoff"}
  /\ sending' = [sending EXCEPT ![g] = "waiting"]
  /\ response' = [response EXCEPT ![g][attempt[g]] = "open"]
  /\ executing' = executing \cup {<<g, attempt[g]>>}
  /\ UNCHANGED attempt

(* Slip: every failed request is sent again. *)
RetriesAny(seen) == seen \in Retried \cup {"broken"}

Retries(seen) == seen \in Retried

(* The client sees how its request ended: it returns, or sleeps 500 ms,    *)
(* 1 s, 2 s ... and tries again, and returns the last error at the end.    *)
ClientSees(g, seen) ==
  /\ response' = [response EXCEPT ![g][attempt[g]] = seen]
  /\ \/ /\ Retries(seen) /\ attempt[g] < MaxRetries
        /\ sending' = [sending EXCEPT ![g] = "backoff"]
        /\ attempt' = [attempt EXCEPT ![g] = @ + 1]
     \/ /\ ~(Retries(seen) /\ attempt[g] < MaxRetries)
        /\ sending' = [sending EXCEPT ![g] = "returned"]
        /\ UNCHANGED attempt

Unconnected(g) ==
  /\ sending[g] \in {"idle", "backoff"}
  /\ ClientSees(g, "unconnected")
  /\ UNCHANGED executing

(* The gateway is done, or refuses: with a reply, with a body that is not  *)
(* the JSON expected, with 401, 403 or another 4xx, with 5xx, or with 429. *)
Responds(g) ==
  /\ sending[g] = "waiting"
  /\ <<g, attempt[g]>> \in executing
  /\ executing' = executing \ {<<g, attempt[g]>>}
  /\ \E seen \in {"reply", "garbled", "refused", "error", "busy"} : ClientSees(g, seen)

(* timeout_secs have passed, or the connection breaks while the client     *)
(* waits: the gateway goes on.                                             *)
NoAnswer(g) ==
  /\ sending[g] = "waiting"
  /\ \E seen \in {"timeout", "broken"} : ClientSees(g, seen)
  /\ UNCHANGED executing

(* The gateway is done with a request that nobody waits for. *)
EndsUnseen(g, a) ==
  /\ <<g, a>> \in executing
  /\ response[g][a] # "open"
  /\ executing' = executing \ {<<g, a>>}
  /\ UNCHANGED <<sending, attempt, response>>

(* The time of the tool is over: no further attempt is made. *)
ToolTimesOut(g) ==
  /\ sending[g] \in {"waiting", "backoff"}
  /\ sending' = [sending EXCEPT ![g] = "returned"]
  /\ response' = [response EXCEPT ![g][attempt[g]] = "dropped"]
  /\ UNCHANGED <<attempt, executing>>

GatewayNext == \E g \in GatewayCalls :
  \/ Post(g) \/ Unconnected(g) \/ Responds(g) \/ NoAnswer(g)
  \/ \E a \in Attempts : EndsUnseen(g, a)
  \/ ToolTimesOut(g)

GatewaySpec == GatewayInit /\ [][GatewayNext]_gatewayVars

-----------------------------------------------------------------------------
GatewayTypeOK ==
  /\ sending \in [GatewayCalls -> {"idle", "waiting", "backoff", "returned"}]
  /\ attempt \in [GatewayCalls -> Attempts]
  /\ response \in [GatewayCalls -> [Attempts -> Outcomes]]
  /\ executing \subseteq GatewayCalls \X Attempts

(* A message is being executed a second time only when the first execution *)
(* was slower than the client's timeout: two executions of one call        *)
(* overlap, or one goes on after the call has its reply, only then.        *)
OverlapOnlyAfterTimeout ==
  \A g \in GatewayCalls : \A a \in Attempts :
    /\ <<g, a>> \in executing
    /\ a < attempt[g]
    => response[g][a] = "timeout"
=============================================================================
