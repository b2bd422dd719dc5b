----------------------------- MODULE ModelStream -----------------------------
(***************************************************************************)
(* A streamed answer of a model: the server writes one line per event, the *)
(* network cuts the bytes anywhere, the provider puts the lines together   *)
(* again and turns each into a chunk, and the agent runtime puts the       *)
(* chunks together into one message, text or tool calls.                   *)
(*                                                                         *)
(* A line is two pieces, the second of which ends it.  An event is a piece *)
(* of text, the start of a tool call, a part of its arguments, or the end  *)
(* of a block; Anthropic ends its texts too, OpenAI sends no ends.  Usage  *)
(* is left out.  What arrives is decoded before it is joined: a character  *)
(* that the network cuts in two is lost.                                   *)
(***************************************************************************)
EXTENDS Integers, Sequences, FiniteSets

CONSTANTS
  Answers,    \* answers of the server, each a sequence of events
  MaxReceive  \* bound: pieces that arrive together

NoCall == "no call"
Event == [type : {"text", "start", "args", "end"}, call : STRING, part : Nat]

(* What the servers send: a call starts once, and the arguments of a call  *)
(* come before another starts and before a block ends.                     *)
IsAnswer(a) ==
  /\ a \in Seq(Event)
  /\ \A i \in DOMAIN a : a[i].type = "start" =>
       /\ a[i].call # NoCall
       /\ \A j \in DOMAIN a \ {i} : a[j].type = "start" => a[j].call # a[i].call
  /\ \A i \in DOMAIN a : a[i].type = "args" =>
       \E s \in 1 .. i - 1 :
         /\ a[s].type = "start" /\ a[s].call = a[i].call
         /\ \A j \in s + 1 .. i - 1 : a[j].type \notin {"start", "end"}

ASSUME StreamAssumption ==
  /\ \A a \in Answers : IsAnswer(a)
  /\ MaxReceive \in Nat \ {0}

Text(i) == [type |-> "text", call |-> NoCall, part |-> i]
Start(c) == [type |-> "start", call |-> c, part |-> 0]
Args(c, i) == [type |-> "args", call |-> c, part |-> i]
End(c) == [type |-> "end", call |-> c, part |-> 0]

VARIABLES
  answer,   \* what the server sends
  unsent,   \* the pieces that have not arrived
  buffer,   \* the pieces that arrived and are not parsed
  garbled,  \* the events in which a character was cut in two
  link,     \* "open", "closed" by the server, or "broken"
  text,     \* text_buffer: the parts
  open,     \* current_tool_id, and the argument parts so far
  calls,    \* tool_calls: the ids, and their argument parts
  outcome   \* what stream_completion returns

streamVars == <<answer, unsent, buffer, garbled, link, text, open, calls, outcome>>

Nothing == [call |-> NoCall, args |-> <<>>]
Reading == [kind |-> "reading"]

Piece(i) == <<(i + 1) \div 2, IF i % 2 = 1 THEN "begins" ELSE "ends">>

StreamInit ==
  /\ answer \in Answers
  /\ unsent = [i \in 1 .. 2 * Len(answer) |-> Piece(i)]
  /\ buffer = <<>> /\ garbled = {}
  /\ link = "open"
  /\ text = <<>> /\ open = Nothing /\ calls = <<>>
  /\ outcome = Reading

HasLine == \E i \in DOMAIN buffer : buffer[i][2] = "ends"

(* from_utf8_lossy: when k more pieces end within a line, the cut may be   *)
(* inside a character, which takes its loss to the text of the event.      *)
Decode(k) ==
  LET last == unsent[k]
  IN \/ UNCHANGED garbled
     \/ last[2] = "begins" /\ garbled' = garbled \cup {last[1]}

(* Slip: what is left of a line is dropped when more arrives. *)
ReceiveFresh(k) ==
  /\ outcome = Reading /\ link = "open" /\ ~HasLine
  /\ k <= Len(unsent) /\ Decode(k)
  /\ buffer' = SubSeq(unsent, 1, k)
  /\ unsent' = SubSeq(unsent, k + 1, Len(unsent))
  /\ UNCHANGED <<answer, link, text, open, calls, outcome>>

(* No whole line is left in the buffer: more bytes are awaited. *)
Receive(k) ==
  /\ outcome = Reading /\ link = "open" /\ ~HasLine
  /\ k <= Len(unsent) /\ Decode(k)
  /\ buffer' = buffer \o SubSeq(unsent, 1, k)
  /\ unsent' = SubSeq(unsent, k + 1, Len(unsent))
  /\ UNCHANGED <<answer, link, text, open, calls, outcome>>

(* The server has sent everything and closes; or the connection breaks, or *)
(* the server reports an error in the middle of the answer.                *)
Close ==
  /\ link = "open" /\ unsent = <<>>
  /\ link' = "closed"
  /\ UNCHANGED <<answer, unsent, buffer, garbled, text, open, calls, outcome>>

Break ==
  /\ link = "open"
  /\ link' = "broken"
  /\ UNCHANGED <<answer, unsent, buffer, garbled, text, open, calls, outcome>>

(* The current call, if there is one, joins the others. *)
Flushed == IF open.call = NoCall THEN calls ELSE Append(calls, open)

(* stream_completion takes one chunk. *)
TakeChunk(e) ==
  \/ /\ e.type = "text"
     /\ text' = Append(text, e)
     /\ UNCHANGED <<open, calls>>
  \/ /\ e.type = "start"
     /\ calls' = Flushed
     /\ open' = [call |-> e.call, args |-> IF open.call = NoCall THEN open.args ELSE <<>>]
     /\ UNCHANGED text
  \/ /\ e.type = "args"
     /\ open' = [open EXCEPT !.args = Append(@, e)]
     /\ UNCHANGED <<text, calls>>
  \/ /\ e.type = "end"
     /\ calls' = Flushed
     /\ open' = IF open.call = NoCall THEN open ELSE Nothing
     /\ UNCHANGED text

(* An event as it was decoded. *)
Decoded(i) == IF i \in garbled THEN [answer[i] EXCEPT !.part = -@] ELSE answer[i]

(* The first line of the buffer: one that does not parse is ignored. *)
ParseLine ==
  /\ outcome = Reading /\ HasLine
  /\ LET n == CHOOSE i \in DOMAIN buffer :
                buffer[i][2] = "ends" /\ \A j \in 1 .. i - 1 : buffer[j][2] = "begins"
         whole == n = 2 /\ buffer[1][1] = buffer[2][1]
     IN /\ IF whole THEN TakeChunk(Decoded(buffer[1][1])) ELSE UNCHANGED <<text, open, calls>>
        /\ buffer' = SubSeq(buffer, n + 1, Len(buffer))
  /\ UNCHANGED <<answer, unsent, garbled, link, outcome>>

(* The elements of a sequence at some of its positions, in their order. *)
Rank(S, i) == Cardinality({j \in S : j <= i})
Picked(s, S) == [k \in 1 .. Cardinality(S) |-> s[CHOOSE i \in S : Rank(S, i) = k]]

(* The arguments parse if every part of them is there, garbled or not, and *)
(* there is one: nothing at all is no JSON.                                *)
ArgsOf(c) == {i \in DOMAIN answer : answer[i].type = "args" /\ answer[i].call = c}
PartsOf(c) == Picked(answer, ArgsOf(c))
Parsed(c) ==
  [call |-> c.call,
   args |-> CASE c.args = <<>> -> "null"
              [] c.args # <<>> /\ c.args = PartsOf(c.call) -> "whole"
              [] Len(c.args) = Len(PartsOf(c.call)) /\ c.args # PartsOf(c.call) -> "garbled"
              [] OTHER -> "null"]

(* The stream is over: Ok(None) yields Done, and an error the chunk Error, *)
(* at which take_while ends the stream like at Done; a Done is appended.   *)
Finish ==
  /\ outcome = Reading /\ ~HasLine /\ link # "open"
  /\ outcome' = IF Flushed # <<>>
                  THEN [kind |-> "calls", calls |-> [i \in DOMAIN Flushed |-> Parsed(Flushed[i])]]
                  ELSE [kind |-> "text", text |-> text]
  /\ UNCHANGED <<answer, unsent, buffer, garbled, link, text, open, calls>>

StreamNext == (\E k \in 1 .. MaxReceive : Receive(k)) \/ Close \/ Break \/ ParseLine \/ Finish
StreamSpec == StreamInit /\ [][StreamNext]_streamVars

-----------------------------------------------------------------------------
StreamTypeOK ==
  /\ answer \in Answers
  /\ link \in {"open", "closed", "broken"}
  /\ \A i \in DOMAIN text : text[i].type = "text"
  /\ \A i \in DOMAIN calls : calls[i].call # NoCall

(* The message that the answer stands for.  A call without any arguments  *)
(* is given null.                                                          *)
Starts == {i \in DOMAIN answer : answer[i].type = "start"}
Texts == {i \in DOMAIN answer : answer[i].type = "text"}
Meant ==
  IF Starts # {}
  THEN [kind |-> "calls",
        calls |-> [k \in 1 .. Cardinality(Starts) |->
                     LET c == Picked(answer, Starts)[k].call
                     IN [call |-> c, args |-> IF ArgsOf(c) = {} THEN "null" ELSE "whole"]]]
  ELSE [kind |-> "text", text |-> Picked(answer, Texts)]

(* Wherever the network cuts the bytes, inside a character excepted, an    *)
(* answer that arrives to its end is the message that the server meant: no *)
(* event is lost, joined to another or taken twice, and every tool call    *)
(* has its own arguments, with the ends that Anthropic sends and without.  *)
(* A cut inside a character costs that character, and no call or text.     *)
WholeStreamIsMeant ==
  outcome # Reading /\ link = "closed" =>
    /\ garbled = {} => outcome = Meant
    /\ outcome.kind = Meant.kind
    /\ outcome.kind = "calls" =>
         /\ Len(outcome.calls) = Len(Meant.calls)
         /\ \A i \in DOMAIN Meant.calls :
              /\ outcome.calls[i].call = Meant.calls[i].call
              /\ outcome.calls[i].args = "null" <=> Meant.calls[i].args = "null"
    /\ outcome.kind = "text" => Len(outcome.text) = Len(Meant.text)
=============================================================================
