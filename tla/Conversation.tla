---------------------------- MODULE Conversation ----------------------------
(***************************************************************************)
(* The session messages of one conversation.  A run reads the history of   *)
(* its session when it begins and stores the user's message and, if it has *)
(* a response, the assistant's message when it ends.  Runs of one session  *)
(* overlap: each HTTP request and each scheduled job is a task of its own. *)
(*                                                                         *)
(* A message has a role, the run that stored it and its length; four bytes *)
(* count as a token, rounded down per message.                             *)
(***************************************************************************)
EXTENDS Naturals, Sequences, FiniteSets

CONSTANTS
  Turns,        \* the runs of the session
  Lengths,      \* the lengths of messages, in bytes
  HistoryLimit, \* the LIMIT of the query: 50
  HistoryTokens,\* context_summarization_threshold
  StoreMayFail  \* may storing a message fail?  The run goes on.

ASSUME ConversationAssumption ==
  /\ Lengths \subseteq Nat
  /\ HistoryLimit \in Nat /\ HistoryTokens \in Nat
  /\ StoreMayFail \in BOOLEAN

Message == [turn : Turns, role : {"user", "assistant"}, length : Lengths]

VARIABLES
  messages,  \* session_messages of the session, oldest first
  turnPc,    \* turnPc[t]: where the run is
  history,   \* history[t]: what it was given
  before,    \* before[t]: all messages of the session at that moment
  disturbed  \* the turns whose first message was cleared or failed to be stored

convVars == <<messages, turnPc, history, before, disturbed>>

ConvInit ==
  /\ messages = <<>>
  /\ turnPc = [t \in Turns |-> "new"]
  /\ history = [t \in Turns |-> <<>>]
  /\ before = [t \in Turns |-> <<>>]
  /\ disturbed = {}

-----------------------------------------------------------------------------
Tokens(m) == m.length \div 4

(* The newest n of a sequence, in its order. *)
Newest(s, n) == IF Len(s) <= n THEN s ELSE SubSeq(s, Len(s) - n + 1, Len(s))

TokensUpTo(s) ==
  LET sum[i \in 0 .. Len(s)] == IF i = 0 THEN 0 ELSE sum[i - 1] + Tokens(s[i])
  IN sum

(* The loop of get_session_history: from the oldest of the messages that   *)
(* the query returned, up to the first that does not fit.                  *)
Fitting(s) ==
  {n \in 0 .. Len(s) : TokensUpTo(s)[n] <= HistoryTokens}

SessionHistory ==
  LET s == Newest(messages, HistoryLimit)
      longest == CHOOSE n \in Fitting(s) : \A k \in Fitting(s) : k <= n
  IN SubSeq(s, 1, longest)

BeginTurn(t) ==
  /\ turnPc[t] = "new"
  /\ turnPc' = [turnPc EXCEPT ![t] = "running"]
  /\ history' = [history EXCEPT ![t] = SessionHistory]
  /\ before' = [before EXCEPT ![t] = messages]
  /\ UNCHANGED <<messages, disturbed>>

(* Slip: the response is stored first. *)
StoreAnswerFirst(t, length) ==
  /\ turnPc[t] = "running"
  /\ turnPc' = [turnPc EXCEPT ![t] = "answering"]
  /\ messages' = Append(messages, [turn |-> t, role |-> "assistant", length |-> length])
  /\ UNCHANGED <<history, before, disturbed>>

StoreQuestion(t, length) ==
  /\ turnPc[t] = "running"
  /\ turnPc' = [turnPc EXCEPT ![t] = "answering"]
  /\ \/ /\ messages' = Append(messages, [turn |-> t, role |-> "user", length |-> length])
        /\ UNCHANGED disturbed
     \/ /\ StoreMayFail
        /\ disturbed' = disturbed \cup {t}
        /\ UNCHANGED messages
  /\ UNCHANGED <<history, before>>

StoreAnswer(t, length) ==
  /\ turnPc[t] = "answering"
  /\ turnPc' = [turnPc EXCEPT ![t] = "ended"]
  /\ messages' = Append(messages, [turn |-> t, role |-> "assistant", length |-> length])
  /\ UNCHANGED <<history, before, disturbed>>

(* The run failed and has no response, or the answer is not stored. *)
EndWithoutAnswer(t) ==
  /\ turnPc[t] = "answering"
  /\ turnPc' = [turnPc EXCEPT ![t] = "ended"]
  /\ UNCHANGED <<messages, history, before, disturbed>>

(* /clear: the runs in progress are not told. *)
ClearSession ==
  /\ messages # <<>>
  /\ messages' = <<>>
  /\ disturbed' = disturbed \cup {t \in Turns : turnPc[t] = "answering"}
  /\ UNCHANGED <<turnPc, history, before>>

ConvNext ==
  \/ \E t \in Turns :
       \/ BeginTurn(t) \/ EndWithoutAnswer(t)
       \/ \E length \in Lengths : StoreQuestion(t, length) \/ StoreAnswer(t, length)
  \/ ClearSession

ConvSpec == ConvInit /\ [][ConvNext]_convVars

-----------------------------------------------------------------------------
ConvTypeOK ==
  /\ messages \in Seq(Message)
  /\ turnPc \in [Turns -> {"new", "running", "answering", "ended"}]
  /\ history \in [Turns -> Seq(Message)]
  /\ before \in [Turns -> Seq(Message)]
  /\ disturbed \subseteq Turns

(* What a run is shown makes sense: an answer comes after its question,    *)
(* whichever runs of the session overlapped, unless the question was       *)
(* cleared or not stored, or the LIMIT cut the session in between.         *)
AnswersFollowQuestions ==
  \A t \in Turns : \A i \in DOMAIN history[t] :
    LET m == history[t][i] IN
    m.role = "assistant" /\ m.turn \notin disturbed =>
      \/ \E j \in 1 .. i - 1 : history[t][j].role = "user" /\ history[t][j].turn = m.turn
      \/ Len(before[t]) > HistoryLimit

(* "Get recent session messages for a conversation."                       *)
(* (core/memory/src/store.rs:433): the newest message is in the history.   *)
HistoryIsRecent ==
  \A t \in Turns : before[t] # <<>> =>
    \E i \in DOMAIN history[t] : history[t][i] = before[t][Len(before[t])]
=============================================================================
