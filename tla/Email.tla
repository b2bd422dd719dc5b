------------------------------- MODULE Email -------------------------------
(***************************************************************************)
(* The email tools.  All agents share one EmailConnector behind a mutex;   *)
(* each call opens an IMAP or SMTP connection of its own and, having no    *)
(* await after the lock, blocks its thread until it is over: a timeout of  *)
(* the tool registry, or a run that is dropped, ends a call only while it  *)
(* waits for the lock.                                                     *)
(*                                                                         *)
(* email_fetch and email_search number what they list by the sequence      *)
(* numbers of their session, and email_read hands its id, any string, to a *)
(* later session as a set of such numbers.  The mail server is external:   *)
(* it numbers the messages of a folder from the oldest, keeps the numbers  *)
(* of a session until it ends, and closes the gap when another client      *)
(* expunges a message.                                                     *)
(*                                                                         *)
(* A message is a number too, in the order of arrival; headers, bodies and *)
(* previews are left out.                                                  *)
(***************************************************************************)
EXTENDS Naturals, Sequences, FiniteSets

CONSTANTS
  EmailRuns, \* the runs of agents that use the tools
  ListLimit, \* the limit of a listing
  MaxMails   \* bound: messages that ever arrive

ASSUME EmailAssumption == ListLimit \in Nat /\ MaxMails \in Nat

Mail == 1 .. MaxMails
NoMail == 0
Folders == {"INBOX", "Archive"}
EmailTools == {"fetch", "search", "read", "send"}
Never == MaxMails + 1   \* above every sequence number

VARIABLES
  arrived,   \* how many messages arrived
  folder,    \* folder[f]: its messages, the oldest first
  unread,    \* the messages without the flag Seen
  connector, \* who holds the mutex: a set of at most one run
  errand,    \* errand[c]: the call in progress
  listing,   \* listing[c]: the latest listing of the run
  emailed,   \* emailed[c]: what the latest call answered
  did,       \* did[c]: has the latest call sent mail or marked a message?
  accounted, \* the messages that the user opened, or whose body an answer held,
             \* or whose body was sent by the server and did not arrive
  alongside  \* those marked by a call that showed another, and accounted for by none

emailVars ==
  <<arrived, folder, unread, connector, errand, listing, emailed, did, accounted, alongside>>

(* The tool, where it is, the folder, the numbers to read; the numbering   *)
(* of the session, and the least number of it that was expunged since.     *)
AtRest == [tool |-> "none", at |-> "idle", box |-> "INBOX", ids |-> {},
           held |-> <<>>, gap |-> Never]
NoListing == [mails |-> [n \in {} |-> NoMail], box |-> "INBOX", gap |-> Never]
Unanswered == [what |-> "none", ids |-> {}, mail |-> NoMail]

EmailInit ==
  /\ arrived = 0
  /\ folder = [f \in Folders |-> <<>>]
  /\ unread = {}
  /\ connector = {}
  /\ errand = [c \in EmailRuns |-> AtRest]
  /\ listing = [c \in EmailRuns |-> NoListing]
  /\ emailed = [c \in EmailRuns |-> Unanswered]
  /\ did = [c \in EmailRuns |-> FALSE]
  /\ accounted = {} /\ alongside = {}

-----------------------------------------------------------------------------
(* The mail server and the user's other clients.                           *)

Arrives ==
  /\ arrived < MaxMails
  /\ arrived' = arrived + 1
  /\ folder' = [folder EXCEPT !["INBOX"] = Append(@, arrived')]
  /\ unread' = unread \cup {arrived'}
  /\ UNCHANGED <<connector, errand, listing, emailed, did, accounted, alongside>>

OpenedElsewhere(m) ==
  /\ m \in unread
  /\ unread' = unread \ {m}
  /\ accounted' = accounted \cup {m}
  /\ UNCHANGED <<arrived, folder, connector, errand, listing, emailed, did, alongside>>

Lesser(m, n) == IF m < n THEN m ELSE n

(* The message with number n leaves the inbox for the archive: those after *)
(* it move up.                                                             *)
Archived(n) ==
  /\ n \in DOMAIN folder["INBOX"]
  /\ LET inbox == folder["INBOX"] IN
     folder' = [folder EXCEPT
       !["INBOX"] = SubSeq(inbox, 1, n - 1) \o SubSeq(inbox, n + 1, Len(inbox)),
       !["Archive"] = Append(@, inbox[n])]
  /\ errand' = [c \in EmailRuns |->
       IF errand[c].at = "selected" /\ errand[c].box = "INBOX"
       THEN [errand[c] EXCEPT !.gap = Lesser(@, n)] ELSE errand[c]]
  /\ listing' = [c \in EmailRuns |->
       IF listing[c].box = "INBOX"
       THEN [listing[c] EXCEPT !.gap = Lesser(@, n)] ELSE listing[c]]
  /\ UNCHANGED <<arrived, unread, connector, emailed, did, accounted, alongside>>

-----------------------------------------------------------------------------
(* A tool call.                                                            *)

(* The run asks for a listing, for a message by its id, or to send.  The   *)
(* id may be any set of numbers, whether the run was shown them or not.    *)
CallEmail(c, tool, box, ids) ==
  /\ errand[c].at = "idle"
  /\ tool # "fetch" => box = "INBOX"
  /\ ids = {} <=> tool # "read"
  /\ errand' = [errand EXCEPT ![c] =
       [AtRest EXCEPT !.tool = tool, !.at = "waiting", !.box = box, !.ids = ids]]
  /\ emailed' = [emailed EXCEPT ![c] = Unanswered]
  /\ did' = [did EXCEPT ![c] = FALSE]
  /\ UNCHANGED <<arrived, folder, unread, connector, listing, accounted, alongside>>

(* The registry's timeout: it can be noticed at the lock only. *)
EmailTimesOut(c) ==
  /\ errand[c].at = "waiting"
  /\ errand' = [errand EXCEPT ![c] = AtRest]
  /\ emailed' = [emailed EXCEPT ![c] = [Unanswered EXCEPT !.what = "timed out"]]
  /\ UNCHANGED <<arrived, folder, unread, connector, listing, did, accounted, alongside>>

LockConnector(c) ==
  /\ errand[c].at = "waiting"
  /\ connector = {}
  /\ connector' = {c}
  /\ errand' = [errand EXCEPT ![c].at = "locked"]
  /\ UNCHANGED <<arrived, folder, unread, listing, emailed, did, accounted, alongside>>

(* The call returns, a body with its id, and gives the lock back. *)
Returns(c, what, mail) ==
  /\ emailed' = [emailed EXCEPT ![c] =
       [what |-> what, ids |-> IF what = "body" THEN errand[c].ids ELSE {}, mail |-> mail]]
  /\ errand' = [errand EXCEPT ![c] = AtRest]
  /\ connector' = connector \ {c}

(* Connected, logged in, SELECT. *)
SelectFolder(c) ==
  /\ errand[c].at = "locked" /\ errand[c].tool # "send"
  /\ errand' = [errand EXCEPT ![c].at = "selected", ![c].held = folder[errand[c].box]]
  /\ UNCHANGED <<arrived, folder, unread, connector, listing, emailed, did, accounted, alongside>>

(* No connection, a refusal, no such message, or the connection breaks. *)
EmailFails(c) ==
  /\ errand[c].at \in {"locked", "selected"}
  /\ Returns(c, "error", NoMail)
  /\ UNCHANGED <<arrived, folder, unread, listing, did, accounted, alongside>>

(* Every other message has a subject that can be searched for. *)
Subject(m) == m % 2

(* SEARCH: UNSEEN or, with unread_only false, ALL; or the subject. *)
Found(c) ==
  LET held == errand[c].held IN
  IF errand[c].tool = "fetch" THEN {{n \in DOMAIN held : held[n] \in unread}, DOMAIN held}
  ELSE {{n \in DOMAIN held : Subject(held[n]) = 1}}

(* "sort_unstable", "reverse", "truncate". *)
NewestOf(numbers) ==
  {n \in numbers : Cardinality({k \in numbers : k > n}) < ListLimit}

(* Slip: the id of a mail is its place in the listing. *)
ListByPlace(c) ==
  /\ errand[c].at = "selected" /\ errand[c].tool \in {"fetch", "search"}
  /\ \E found \in Found(c) :
     LET newest == NewestOf(found)
         place(n) == Cardinality({k \in newest : k >= n}) IN
     listing' = [listing EXCEPT ![c] =
       [mails |-> [p \in 1 .. Cardinality(newest) |->
                    errand[c].held[CHOOSE n \in newest : place(n) = p]],
        box |-> errand[c].box, gap |-> errand[c].gap]]
  /\ Returns(c, "list", NoMail)
  /\ UNCHANGED <<arrived, folder, unread, did, accounted, alongside>>

(* FETCH without the item UID: the ids of the listing are its numbers. *)
ListMails(c) ==
  /\ errand[c].at = "selected" /\ errand[c].tool \in {"fetch", "search"}
  /\ \E found \in Found(c) :
       listing' = [listing EXCEPT ![c] =
         [mails |-> [n \in NewestOf(found) |-> errand[c].held[n]],
          box |-> errand[c].box, gap |-> errand[c].gap]]
  /\ Returns(c, "list", NoMail)
  /\ UNCHANGED <<arrived, folder, unread, did, accounted, alongside>>

(* FETCH of BODY[TEXT], which sets Seen in all messages it names: the      *)
(* bodies arrive, and the first of them is returned, or they do not.       *)
Named(c) == {errand[c].held[n] : n \in errand[c].ids \cap DOMAIN errand[c].held}

ReadMail(c) ==
  /\ errand[c].at = "selected" /\ errand[c].tool = "read"
  /\ unread' = unread \ Named(c)
  /\ \/ \E m \in Named(c) :
          /\ Returns(c, "body", m)
          /\ accounted' = accounted \cup {m}
          /\ alongside' = (alongside \cup (Named(c) \cap unread)) \ {m}
     \/ /\ Named(c) # {}
        /\ Returns(c, "error", NoMail)
        /\ accounted' = accounted \cup Named(c)
        /\ alongside' = alongside \ Named(c)
  /\ did' = [did EXCEPT ![c] = TRUE]
  /\ UNCHANGED <<arrived, folder, listing>>

(* SMTP: the server has taken the mail, and its reply arrives or not. *)
SendMail(c) ==
  /\ errand[c].at = "locked" /\ errand[c].tool = "send"
  /\ did' = [did EXCEPT ![c] = TRUE]
  /\ \E what \in {"sent", "error"} : Returns(c, what, NoMail)
  /\ UNCHANGED <<arrived, folder, unread, listing, accounted, alongside>>

EmailNext ==
  \/ Arrives
  \/ \E m \in Mail : OpenedElsewhere(m) \/ Archived(m)
  \/ \E c \in EmailRuns :
       \/ \E tool \in EmailTools, box \in Folders, ids \in SUBSET Mail :
            CallEmail(c, tool, box, ids)
       \/ EmailTimesOut(c) \/ LockConnector(c) \/ SelectFolder(c) \/ EmailFails(c)
       \/ ListMails(c) \/ ReadMail(c) \/ SendMail(c)

EmailSpec == EmailInit /\ [][EmailNext]_emailVars

-----------------------------------------------------------------------------
EmailTypeOK ==
  /\ arrived \in 0 .. MaxMails
  /\ folder \in [Folders -> Seq(Mail)]
  /\ unread \subseteq 1 .. arrived
  /\ connector \subseteq EmailRuns
  /\ \A c \in EmailRuns :
       /\ errand[c].tool \in EmailTools \cup {"none"}
       /\ errand[c].at \in {"idle", "waiting", "locked", "selected"}
       /\ errand[c].held \in Seq(Mail)
       /\ emailed[c].what \in {"none", "timed out", "error", "list", "body", "sent"}
  /\ did \in [EmailRuns -> BOOLEAN]
  /\ accounted \subseteq Mail /\ alongside \subseteq Mail

Bodies == {c \in EmailRuns : emailed[c].what = "body"}

(* The numbers that still mean in the inbox what the listing says.         *)
Current(c) == {n \in DOMAIN listing[c].mails : listing[c].box = "INBOX" /\ n < listing[c].gap}

(* email_read shows the message that was listed under its number, or under *)
(* one of its numbers, however much mail arrived since, unless a message   *)
(* before one of them, or itself, was moved away since the listing's       *)
(* session began, or the listing was one of another folder than the inbox. *)
ReadAsNumbered ==
  \A c \in Bodies : emailed[c].ids \subseteq Current(c) =>
    \E n \in emailed[c].ids : emailed[c].mail = listing[c].mails[n]

(* No message silently drops out of the listings of unread mail: one that  *)
(* is no longer unread was opened by the user, or its body was shown to a  *)
(* run, or got lost on its way to one, or was fetched with the one that    *)
(* was shown, by a call that asked for several.                            *)
SeenWasShown == (1 .. arrived) \ unread \subseteq accounted \cup alongside

(* A call that answered "timed out" has done nothing, so that it may be    *)
(* called again: no mail was sent and no message marked.                   *)
TimedOutDidNothing == \A c \in EmailRuns : emailed[c].what = "timed out" => ~did[c]

(* All three: what the tools answer and what they have done agree.         *)
EmailAccounted == ReadAsNumbered /\ SeenWasShown /\ TimedOutDidNothing

(* "Read full email body by UID." (core/tool-runtime/src/tools/email.rs:   *)
(* 188): what is read under an id is what was listed under it.             *)
ReadByUid ==
  \A c \in Bodies : \A n \in DOMAIN listing[c].mails :
    emailed[c].ids = {n} => emailed[c].mail = listing[c].mails[n]

(* What email_read marks as seen, it shows: its description promises the   *)
(* body of one message (core/tool-runtime/src/tools/email.rs:445), and an  *)
(* id such as 1:3 marks three.                                             *)
OnlyTheShownIsMarked == (1 .. arrived) \ unread \subseteq accounted
=============================================================================
