-------------------------------- MODULE Goals --------------------------------
(***************************************************************************)
(* One goal of the goal_tracker tool.  Agents of different runs update it  *)
(* at the same time: update reads the status and the notes of the goal,    *)
(* appends its note to what it read and writes both back, in two           *)
(* statements without a transaction.                                       *)
(***************************************************************************)
EXTENDS Naturals, Sequences, FiniteSets

CONSTANTS
  Updaters,  \* the tool calls that may overlap
  MaxNotes   \* bound: notes ever written

ASSUME GoalsAssumption == MaxNotes \in Nat

GoalStatus == {"not_started", "in_progress", "completed"}
Absent == "absent"   \* the tool was not asked to create the goal yet
NoNote == 0
Note == 1 .. MaxNotes

VARIABLES
  goal,        \* [status, notes]: the row
  updating,    \* updating[u]: what update has read and is about to write
  noteCount,   \* how many notes there have been
  acknowledged,\* the notes whose update returned success
  overlapped   \* the notes of updates that ran while another update ran

goalVars == <<goal, updating, noteCount, acknowledged, overlapped>>

Idle == [note |-> NoNote, status |-> Absent, notes |-> <<>>, busy |-> FALSE]

GoalInit ==
  /\ goal = [status |-> Absent, notes |-> <<>>]
  /\ updating = [u \in Updaters |-> Idle]
  /\ noteCount = 0
  /\ acknowledged = {}
  /\ overlapped = {}

-----------------------------------------------------------------------------
(* create: ensure_table and an INSERT. *)
CreateGoal ==
  /\ goal.status = Absent
  /\ goal' = [status |-> "not_started", notes |-> <<>>]
  /\ UNCHANGED <<updating, noteCount, acknowledged, overlapped>>

(* The status to write: the one asked for, or the one that was read. *)
StatusOf(asked) == IF asked = Absent THEN goal.status ELSE asked

(* Slip: the note takes the place of the notes. *)
ReplaceNotes(note) == <<note>>

AppendNote(note) == Append(goal.notes, note)

Others(u) == {w \in Updaters \ {u} : updating[w].busy}

(* update, its SELECT: the goal must exist. *)
ReadGoal(u, asked) ==
  /\ ~updating[u].busy
  /\ goal.status # Absent
  /\ noteCount < MaxNotes
  /\ noteCount' = noteCount + 1
  /\ updating' = [updating EXCEPT ![u] =
       [note |-> noteCount', status |-> StatusOf(asked),
        notes |-> AppendNote(noteCount'), busy |-> TRUE]]
  /\ overlapped' = overlapped \cup
       (IF Others(u) = {} THEN {} ELSE {noteCount'} \cup {updating[w].note : w \in Others(u)})
  /\ UNCHANGED <<goal, acknowledged>>

(* update, its UPDATE: both columns, as they were computed. *)
WriteGoal(u) ==
  /\ updating[u].busy
  /\ goal' = [status |-> updating[u].status, notes |-> updating[u].notes]
  /\ acknowledged' = acknowledged \cup {updating[u].note}
  /\ updating' = [updating EXCEPT ![u] = Idle]
  /\ UNCHANGED <<noteCount, overlapped>>

(* The UPDATE fails and the tool returns an error. *)
DropUpdate(u) ==
  /\ updating[u].busy
  /\ updating' = [updating EXCEPT ![u] = Idle]
  /\ UNCHANGED <<goal, noteCount, acknowledged, overlapped>>

(* complete: one statement. *)
CompleteGoal ==
  /\ goal.status # Absent
  /\ goal' = [goal EXCEPT !.status = "completed"]
  /\ UNCHANGED <<updating, noteCount, acknowledged, overlapped>>

GoalNext ==
  \/ CreateGoal \/ CompleteGoal
  \/ \E u \in Updaters :
       \/ \E asked \in {Absent, "in_progress"} : ReadGoal(u, asked)
       \/ WriteGoal(u) \/ DropUpdate(u)

GoalSpec == GoalInit /\ [][GoalNext]_goalVars

-----------------------------------------------------------------------------
NotesOf(notes) == {notes[i] : i \in DOMAIN notes}

GoalTypeOK ==
  /\ goal \in [status : GoalStatus \cup {Absent}, notes : Seq(Note)]
  /\ updating \in [Updaters -> [note : Note \cup {NoNote}, status : GoalStatus \cup {Absent},
                                notes : Seq(Note), busy : BOOLEAN]]
  /\ noteCount \in 0 .. MaxNotes
  /\ acknowledged \subseteq Note
  /\ overlapped \subseteq Note

(* "Progress note to append" (tool-runtime/src/tools/goal_tracker.rs:76):  *)
(* an acknowledged note is among the notes of the goal, unless its update  *)
(* ran at the same time as another one.                                    *)
NotesLostOnlyByOverlap == acknowledged \ NotesOf(goal.notes) \subseteq overlapped
=============================================================================
