--------------------------- MODULE StorageProofs ---------------------------
(***************************************************************************)
(* Theorems of the tables: the notes of a goal, the schema, the agent      *)
(* definitions with their model, the skills directory, the memories, the   *)
(* audit log, the costs and the messages of a session.                     *)
(***************************************************************************)
EXTENDS Skills, Administration, Migrations, Goals, MemoryStore, AuditLog, CostTracker,
        Conversation, DataLemmas

-----------------------------------------------------------------------------
(* Goals: what is lost was overlapped.                                     *)

(* What u is about to write has its note, and every acknowledged one that  *)
(* no other update overlapped.                                             *)
UpdateInv(u) ==
  updating[u].busy =>
    /\ updating[u].note \in Note /\ updating[u].status # Absent
    /\ updating[u].note \in NotesOf(updating[u].notes)
    /\ acknowledged \ NotesOf(updating[u].notes) \subseteq overlapped
    /\ \A w \in Updaters \ {u} : updating[w].busy => updating[u].note \in overlapped

GoalInv ==
  /\ GoalTypeOK
  /\ NotesLostOnlyByOverlap
  /\ \A u \in Updaters : UpdateInv(u)
  /\ goal.status = Absent => acknowledged = {} /\ \A u \in Updaters : ~updating[u].busy

LEMMA NotesOfAppend ==
  ASSUME NEW s \in Seq(Note), NEW n \in Note
  PROVE  NotesOf(Append(s, n)) = NotesOf(s) \cup {n}
  <1>1. DOMAIN Append(s, n) = DOMAIN s \cup {Len(s) + 1}
    OBVIOUS
  <1>2. \A i \in DOMAIN s : Append(s, n)[i] = s[i]
    OBVIOUS
  <1>3. Append(s, n)[Len(s) + 1] = n
    OBVIOUS
  <1> QED BY <1>1, <1>2, <1>3 DEF NotesOf

LEMMA GoalInitInv == GoalInit => GoalInv
  BY GoalsAssumption
  DEF GoalInit, GoalInv, GoalTypeOK, NotesLostOnlyByOverlap, UpdateInv, Idle, GoalStatus

(* An update reads the goal: with those that read before it, it overlaps.  *)
LEMMA ReadGoalInv ==
  ASSUME GoalInv, NEW u \in Updaters, NEW asked \in {Absent, "in_progress"}, ReadGoal(u, asked)
  PROVE  GoalInv'
  <1> USE GoalsAssumption DEF GoalInv
  <1> DEFINE n == noteCount'
             mine == [note |-> n, status |-> StatusOf(asked), notes |-> AppendNote(n), busy |-> TRUE]
  <1>1. n \in Note /\ n \in 0 .. MaxNotes /\ goal.notes \in Seq(Note)
    BY DEF ReadGoal, GoalTypeOK, Note
  <1>2. updating' = [updating EXCEPT ![u] = mine]
    BY DEF ReadGoal
  <1>3. /\ UNCHANGED <<goal, acknowledged>>
        /\ overlapped' = overlapped \cup
             (IF Others(u) = {} THEN {} ELSE {n} \cup {updating[w].note : w \in Others(u)})
    BY DEF ReadGoal
  <1>4. mine.notes \in Seq(Note) /\ NotesOf(mine.notes) = NotesOf(goal.notes) \cup {n}
    BY <1>1, NotesOfAppend DEF AppendNote
  <1>5. StatusOf(asked) \in GoalStatus /\ StatusOf(asked) # Absent /\ goal.status # Absent
    BY DEF StatusOf, GoalStatus, GoalTypeOK, ReadGoal, Absent
  <1>6. \A w \in Others(u) : updating[w].note \in Note
    BY DEF UpdateInv, Others
  <1>7. GoalTypeOK'
    <2>1. updating' \in [Updaters -> [note : Note \cup {NoNote}, status : GoalStatus \cup {Absent},
                                     notes : Seq(Note), busy : BOOLEAN]]
      <3>1. mine \in [note : Note \cup {NoNote}, status : GoalStatus \cup {Absent},
                      notes : Seq(Note), busy : BOOLEAN]
        BY <1>1, <1>4, <1>5
      <3> HIDE DEF mine
      <3> QED BY <1>2, <3>1 DEF GoalTypeOK
    <2>2. overlapped' \subseteq Note
      BY <1>1, <1>3, <1>6 DEF GoalTypeOK
    <2> QED BY <1>1, <1>3, <2>1, <2>2 DEF GoalTypeOK
  <1>8. NotesLostOnlyByOverlap'
    BY <1>3 DEF NotesLostOnlyByOverlap
  <1>9. UpdateInv(u)'
    <2>1. updating'[u] = mine
      BY <1>2 DEF GoalTypeOK
    <2>2. acknowledged' \ NotesOf(mine.notes) \subseteq overlapped'
      BY <1>3, <1>4 DEF NotesLostOnlyByOverlap
    <2>3. ASSUME NEW w \in Updaters \ {u}, updating'[w].busy PROVE n \in overlapped'
      <3>1. w \in Others(u)
        BY <1>2, <2>3 DEF GoalTypeOK, Others
      <3> QED BY <1>3, <3>1
    <2> QED BY <1>1, <1>4, <1>5, <2>1, <2>2, <2>3 DEF UpdateInv
  <1>10. ASSUME NEW w \in Updaters, w # u PROVE UpdateInv(w)'
    <2>1. updating'[w] = updating[w]
      BY <1>2, <1>10 DEF GoalTypeOK
    <2>2. updating[w].busy => updating[w].note \in overlapped'
      BY <1>3, <1>10 DEF Others
    <2>3. UpdateInv(w)
      OBVIOUS
    <2> QED BY <1>3, <2>1, <2>2, <2>3 DEF UpdateInv
  <1> QED BY <1>3, <1>5, <1>7, <1>8, <1>9, <1>10

LEMMA GoalStepInv == GoalInv /\ [GoalNext]_goalVars => GoalInv'
  <1> SUFFICES ASSUME GoalInv, [GoalNext]_goalVars PROVE GoalInv'
    OBVIOUS
  <1> USE GoalsAssumption DEF GoalInv
  <1>1. CASE CreateGoal
    <2>1. GoalTypeOK'
      BY <1>1 DEF CreateGoal, GoalTypeOK, GoalStatus
    <2> QED
      BY <1>1, <2>1 DEF CreateGoal, NotesLostOnlyByOverlap, UpdateInv, GoalTypeOK, Absent
  <1>2. CASE CompleteGoal
    <2>1. goal'.notes = goal.notes
      BY <1>2 DEF CompleteGoal, GoalTypeOK
    <2>2. GoalTypeOK'
      BY <1>2 DEF CompleteGoal, GoalTypeOK, GoalStatus
    <2>3. goal'.status # Absent
      BY <1>2 DEF CompleteGoal, GoalTypeOK, Absent
    <2> QED BY <1>2, <2>1, <2>2, <2>3 DEF CompleteGoal, NotesLostOnlyByOverlap, UpdateInv
  <1>3. ASSUME NEW u \in Updaters, WriteGoal(u) PROVE GoalInv'
    <2> USE <1>3 DEF WriteGoal
    <2>1. updating[u].busy /\ UpdateInv(u)
      OBVIOUS
    <2>2. goal'.notes = updating[u].notes
      OBVIOUS
    <2>3. GoalTypeOK'
      BY <2>1 DEF GoalTypeOK, Idle, UpdateInv
    <2>4. NotesLostOnlyByOverlap'
      BY <2>1, <2>2 DEF NotesLostOnlyByOverlap, UpdateInv
    <2>5. ASSUME NEW w \in Updaters PROVE UpdateInv(w)'
      <3>1. CASE w = u
        <4>1. ~updating'[w].busy
          BY <3>1 DEF GoalTypeOK, Idle
        <4> QED BY <4>1 DEF UpdateInv
      <3>2. CASE w # u
        <4>1. updating'[w] = updating[w]
          BY <3>2 DEF GoalTypeOK
        <4>2. updating[w].busy => updating[u].note \in overlapped
          BY <2>1, <3>2 DEF UpdateInv
        <4>3. \A v \in Updaters : updating'[v].busy => updating[v].busy
          BY DEF GoalTypeOK, Idle
        <4> QED BY <4>1, <4>2, <4>3 DEF UpdateInv
      <3> QED BY <3>1, <3>2
    <2>6. goal'.status # Absent
      BY <2>1 DEF UpdateInv
    <2> QED BY <2>3, <2>4, <2>5, <2>6
  <1>4. ASSUME NEW u \in Updaters, DropUpdate(u) PROVE GoalInv'
    <2> USE <1>4 DEF DropUpdate
    <2>1. \A w \in Updaters : updating'[w].busy => w # u /\ updating'[w] = updating[w]
      BY DEF GoalTypeOK, Idle
    <2>2. GoalTypeOK'
      BY DEF GoalTypeOK, Idle
    <2> QED BY <2>1, <2>2 DEF NotesLostOnlyByOverlap, UpdateInv
  <1>5. ASSUME UNCHANGED goalVars PROVE GoalInv'
    BY <1>5 DEF goalVars, GoalTypeOK, NotesLostOnlyByOverlap, UpdateInv
  <1> QED
    BY <1>1, <1>2, <1>3, <1>4, <1>5, ReadGoalInv DEF GoalNext

(* However many tool calls update the goal: a note whose update returned   *)
(* success is lost only if another update ran at the same time.            *)
THEOREM NotesSurvive == GoalSpec => []NotesLostOnlyByOverlap
  <1>1. GoalInv => NotesLostOnlyByOverlap
    BY DEF GoalInv
  <1> QED BY <1>1, GoalInitInv, GoalStepInv, PTL DEF GoalSpec

(* Goals: the types (GoalTypeOK), the fields of a goal that UPDATE sets    *)
(* and the notes of the tool calls on their way.                           *)
THEOREM GoalTypeCorrect == GoalSpec => []GoalTypeOK
  <1>1. GoalInv => GoalTypeOK
    BY DEF GoalInv
  <1> QED BY GoalInitInv, GoalStepInv, <1>1, PTL DEF GoalSpec

-----------------------------------------------------------------------------
(* Migrations: of the processes that migrate together one leads, and       *)
(* created what there is.                                                  *)

MigratesOwn(p) == stage[p] = "batch" /\ created = 1 .. (next[p] - 1)

MigInv ==
  /\ MigTypeOK
  /\ \E k \in 0 .. Statements : created = 1 .. k
  /\ recorded => created = 1 .. Statements
  /\ \A p \in Starters : stage[p] = "up" => recorded
  /\ \A p \in Starters : stage[p] = "batch" => 1 .. (next[p] - 1) \subseteq created
  /\ ~torn /\ ~recorded /\ created # {} => \E p \in Starters : MigratesOwn(p)

LEMMA MigInitInv == MigInit => MigInv
  <1> SUFFICES ASSUME MigInit PROVE MigInv
    OBVIOUS
  <1>1. created = 1 .. 0 /\ 0 \in 0 .. Statements
    <2>1. 1 .. 0 = {}
      OBVIOUS
    <2>2. 0 \in 0 .. Statements
      BY MigrationsAssumption
    <2> QED BY <2>1, <2>2 DEF MigInit
  <1>2. MigTypeOK
    <2>1. 1 \in 1 .. Statements + 1 /\ 0 \in 0 .. MaxStarts
      BY MigrationsAssumption
    <2>2. created \subseteq 1 .. Statements
      BY DEF MigInit
    <2> QED BY <2>1, <2>2 DEF MigInit, MigTypeOK
  <1>3. \E k \in 0 .. Statements : created = 1 .. k
    BY <1>1
  <1> QED BY <1>2, <1>3 DEF MigInit, MigInv

(* A step by which p changes neither what exists nor the record, and       *)
(* leaves nothing behind that no other process has reached.                *)
LEMMA MigKeepsInv ==
  ASSUME MigInv, MigTypeOK', NEW p \in Starters, NEW to \in {"off", "batch", "up"},
         UNCHANGED <<created, recorded>>,
         stage' = [stage EXCEPT ![p] = to],
         \A q \in Starters \ {p} : next'[q] = next[q],
         to = "up" => recorded,
         to = "batch" => next'[p] = 1,
         torn => torn',
         torn' \/ ~MigratesOwn(p)
  PROVE  MigInv'
  <1> USE DEF MigInv, MigTypeOK
  <1>1. \A q \in Starters \ {p} : stage'[q] = stage[q] /\ next'[q] = next[q]
    OBVIOUS
  <1>2. stage'[p] = to
    OBVIOUS
  <1>3. \A q \in Starters : stage'[q] = "up" => recorded
    BY <1>1, <1>2
  <1>4. \A q \in Starters : stage'[q] = "batch" => 1 .. (next'[q] - 1) \subseteq created
    <2>1. to = "batch" => 1 .. (next'[p] - 1) = {}
      OBVIOUS
    <2> QED BY <1>1, <1>2, <2>1
  <1>5. ~torn' /\ ~recorded /\ created # {} => \E q \in Starters : MigratesOwn(q)'
    <2> SUFFICES ASSUME ~torn', ~recorded, created # {} PROVE \E q \in Starters : MigratesOwn(q)'
      OBVIOUS
    <2>1. PICK q \in Starters : MigratesOwn(q)
      OBVIOUS
    <2>2. q # p
      BY <2>1
    <2> QED BY <1>1, <2>1, <2>2 DEF MigratesOwn
  <1> QED BY <1>3, <1>4, <1>5

LEMMA CreateNextInv ==
  ASSUME MigInv, NEW p \in Starters, CreateNext(p)
  PROVE  MigInv'
  <1> USE MigrationsAssumption DEF MigInv, MigTypeOK, CreateNext
  <1>1. PICK k \in 0 .. Statements : created = 1 .. k
    OBVIOUS
  <1>2. next[p] = k + 1 /\ k + 1 \in 1 .. Statements
    BY <1>1
  <1>3. created' = 1 .. (k + 1) /\ next'[p] = k + 2
    BY <1>1, <1>2
  <1>4. ~recorded /\ UNCHANGED <<recorded, stage, torn>>
    BY <1>1, <1>2
  <1>5. MigTypeOK'
    BY <1>2, <1>3
  <1>6. \A q \in Starters : stage[q] = "batch" => 1 .. (next'[q] - 1) \subseteq created'
    <2>1. CreateNext(p) /\ 1 .. (next'[p] - 1) = created'
      BY <1>2, <1>3
    <2>2. \A q \in Starters \ {p} : next'[q] = next[q]
      OBVIOUS
    <2> QED BY <2>1, <2>2
  <1>7. MigratesOwn(p)'
    BY <1>2, <1>3, <1>4 DEF MigratesOwn
  <1> QED BY <1>2, <1>3, <1>4, <1>5, <1>6, <1>7

LEMMA RecordMigrationInv ==
  ASSUME MigInv, NEW p \in Starters, RecordMigration(p)
  PROVE  MigInv'
  <1> USE MigrationsAssumption DEF MigInv, MigTypeOK, RecordMigration
  <1>1. created = 1 .. Statements
    <2>1. next[p] = Statements + 1
      OBVIOUS
    <2> QED BY <2>1
  <1>2. \A q \in Starters : stage'[q] = "batch" => stage[q] = "batch"
    OBVIOUS
  <1> QED BY <1>1, <1>2

LEMMA MigStepInv == MigInv /\ [MigNext]_migVars => MigInv'
  <1> SUFFICES ASSUME MigInv, [MigNext]_migVars PROVE MigInv'
    OBVIOUS
  <1> USE MigrationsAssumption
  <1>t. MigTypeOK
    BY DEF MigInv
  <1>1. ASSUME NEW p \in Starters, ReadApplied(p) PROVE MigInv'
    <2>1. MigTypeOK'
      BY <1>t, <1>1 DEF ReadApplied, MigTypeOK
    <2>2. ~MigratesOwn(p)
      BY <1>1 DEF ReadApplied, MigratesOwn
    <2>3. next'[p] = 1 /\ \A q \in Starters \ {p} : next'[q] = next[q]
      BY <1>t, <1>1 DEF ReadApplied, MigTypeOK
    <2>4. CASE recorded
      BY <1>1, <2>1, <2>2, <2>3, <2>4, MigKeepsInv DEF ReadApplied
    <2>5. CASE ~recorded
      BY <1>1, <2>1, <2>2, <2>3, <2>5, MigKeepsInv DEF ReadApplied
    <2> QED BY <2>4, <2>5
  <1>2. ASSUME NEW p \in Starters, ObjectExists(p) PROVE MigInv'
    <2>1. MigTypeOK'
      BY <1>t, <1>2 DEF ObjectExists, MigTypeOK
    <2>2. ~MigratesOwn(p)
      BY <1>t, <1>2 DEF ObjectExists, MigratesOwn, MigTypeOK
    <2> QED BY <1>2, <2>1, <2>2, MigKeepsInv DEF ObjectExists
  <1>3. ASSUME NEW p \in Starters, Interrupted(p) \/ Stop(p) PROVE MigInv'
    <2>1. MigTypeOK'
      BY <1>t, <1>3 DEF Interrupted, Stop, MigTypeOK
    <2>2. torn' \/ ~MigratesOwn(p)
      BY <1>3 DEF Interrupted, Stop, MigratesOwn
    <2> QED BY <1>3, <2>1, <2>2, MigKeepsInv DEF Interrupted, Stop
  <1>4. ASSUME UNCHANGED migVars PROVE MigInv'
    BY <1>4 DEF migVars, MigInv, MigTypeOK, MigratesOwn
  <1> QED
    BY <1>1, <1>2, <1>3, <1>4, CreateNextInv, RecordMigrationInv DEF MigNext

(* However many processes start together on one database, and wherever     *)
(* they die: one that is up has the whole schema, and the next start       *)
(* succeeds unless one died within the batch.                              *)
THEOREM StartsAreComplete == MigSpec => []StartsComplete
  <1>1. MigInv => StartsComplete
    BY DEF MigInv, StartsComplete, UpOnWholeSchema, RacingStartsComplete, MigratesOwn
  <1> QED BY <1>1, MigInitInv, MigStepInv, PTL DEF MigSpec

(* Migrations: the types (MigTypeOK); a start executes the statements of   *)
(* the batch and no other.                                                 *)
THEOREM MigTypeCorrect == MigSpec => []MigTypeOK
  <1>1. MigInv => MigTypeOK
    BY DEF MigInv
  <1> QED BY MigInitInv, MigStepInv, <1>1, PTL DEF MigSpec

-----------------------------------------------------------------------------
(* Administration: what a request was told of an agent.                    *)

AgentRow == [model : Models, version : 1 .. MaxVersion]
Request ==
  [pc : {"idle", "update", "write", "switch", "answered", "fallback", "another"},
   agent : AgentIds \cup {NoAgent}, model : Models \cup {NoModel},
   version : 0 .. MaxVersion + 1, excused : BOOLEAN]

(* An agent that was found, or chosen, exists or was deleted since. *)
Known(a) == Exists(a) \/ a \in deleted

RequestInv(c) ==
  /\ At(c, "update") \/ At(c, "write") =>
       admin[c].agent \in AgentIds /\ admin[c].model \in Models
  /\ At(c, "write") => admin[c].version >= 1
  /\ At(c, "switch") => admin[c].agent \in AgentIds /\ Known(admin[c].agent)
  /\ At(c, "fallback") \/ At(c, "another") => admin[c].excused

AdminInv ==
  /\ AdminTypeOK
  /\ SwitchedModelStands
  /\ Known(current)
  /\ \A c \in AdminCalls : RequestInv(c)

LEMMA RowsExist == FirstRow \in AgentRow /\ \A row \in AgentRow : row # NoRow
  BY AdministrationAssumption DEF AgentRow, FirstRow, NoRow

LEMMA AdminInitInv == AdminInit => AdminInv
  <1> SUFFICES ASSUME AdminInit PROVE AdminInv
    OBVIOUS
  <1> USE AdministrationAssumption, RowsExist DEF AdminInit
  <1>1. NoCall \in Request /\ NoCall.pc = "idle"
    BY DEF NoCall, Request
  <1>2. AdminTypeOK
    <2>1. agents \in [AgentIds -> AgentRow \cup {NoRow}]
      OBVIOUS
    <2>2. admin \in [AdminCalls -> Request]
      BY <1>1
    <2> QED BY <2>1, <2>2 DEF AdminTypeOK, AgentRow, Request
  <1>3. \A c \in AdminCalls : RequestInv(c)
    BY <1>1 DEF RequestInv, At
  <1>4. Known(current)
    BY DEF Known, Exists
  <1> QED BY <1>2, <1>3, <1>4 DEF AdminInv, SwitchedModelStands

(* A step of request c, which changes none of the tables. *)
LEMMA RequestStep ==
  ASSUME AdminInv, NEW c \in AdminCalls, NEW new \in Request, Call(c, new),
         UNCHANGED <<agents, current, boots, switched>>,
         deleted' = deleted \/ \E a \in AgentIds : Exists(a) /\ deleted' = deleted \ {a},
         new.pc \in {"update", "write"} => new.agent \in AgentIds /\ new.model \in Models,
         new.pc = "write" => new.version >= 1,
         new.pc = "switch" => new.agent \in AgentIds /\ Known(new.agent),
         new.pc \in {"fallback", "another"} => new.excused
  PROVE  AdminInv'
  <1> USE DEF AdminInv
  <1>1. admin' = [admin EXCEPT ![c] = new] /\ admin \in [AdminCalls -> Request]
    BY DEF Call, AdminTypeOK, Request
  <1>2. AdminTypeOK'
    <2>1. admin' \in [AdminCalls -> Request]
      BY <1>1
    <2>2. deleted' \subseteq AgentIds
      BY DEF AdminTypeOK
    <2>3. NoRow' = NoRow
      BY DEF NoRow
    <2> QED BY <2>1, <2>2, <2>3 DEF AdminTypeOK, Request
  <1>3. \A a : Known(a) => Known(a)'
    BY DEF Known, Exists
  <1>4. ASSUME NEW d \in AdminCalls PROVE RequestInv(d)'
    <2>1. CASE d = c
      <3>1. admin'[d] = new
        BY <1>1, <2>1
      <3> QED BY <1>3, <3>1 DEF RequestInv, At
    <2>2. CASE d # c
      <3>1. admin'[d] = admin[d]
        BY <1>1, <2>2
      <3> QED BY <1>3, <3>1 DEF RequestInv, At
    <2> QED BY <2>1, <2>2
  <1> QED BY <1>2, <1>3, <1>4 DEF SwitchedModelStands

(* A step that writes the row of a, or removes it. *)
LEMMA TableStep ==
  ASSUME AdminInv, AdminTypeOK', UNCHANGED current, NEW a \in AgentIds,
         \A b \in AgentIds \ {a} : agents'[b] = agents[b] /\ switched'[b] = switched[b],
         switched'[a] = NoModel \/ switched'[a] = agents'[a].model,
         Exists(a)' \/ a \in deleted',
         deleted \subseteq deleted',
         \A c \in AdminCalls : admin'[c] = admin[c] \/ admin'[c] = NoCall
  PROVE  AdminInv'
  <1> USE DEF AdminInv
  <1>1. \A b \in AgentIds : Known(b) => Known(b)'
    BY DEF Known, Exists
  <1>2. SwitchedModelStands'
    BY DEF SwitchedModelStands
  <1>3. current \in AgentIds
    BY DEF AdminTypeOK
  <1>4. ASSUME NEW c \in AdminCalls PROVE RequestInv(c)'
    BY <1>1 DEF RequestInv, At, NoCall
  <1> QED BY <1>1, <1>2, <1>3, <1>4

LEMMA AdminStepInv == AdminInv /\ [AdminNext]_adminVars => AdminInv'
  <1> SUFFICES ASSUME AdminInv, [AdminNext]_adminVars PROVE AdminInv'
    OBVIOUS
  <1> USE AdministrationAssumption, RowsExist
  <1>t. AdminTypeOK /\ agents \in [AgentIds -> AgentRow \cup {NoRow}] /\ admin \in [AdminCalls -> Request]
    BY DEF AdminInv, AdminTypeOK, AgentRow, Request
  <1>n. NoCall \in Request /\ NoCall.pc = "idle"
    BY DEF NoCall, Request
  <1>1. ASSUME NEW a \in AgentIds, CreateAgent(a) PROVE AdminInv'
    <2>1. agents' \in [AgentIds -> AgentRow \cup {NoRow}] /\ agents'[a] = FirstRow
      BY <1>t, <1>1 DEF CreateAgent
    <2>2. AdminTypeOK'
      BY <1>t, <1>1, <2>1 DEF CreateAgent, AdminTypeOK, AgentRow, NoRow
    <2>3. Exists(a)'
      BY <2>1 DEF Exists, NoRow
    <2> QED BY <1>t, <1>1, <2>2, <2>3, TableStep DEF CreateAgent, AdminTypeOK
  <1>2. ASSUME NEW a \in AgentIds, DeleteAgent(a) PROVE AdminInv'
    <2>1. agents' \in [AgentIds -> AgentRow \cup {NoRow}]
      BY <1>t, <1>2 DEF DeleteAgent
    <2>2. AdminTypeOK'
      BY <1>t, <1>2, <2>1 DEF DeleteAgent, AdminTypeOK, AgentRow, NoRow
    <2> QED BY <1>t, <1>2, <2>2, TableStep DEF DeleteAgent, AdminTypeOK
  <1>3. ASSUME NEW c \in AdminCalls, WriteAgent(c) PROVE AdminInv'
    <2>1. PICK a \in AgentIds : a = admin[c].agent
      BY <1>3 DEF WriteAgent, AdminInv, RequestInv
    <2>2. PICK row \in AgentRow : row = [model |-> admin[c].model, version |-> admin[c].version]
      BY <1>t, <1>3 DEF WriteAgent, AdminInv, RequestInv, AgentRow, Request
    <2>3. /\ \A d \in AdminCalls : admin'[d] = admin[d] \/ admin'[d] = NoCall
          /\ admin' \in [AdminCalls -> Request]
      BY <1>t, <1>n, <1>3 DEF WriteAgent, Call
    <2>4. CASE Exists(a)
      <3>1. UNCHANGED <<current, boots, deleted>>
        BY <1>3 DEF WriteAgent
      <3>2. agents' = [agents EXCEPT ![a] = row]
        BY <1>3, <2>1, <2>2, <2>4 DEF WriteAgent
      <3>3. switched' = [switched EXCEPT ![a] = row.model] /\ row.model \in Models
        <4>1. row.model = admin[c].model /\ row.model \in Models
          BY <2>2 DEF AgentRow
        <4> QED BY <1>3, <2>1, <2>4, <4>1 DEF WriteAgent
      <3>4. /\ agents' \in [AgentIds -> AgentRow \cup {NoRow}] /\ agents'[a] = row
            /\ \A b \in AgentIds \ {a} : agents'[b] = agents[b]
        BY <1>t, <3>2
      <3>5. /\ switched' \in [AgentIds -> Models \cup {NoModel}] /\ switched'[a] = row.model
            /\ \A b \in AgentIds \ {a} : switched'[b] = switched[b]
        BY <1>t, <3>3 DEF AdminTypeOK
      <3>6. AdminTypeOK'
        BY <1>t, <2>3, <3>1, <3>4, <3>5 DEF AdminTypeOK, AgentRow, Request, NoRow
      <3>7. Exists(a)'
        BY <3>4 DEF Exists, NoRow
      <3> QED BY <2>3, <3>1, <3>4, <3>5, <3>6, <3>7, TableStep
    <2>5. CASE ~Exists(a)
      <3>1. UNCHANGED <<agents, switched, current, boots, deleted>> /\ Call(c, NoCall)
        BY <1>3, <2>1, <2>5 DEF WriteAgent
      <3> QED BY <1>n, <3>1, RequestStep
    <2> QED BY <2>4, <2>5
  <1>4. CASE Reboot
    <2> USE <1>4 DEF Reboot
    <2>1. agents' \in [AgentIds -> AgentRow \cup {NoRow}]
      BY <1>t
    <2>2. admin' \in [AdminCalls -> Request]
      BY <1>n
    <2>3. AdminTypeOK'
      BY <1>t, <2>1, <2>2 DEF AdminTypeOK, AgentRow, Request, NoRow
    <2>4. SwitchedModelStands'
      BY <1>t DEF AdminInv, SwitchedModelStands
    <2>5. Known(current)'
      <3>1. agents'[current'] = FirstRow
        OBVIOUS
      <3> QED BY <3>1 DEF Known, Exists, NoRow
    <2>6. \A c \in AdminCalls : RequestInv(c)'
      BY <1>n DEF RequestInv, At
    <2> QED BY <2>3, <2>4, <2>5, <2>6 DEF AdminInv
  <1>5. ASSUME NEW c \in AdminCalls, SwitchAgent(c) PROVE AdminInv'
    <2> USE <1>5 DEF SwitchAgent, Call
    <2>1. current' \in AgentIds /\ Known(current)'
      BY DEF AdminInv, RequestInv, At, Known, Exists, NoRow
    <2>2. \A d \in AdminCalls : admin'[d] = admin[d] \/ admin'[d] = NoCall
      BY <1>t
    <2>3. admin' \in [AdminCalls -> Request]
      BY <1>t, <1>n
    <2>4. AdminTypeOK'
      BY <1>t, <2>1, <2>3 DEF AdminTypeOK, Request, NoRow
    <2>5. \A d \in AdminCalls : RequestInv(d)'
      BY <1>n, <2>2 DEF AdminInv, RequestInv, At, Known, Exists, NoRow
    <2> QED BY <2>1, <2>4, <2>5 DEF AdminInv, SwitchedModelStands
  <1>6. ASSUME NEW c \in AdminCalls, NEW m \in Models, SetModel(c, m) PROVE AdminInv'
    <2> DEFINE new == [NoCall EXCEPT !.pc = "update", !.agent = current, !.model = m]
    <2>1. new \in Request /\ new.pc = "update" /\ new.agent \in AgentIds /\ new.model \in Models
      BY <1>t, <1>n DEF Request, AdminTypeOK
    <2> HIDE DEF new
    <2> QED BY <1>6, <2>1, RequestStep DEF SetModel, new
  <1>7. ASSUME NEW c \in AdminCalls, ReadVersion(c) PROVE AdminInv'
    <2> DEFINE row == agents[admin[c].agent]
               new == [admin[c] EXCEPT !.pc = "write", !.version = row.version + 1]
    <2>1. CASE row = NoRow
      BY <1>n, <1>7, <2>1, RequestStep DEF ReadVersion
    <2>2. CASE row # NoRow
      <3>1. admin[c].agent \in AgentIds /\ admin[c].model \in Models
        BY <1>7 DEF ReadVersion, AdminInv, RequestInv
      <3>2. row \in AgentRow
        BY <1>t, <2>2, <3>1
      <3>3. row.version + 1 \in 0 .. MaxVersion + 1 /\ row.version + 1 >= 1
        BY <3>2 DEF AgentRow
      <3>4. /\ new \in Request /\ new.pc = "write" /\ new.agent = admin[c].agent
            /\ new.model = admin[c].model /\ new.version = row.version + 1
        <4> HIDE DEF row
        <4> QED BY <1>t, <3>3 DEF Request
      <3> HIDE DEF new
      <3> QED BY <1>7, <2>2, <3>1, <3>3, <3>4, RequestStep DEF ReadVersion, new
    <2> QED BY <2>1, <2>2
  <1>8. ASSUME NEW c \in AdminCalls, NEW a \in AgentIds, FindAgent(c, a) PROVE AdminInv'
    <2> DEFINE new == [NoCall EXCEPT !.pc = "switch", !.agent = a]
    <2>1. new \in Request /\ new.pc = "switch" /\ new.agent = a
      BY <1>n DEF Request
    <2> HIDE DEF new
    <2> QED BY <1>8, <2>1, RequestStep DEF FindAgent, new, Known
  <1>9. ASSUME NEW c \in AdminCalls, NEW readable \in BOOLEAN, Chat(c, readable) PROVE AdminInv'
    <2>1. PICK who \in {"answered", "fallback"} :
            who = IF Exists(current) /\ readable THEN "answered" ELSE "fallback"
      OBVIOUS
    <2>2. PICK excused \in BOOLEAN : excused <=> (current \in deleted \/ ~readable)
      OBVIOUS
    <2> DEFINE new == [NoCall EXCEPT !.pc = who, !.agent = current, !.excused = excused]
    <2>3. new \in Request /\ new.pc = who /\ new.excused = excused
      BY <1>t, <1>n DEF Request, AdminTypeOK
    <2>4. who = "fallback" => excused
      BY <2>1, <2>2 DEF AdminInv, Known
    <2>5. Call(c, new) /\ UNCHANGED <<agents, current, boots, switched, deleted>>
      <3>1. excused = (current \in deleted \/ ~readable)
        BY <2>2
      <3> QED BY <1>9, <2>1, <3>1 DEF Chat
    <2> HIDE DEF new
    <2> QED BY <2>1, <2>3, <2>4, <2>5, RequestStep
  <1>10. ASSUME NEW c \in AdminCalls, NEW parsed \in SUBSET AgentIds,
                FallBack(c, parsed) \/ EndChat(c) \/ AdminFails(c)
         PROVE  AdminInv'
    <2>1. CASE Call(c, NoCall) /\ UNCHANGED <<agents, current, boots, switched, deleted>>
      BY <1>n, <2>1, RequestStep
    <2>2. ASSUME NEW a \in AgentIds, At(c, "fallback"),
                 Call(c, [admin[c] EXCEPT !.pc = "another", !.agent = a]),
                 UNCHANGED <<agents, current, boots, switched, deleted>>
          PROVE  AdminInv'
      <3> DEFINE new == [admin[c] EXCEPT !.pc = "another", !.agent = a]
      <3>1. new \in Request /\ new.pc = "another" /\ new.excused = admin[c].excused
        BY <1>t DEF Request
      <3>2. admin[c].excused
        BY <2>2 DEF AdminInv, RequestInv
      <3> HIDE DEF new
      <3> QED BY <2>2, <3>1, <3>2, RequestStep DEF new
    <2> QED BY <1>10, <2>1, <2>2 DEF FallBack, EndChat, AdminFails
  <1>11. ASSUME UNCHANGED adminVars PROVE AdminInv'
    BY <1>11
    DEF adminVars, AdminInv, AdminTypeOK, SwitchedModelStands, RequestInv, At, Known, Exists, NoRow
  <1> QED
    <2>1. ASSUME NEW c \in AdminCalls, EndChat(c) \/ AdminFails(c) PROVE AdminInv'
      BY <1>10, <2>1
    <2>2. ASSUME NEW c \in AdminCalls,
                 NEW parsed \in SUBSET {a \in AgentIds : Exists(a)}, FallBack(c, parsed)
          PROVE  AdminInv'
      BY <1>10, <2>2
    <2> QED
      BY <1>1, <1>2, <1>3, <1>4, <1>5, <1>6, <1>7, <1>8, <1>9, <1>11, <2>1, <2>2
      DEF AdminNext

(* However requests overlap, and agents are deleted and created again in   *)
(* between: "Model switched" is true, and another agent than the chosen    *)
(* one answers only when that one was deleted or could not be read.        *)
THEOREM AnswersStand == AdminSpec => []AnswersAreTrue
  <1>1. AdminInv => AnswersAreTrue
    BY DEF AdminInv, AnswersAreTrue, ChosenAgentAnswers, RequestInv, At
  <1> QED BY <1>1, AdminInitInv, AdminStepInv, PTL DEF AdminSpec

(* Administration: the types (AdminTypeOK); versions stay in their bound.  *)
THEOREM AdminTypeCorrect == AdminSpec => []AdminTypeOK
  <1>1. AdminInv => AdminTypeOK
    BY DEF AdminInv
  <1> QED BY AdminInitInv, AdminStepInv, <1>1, PTL DEF AdminSpec

-----------------------------------------------------------------------------
(* Skills: what is reported as installed is there.                         *)

Copying(p) == skillPc[p].at \in {"checked", "copying"}

(* What is in the directory of a skill that one process installs alone.    *)
CopyInv(p) ==
  Copying(p) =>
    LET target == directory[skillPc[p].skill] IN
    /\ p \in Commands
    /\ skillPc[p].at = "copying" => target.exists
    /\ skillPc[p].skill \notin clashed =>
         /\ skillPc[p].at = "checked" => ~target.exists /\ skillPc[p].left = Files
         /\ skillPc[p].at = "copying" => target.files = Files \ skillPc[p].left

SkillsInv ==
  /\ SkillsTypeOK
  /\ InstalledIsWhole
  /\ \A s \in SkillIds : ~directory[s].exists => directory[s].files = {}
  /\ \A p \in SkillProcesses : CopyInv(p)
  /\ \A p, q \in SkillProcesses :
       Copying(p) /\ Copying(q) /\ p # q /\ skillPc[p].skill = skillPc[q].skill =>
         skillPc[p].skill \in clashed

Place == [at : {"off", "loaded", "checked", "copying"}, skill : SkillIds, left : SUBSET Files]
Target == [exists : BOOLEAN, files : SUBSET Files]

LEMMA SkillsInitInv == SkillsInit => SkillsInv
  <1> SUFFICES ASSUME SkillsInit PROVE SkillsInv
    OBVIOUS
  <1> USE SkillsAssumption DEF SkillsInit
  <1>1. Off \in Place /\ Off.at = "off"
    BY DEF Off, AnySkill, Place
  <1>2. SkillsTypeOK
    <2>1. skillPc \in [SkillProcesses -> Place]
      BY <1>1
    <2>2. registry \in [SkillProcesses -> [SkillIds -> {"absent", "active"}]]
      BY DEF Empty
    <2> QED BY <2>1, <2>2 DEF SkillsTypeOK, Place, NoDirectory, Files
  <1>3. \A p \in SkillProcesses : ~Copying(p)
    BY <1>1 DEF Copying
  <1> QED
    BY <1>2, <1>3 DEF SkillsInv, InstalledIsWhole, CopyInv, NoDirectory

(* A process that neither copies nor begins to leaves the directories. *)
LEMMA ProcessMoves ==
  ASSUME SkillsInv, SkillsTypeOK', NEW p \in SkillProcesses, UNCHANGED <<directory, clashed>>,
         \A q \in SkillProcesses \ {p} : skillPc'[q] = skillPc[q],
         skillPc'[p].at \in {"off", "loaded"},
         \A s \in SkillIds : reported'[s] = "installed" =>
           reported[s] = "installed" \/ directory[s] = Whole \/ s \in clashed
  PROVE  SkillsInv'
  <1>1. ~Copying(p)'
    BY DEF Copying
  <1>2. \A q \in SkillProcesses : Copying(q)' => q # p /\ skillPc'[q] = skillPc[q] /\ Copying(q)
    BY <1>1 DEF Copying
  <1>3. InstalledIsWhole'
    BY DEF SkillsInv, InstalledIsWhole, Whole
  <1> QED BY <1>2, <1>3 DEF SkillsInv, CopyInv

LEMMA SkillsStepInv == SkillsInv /\ [SkillsNext]_skillVars => SkillsInv'
  <1> SUFFICES ASSUME SkillsInv, [SkillsNext]_skillVars PROVE SkillsInv'
    OBVIOUS
  <1> USE SkillsAssumption
  <1>t. /\ SkillsTypeOK
        /\ skillPc \in [SkillProcesses -> Place] /\ directory \in [SkillIds -> Target]
    BY DEF SkillsInv, SkillsTypeOK, Place, Target
  <1>o. ASSUME NEW p \in SkillProcesses, skillPc[p].at # "off" PROVE Off \in Place /\ Off.at = "off"
    BY <1>t DEF Off, AnySkill, Place
  <1>e. Empty \in [SkillIds -> {"absent", "active"}]
    BY DEF Empty
  <1>1. ASSUME NEW p \in SkillProcesses, StartProcess(p) PROVE SkillsInv'
    <2>1. skillPc' \in [SkillProcesses -> Place] /\ skillPc'[p].at = "loaded"
      BY <1>t, <1>1 DEF StartProcess, Place
    <2>2. Loaded \in [SkillIds -> {"absent", "active"}]
      BY DEF Loaded
    <2>3. registry' \in [SkillProcesses -> [SkillIds -> {"absent", "active"}]]
      <3> HIDE DEF Loaded
      <3> QED BY <1>t, <1>1, <2>2 DEF StartProcess, SkillsTypeOK
    <2>4. skillRuns' \in 0 .. MaxSkillRuns
      BY <1>t, <1>1 DEF StartProcess, SkillsTypeOK
    <2>5. SkillsTypeOK'
      BY <1>t, <1>1, <2>1, <2>3, <2>4 DEF StartProcess, SkillsTypeOK, Place
    <2> QED BY <1>t, <1>1, <2>1, <2>5, ProcessMoves DEF StartProcess
  <1>2. ASSUME NEW p \in SkillProcesses, Ends(p), skillPc[p].at # "off",
               UNCHANGED <<directory, clashed>>,
               \/ UNCHANGED reported
               \/ \E s \in SkillIds, message \in {"uninstalled", "active", "disabled"} :
                    Report(s, message)
               \/ \E s \in SkillIds : (directory[s] = Whole \/ s \in clashed) /\ Report(s, "installed")
        PROVE  SkillsInv'
    <2>1. skillPc' \in [SkillProcesses -> Place] /\ skillPc'[p] = Off
      BY <1>t, <1>o, <1>2 DEF Ends
    <2>2. SkillsTypeOK'
      <3>1. registry' \in [SkillProcesses -> [SkillIds -> {"absent", "active"}]]
        BY <1>t, <1>e, <1>2 DEF Ends, SkillsTypeOK
      <3>2. reported' \in [SkillIds -> {"nothing", "installed", "uninstalled", "active",
                                        "disabled"}]
        BY <1>t, <1>2 DEF Report, SkillsTypeOK
      <3> QED BY <1>t, <1>2, <2>1, <3>1, <3>2 DEF Ends, SkillsTypeOK, Place
    <2>3. \A s \in SkillIds : reported'[s] = "installed" =>
            reported[s] = "installed" \/ directory[s] = Whole \/ s \in clashed
      BY <1>t, <1>2 DEF Report, SkillsTypeOK
    <2>4. \A q \in SkillProcesses \ {p} : skillPc'[q] = skillPc[q]
      BY <1>t, <1>2 DEF Ends
    <2> QED BY <1>o, <1>2, <2>1, <2>2, <2>3, <2>4, ProcessMoves
  <1>3. ASSUME NEW p \in SkillProcesses, StopProcess(p) PROVE SkillsInv'
    BY <1>2, <1>3 DEF StopProcess
  <1>4. ASSUME NEW p \in SkillProcesses, NEW s \in SkillIds,
               \/ RefuseTarget(p, s) \/ Uninstall(p, s)
               \/ \E status \in {"active", "disabled"} : SetStatus(p, s, status)
        PROVE  SkillsInv'
    BY <1>2, <1>4 DEF RefuseTarget, Uninstall, SetStatus
  <1>5. ASSUME NEW p \in SkillProcesses, Register(p) PROVE SkillsInv'
    <2> DEFINE s == skillPc[p].skill
    <2>1. s \in SkillIds
      BY <1>t DEF Place
    <2>2. s \notin clashed => directory[s] = Whole
      <3>1. s \notin clashed => directory[s].exists = TRUE /\ directory[s].files = Files
        BY <1>t, <1>5, <2>1 DEF Register, SkillsInv, CopyInv, Copying, Target
      <3>2. directory[s] = [exists |-> directory[s].exists, files |-> directory[s].files]
        BY <1>t, <2>1 DEF Target
      <3> QED BY <3>1, <3>2 DEF Whole
    <2> QED BY <1>2, <1>5, <2>1, <2>2 DEF Register
  <1>6. ASSUME NEW p \in SkillProcesses, NEW s \in SkillIds, CheckTarget(p, s) PROVE SkillsInv'
    <2> USE <1>6 DEF CheckTarget
    <2>1. [at |-> "checked", skill |-> s, left |-> Files] \in Place
      BY DEF Place
    <2>2. /\ skillPc' \in [SkillProcesses -> Place]
          /\ skillPc'[p] = [at |-> "checked", skill |-> s, left |-> Files]
          /\ \A q \in SkillProcesses \ {p} : skillPc'[q] = skillPc[q]
      BY <1>t, <2>1
    <2>3. clashed \subseteq clashed' /\ clashed' \subseteq SkillIds
      BY <1>t DEF SkillsTypeOK
    <2>4. SkillsTypeOK'
      BY <1>t, <2>2, <2>3 DEF SkillsTypeOK, Place
    <2>5. ~Copying(p)
      BY DEF Copying
    <2>6. ASSUME NEW q \in SkillProcesses PROVE CopyInv(q)'
      <3>1. CASE q = p
        BY <2>2, <3>1 DEF CopyInv, Copying
      <3>2. CASE q # p
        BY <2>2, <2>3, <3>2 DEF SkillsInv, CopyInv, Copying
      <3> QED BY <3>1, <3>2
    <2>7. ASSUME NEW q \in SkillProcesses \ {p}, Copying(q), skillPc[q].skill = s
          PROVE  s \in clashed'
      <3>1. q \in Installers(s)
        BY <2>7 DEF SkillsInv, CopyInv, Copying, Installers
      <3> QED BY <3>1
    <2>8. \A q, r \in SkillProcesses :
            Copying(q)' /\ Copying(r)' /\ q # r /\ skillPc'[q].skill = skillPc'[r].skill =>
              skillPc'[q].skill \in clashed'
      BY <2>2, <2>3, <2>7 DEF SkillsInv, Copying
    <2>9. InstalledIsWhole'
      BY <2>3 DEF SkillsInv, InstalledIsWhole, Whole
    <2> QED BY <2>4, <2>6, <2>8, <2>9 DEF SkillsInv
  <1>7. ASSUME NEW p \in SkillProcesses, NEW target \in Target,
               Copying(p), Copying(p)', skillPc'[p].skill = skillPc[p].skill,
               skillPc' \in [SkillProcesses -> Place],
               \A q \in SkillProcesses \ {p} : skillPc'[q] = skillPc[q],
               directory' = [directory EXCEPT ![skillPc[p].skill] = target],
               target.exists,
               skillPc[p].skill \notin clashed =>
                 /\ directory[skillPc[p].skill] # Whole
                 /\ skillPc'[p].at = "copying" /\ target.files = Files \ skillPc'[p].left,
               UNCHANGED <<registry, skillRuns, reported, clashed>>
        PROVE  SkillsInv'
    <2>1. PICK s \in SkillIds : s = skillPc[p].skill
      BY <1>t DEF Place
    <2>2. /\ directory' \in [SkillIds -> Target] /\ directory'[s] = target
          /\ \A r \in SkillIds \ {s} : directory'[r] = directory[r]
      BY <1>t, <1>7, <2>1
    <2>3. SkillsTypeOK'
      BY <1>t, <1>7, <2>2 DEF SkillsTypeOK, Place, Target
    <2>4. InstalledIsWhole'
      BY <1>7, <2>1, <2>2 DEF SkillsInv, InstalledIsWhole, Whole
    <2>5. ASSUME NEW q \in SkillProcesses PROVE CopyInv(q)'
      <3>1. CASE q = p
        BY <1>7, <2>1, <2>2, <3>1 DEF SkillsInv, CopyInv, Copying
      <3>2. CASE q # p
        <4>1. skillPc'[q] = skillPc[q] /\ (Copying(q)' <=> Copying(q))
          BY <1>7, <3>2 DEF Copying
        <4>2. Copying(q) /\ skillPc[q].skill = s => s \in clashed
          BY <1>7, <2>1, <3>2 DEF SkillsInv
        <4>3. skillPc[q].skill \in SkillIds
          BY <1>t DEF Place
        <4> QED BY <1>7, <2>2, <4>1, <4>2, <4>3 DEF SkillsInv, CopyInv
      <3> QED BY <3>1, <3>2
    <2>6. \A q \in SkillProcesses :
            skillPc'[q].skill = skillPc[q].skill /\ (Copying(q)' => Copying(q))
      BY <1>7 DEF Copying
    <2> QED BY <1>7, <2>2, <2>3, <2>4, <2>5, <2>6 DEF SkillsInv
  <1>8. ASSUME NEW p \in SkillProcesses, CreateTarget(p) PROVE SkillsInv'
    <2> DEFINE s == skillPc[p].skill
               target == [directory[s] EXCEPT !.exists = TRUE]
    <2>1. s \in SkillIds /\ directory[s] \in Target
      BY <1>t DEF Place
    <2>2. target \in Target /\ target.exists /\ target.files = directory[s].files
      BY <2>1 DEF Target
    <2>3. directory' = [directory EXCEPT ![s] = target]
      BY <1>8 DEF CreateTarget
    <2>4. /\ skillPc' \in [SkillProcesses -> Place] /\ Copying(p) /\ Copying(p)'
          /\ skillPc'[p].at = "copying"
          /\ skillPc'[p].skill = s /\ skillPc'[p].left = skillPc[p].left
          /\ \A q \in SkillProcesses \ {p} : skillPc'[q] = skillPc[q]
      BY <1>t, <1>8 DEF CreateTarget, Place, Copying
    <2>5. s \notin clashed =>
            ~directory[s].exists /\ skillPc[p].left = Files /\ directory[s].files = {}
      BY <1>8, <2>1, <2>4 DEF CreateTarget, SkillsInv, CopyInv
    <2>6. directory[s] = Whole => directory[s].exists
      BY DEF Whole
    <2> HIDE DEF target
    <2> QED BY <1>7, <1>8, <2>2, <2>3, <2>4, <2>5, <2>6 DEF CreateTarget
  <1>9. ASSUME NEW p \in SkillProcesses, NEW f \in Files, TruncateFile(p, f) \/ CopyFile(p, f)
        PROVE  SkillsInv'
    <2> DEFINE s == skillPc[p].skill
    <2>1. s \in SkillIds /\ directory[s] \in Target
      BY <1>t DEF Place
    <2>2. Copying(p) /\ skillPc[p].at = "copying" /\ f \in skillPc[p].left
      BY <1>9 DEF TruncateFile, CopyFile, Copying
    <2>3. /\ directory[s].exists
          /\ s \notin clashed => directory[s].files = Files \ skillPc[p].left
      BY <2>2 DEF SkillsInv, CopyInv
    <2>4. directory[s] = Whole => directory[s].files = Files
      BY DEF Whole
    <2>5. CASE TruncateFile(p, f)
      <3> DEFINE target == [directory[s] EXCEPT !.files = @ \ {f}]
      <3>1. target \in Target /\ target.exists = directory[s].exists
        BY <2>1 DEF Target
      <3>2. directory' = [directory EXCEPT ![s] = target]
        BY <2>5 DEF TruncateFile
      <3>3. s \in clashed
        BY <2>2, <2>3, <2>5 DEF TruncateFile
      <3>4. target.exists
        BY <2>3, <3>1
      <3> HIDE DEF target
      <3> QED BY <1>t, <1>7, <2>2, <2>5, <3>1, <3>2, <3>3, <3>4 DEF TruncateFile, Copying
    <2>6. CASE CopyFile(p, f)
      <3> DEFINE target == [directory[s] EXCEPT !.files = @ \cup {f}]
      <3>1. /\ target \in Target /\ target.exists = directory[s].exists
            /\ target.files = directory[s].files \cup {f}
        BY <2>1 DEF Target
      <3>2. directory' = [directory EXCEPT ![s] = target]
        BY <2>6 DEF CopyFile
      <3>3. /\ skillPc' \in [SkillProcesses -> Place] /\ Copying(p)'
            /\ skillPc'[p].at = "copying"
            /\ skillPc'[p].skill = s /\ skillPc'[p].left = skillPc[p].left \ {f}
            /\ \A q \in SkillProcesses \ {p} : skillPc'[q] = skillPc[q]
        BY <1>t, <2>6 DEF CopyFile, Place, Copying
      <3>4. target.exists
        BY <2>3, <3>1
      <3> HIDE DEF target
      <3>5. s \notin clashed => directory[s] # Whole /\ target.files = Files \ skillPc'[p].left
        <4>1. f \in Files /\ f \notin directory[s].files
          BY <1>9, <2>6 DEF CopyFile
        <4>2. directory[s] # Whole
          BY <2>4, <4>1
        <4>3. skillPc[p].left \subseteq Files
          BY <1>t DEF Place
        <4> QED BY <2>2, <2>3, <3>1, <3>3, <4>1, <4>2, <4>3
      <3>6. UNCHANGED <<registry, skillRuns, reported, clashed>>
        BY <2>6 DEF CopyFile
      <3> QED BY <1>7, <2>2, <3>1, <3>2, <3>3, <3>4, <3>5, <3>6
    <2> QED BY <1>9, <2>5, <2>6
  <1>10. ASSUME UNCHANGED skillVars PROVE SkillsInv'
    BY <1>10 DEF skillVars, SkillsInv, SkillsTypeOK, InstalledIsWhole, Whole, CopyInv, Copying
  <1> QED
    BY <1>1, <1>3, <1>4, <1>5, <1>6, <1>8, <1>9, <1>10 DEF SkillsNext

(* A skill that "skill install" reported as installed is there with all of *)
(* its files, unless two processes installed it at the same time: for any  *)
(* skills, daemons and commands.                                           *)
THEOREM InstalledSkillsAreWhole == SkillsSpec => []InstalledIsWhole
  <1>1. SkillsInv => InstalledIsWhole
    BY DEF SkillsInv
  <1> QED BY SkillsInitInv, SkillsStepInv, <1>1, PTL DEF SkillsSpec

(* Skills: the types (SkillsTypeOK) of directories, registries and calls.  *)
THEOREM SkillsTypeCorrect == SkillsSpec => []SkillsTypeOK
  <1>1. SkillsInv => SkillsTypeOK
    BY DEF SkillsInv
  <1> QED BY SkillsInitInv, SkillsStepInv, <1>1, PTL DEF SkillsSpec

-----------------------------------------------------------------------------
(* MemoryStore: what overlapping calls keep and show.                      *)

MemRow ==
  [id : Nat, fact : Facts, type : MemoryType, agent : Callers, access : AccessPolicy,
   importance : Nat, embedded : BOOLEAN, age : Nat]

MemTypes ==
  /\ memories \subseteq MemRow /\ nextId \in Nat
  /\ memPc \in [MemCalls ->
       {"idle", "embed", "insert", "stored", "vector", "load", "listed"}]
  /\ wanted \in [MemCalls -> NewMemory \cup {Nothing}]
  /\ embedding \in [MemCalls -> BOOLEAN]
  /\ asker \in [MemCalls -> Callers]
  /\ found \in [MemCalls -> SUBSET Nat]
  /\ loaded \in [MemCalls -> SUBSET [id : Nat, agent : Callers, access : AccessPolicy, age : Nat,
                                     ageBefore : Nat]]
  /\ kept \in [MemCalls -> BOOLEAN]

Sees(who, row) == row.access = "private" => who \in Agents /\ row.agent = who

RowsInv ==
  /\ \A m \in memories : m.id < nextId
  /\ \A m, n \in memories : m.id = n.id => m.access = n.access /\ m.agent = n.agent

(* store: a fact that is in the table when the call looks again has been   *)
(* there since it began.                                                   *)
StoreInv(c) ==
  /\ memPc[c] = "stored" => kept[c]
  /\ memPc[c] \in {"embed", "insert"} =>
       wanted[c] \in NewMemory /\ ((\E m \in memories : m.fact = wanted[c].fact) => kept[c])

(* retrieve_full: what was found may be shown, now and when it is loaded.  *)
(* A list is the dashboard's.                                              *)
RetrieveInv(c) ==
  /\ memPc[c] \notin {"vector", "load"} => found[c] = {}
  /\ memPc[c] \notin {"load", "listed"} => loaded[c] = {}
  /\ memPc[c] = "listed" => asker[c] = Dashboard
  /\ \A i \in found[c] : i < nextId
  /\ \A m \in memories : m.id \in found[c] => Sees(asker[c], m)
  /\ memPc[c] # "listed" => \A l \in loaded[c] : Sees(asker[c], l)

MemInv == MemTypes /\ RowsInv /\ \A c \in MemCalls : StoreInv(c) /\ RetrieveInv(c)

LEMMA MemInitInv == MemInit => MemInv
  BY MemoryStoreAssumption
  DEF MemInit, MemInv, MemTypes, RowsInv, StoreInv, RetrieveInv, Callers

(* A step that makes no row but changes some, or deletes them. *)
LEMMA RowsChange ==
  ASSUME MemInv, memories' \subseteq MemRow,
         \A m \in memories' : \E n \in memories :
           m.id = n.id /\ m.fact = n.fact /\ m.agent = n.agent /\ m.access = n.access,
         UNCHANGED <<nextId, memPc, wanted, embedding, asker, kept>>,
         found' \in [MemCalls -> SUBSET Nat],
         loaded' \in [MemCalls -> SUBSET [id : Nat, agent : Callers, access : AccessPolicy,
                                          age : Nat, ageBefore : Nat]],
         \A c \in MemCalls : found'[c] \subseteq found[c],
         \A c \in MemCalls : memPc[c] # "load" => loaded'[c] = loaded[c],
         \A c \in MemCalls : \A l \in loaded'[c] : l \in loaded[c] \/ Sees(asker[c], l)
  PROVE  MemInv'
  <1>1. MemTypes'
    BY DEF MemInv, MemTypes
  <1>2. RowsInv'
    <2>1. ASSUME NEW m \in memories' PROVE m.id < nextId
      BY DEF MemInv, RowsInv
    <2>2. ASSUME NEW m \in memories', NEW n \in memories', m.id = n.id
          PROVE  m.access = n.access /\ m.agent = n.agent
      <3>1. PICK k \in memories : m.id = k.id /\ m.agent = k.agent /\ m.access = k.access
        OBVIOUS
      <3>2. PICK l \in memories : n.id = l.id /\ n.agent = l.agent /\ n.access = l.access
        OBVIOUS
      <3>3. k.access = l.access /\ k.agent = l.agent
        <4>1. k.id = l.id
          BY <2>2, <3>1, <3>2
        <4>2. \A r, s \in memories : r.id = s.id => r.access = s.access /\ r.agent = s.agent
          BY DEF MemInv, RowsInv
        <4> QED BY <4>1, <4>2
      <3> QED BY <3>1, <3>2, <3>3
    <2> QED BY <2>1, <2>2 DEF RowsInv
  <1>3. ASSUME NEW c \in MemCalls PROVE StoreInv(c)'
    <2>1. StoreInv(c)
      BY DEF MemInv
    <2>2. (\E m \in memories' : m.fact = wanted[c].fact) => \E m \in memories : m.fact = wanted[c].fact
      OBVIOUS
    <2> QED BY <2>1, <2>2 DEF StoreInv
  <1>4. ASSUME NEW c \in MemCalls PROVE RetrieveInv(c)'
    <2>1. RetrieveInv(c)
      BY DEF MemInv
    <2>2. ASSUME NEW m \in memories', m.id \in found'[c] PROVE Sees(asker[c], m)
      <3>1. PICK n \in memories : m.id = n.id /\ m.agent = n.agent /\ m.access = n.access
        OBVIOUS
      <3>2. n.id \in found[c]
        BY <2>2, <3>1
      <3> QED BY <2>1, <3>1, <3>2 DEF RetrieveInv, Sees
    <2>3. memPc[c] # "listed" => \A l \in loaded'[c] : Sees(asker[c], l)
      BY <2>1 DEF RetrieveInv
    <2> QED BY <2>1, <2>2, <2>3 DEF RetrieveInv
  <1> QED BY <1>1, <1>2, <1>3, <1>4 DEF MemInv

(* A step of one call that leaves the table alone. *)
LEMMA CallMoves ==
  ASSUME MemInv, MemTypes', NEW c \in MemCalls, UNCHANGED <<memories, nextId>>,
         \A d \in MemCalls \ {c} :
           /\ memPc'[d] = memPc[d] /\ wanted'[d] = wanted[d] /\ asker'[d] = asker[d]
           /\ found'[d] = found[d] /\ loaded'[d] = loaded[d] /\ kept'[d] = kept[d],
         StoreInv(c)', RetrieveInv(c)'
  PROVE  MemInv'
  <1>1. RowsInv'
    BY DEF MemInv, RowsInv
  <1>2. ASSUME NEW d \in MemCalls \ {c} PROVE StoreInv(d)' /\ RetrieveInv(d)'
    <2>1. StoreInv(d) /\ RetrieveInv(d)
      BY DEF MemInv
    <2>2. StoreInv(d)'
      BY <2>1 DEF StoreInv
    <2>3. RetrieveInv(d)'
      BY <2>1 DEF RetrieveInv
    <2> QED BY <2>2, <2>3
  <1> QED BY <1>1, <1>2 DEF MemInv

LEMMA MemStepInv == MemInv /\ [MemNext]_memVars => MemInv'
  <1> SUFFICES ASSUME MemInv, [MemNext]_memVars PROVE MemInv'
    OBVIOUS
  <1> USE MemoryStoreAssumption
  <1>t. MemTypes /\ \A c \in MemCalls : StoreInv(c) /\ RetrieveInv(c)
    BY DEF MemInv
  <1>r. ASSUME NEW m \in memories
        PROVE  /\ m \in MemRow /\ m.id \in Nat /\ m.importance \in Nat /\ m.age \in Nat
               /\ m.agent \in Callers /\ m.access \in AccessPolicy
    BY <1>t DEF MemTypes, MemRow
  <1>1. ASSUME NEW c \in MemCalls, NEW new \in NewMemories, BeginStore(c, new) PROVE MemInv'
    <2> USE <1>1 DEF BeginStore
    <2>1. MemTypes'
      <3>1. kept' \in [MemCalls -> BOOLEAN]
        BY <1>t DEF MemTypes
      <3>2. wanted' \in [MemCalls -> NewMemory \cup {Nothing}]
        BY <1>t DEF MemTypes
      <3>3. memPc' \in [MemCalls ->
              {"idle", "embed", "insert", "stored", "vector", "load", "listed"}]
        BY <1>t DEF MemTypes
      <3> QED BY <1>t, <3>1, <3>2, <3>3 DEF MemTypes
    <2>2. StoreInv(c)'
      BY <1>t DEF MemTypes, StoreInv, Duplicates, RowsOf
    <2>3. RetrieveInv(c)'
      BY <1>t DEF MemTypes, RetrieveInv
    <2>4. \A d \in MemCalls \ {c} :
            /\ memPc'[d] = memPc[d] /\ wanted'[d] = wanted[d] /\ asker'[d] = asker[d]
            /\ found'[d] = found[d] /\ loaded'[d] = loaded[d] /\ kept'[d] = kept[d]
      BY <1>t DEF MemTypes
    <2>5. UNCHANGED <<memories, nextId>>
      OBVIOUS
    <2> QED BY <2>1, <2>2, <2>3, <2>4, <2>5, CallMoves
  <1>2. ASSUME NEW c \in MemCalls, NEW ok \in BOOLEAN, Embed(c, ok) PROVE MemInv'
    <2> USE <1>2 DEF Embed
    <2>1. MemTypes'
      BY <1>t DEF MemTypes
    <2>2. StoreInv(c)' /\ RetrieveInv(c)'
      BY <1>t DEF MemTypes, StoreInv, RetrieveInv
    <2>3. \A d \in MemCalls \ {c} : memPc'[d] = memPc[d]
      BY <1>t DEF MemTypes
    <2>4. UNCHANGED <<memories, nextId, wanted, asker, found, loaded, kept>>
      OBVIOUS
    <2> QED BY <2>1, <2>2, <2>3, <2>4, CallMoves
  <1>3. ASSUME NEW c \in MemCalls, InsertMemory(c), RowsOf(wanted[c].fact) # {},
               UNCHANGED <<memories, nextId, kept>>
        PROVE  MemInv'
    <2> USE <1>3 DEF InsertMemory
    <2>1. MemTypes'
      BY <1>t DEF MemTypes
    <2>2. StoreInv(c)' /\ RetrieveInv(c)'
      BY <1>t DEF MemTypes, StoreInv, RetrieveInv, RowsOf
    <2>3. \A d \in MemCalls \ {c} : memPc'[d] = memPc[d] /\ wanted'[d] = wanted[d]
      BY <1>t DEF MemTypes
    <2>4. UNCHANGED <<asker, found, loaded>>
      OBVIOUS
    <2> QED BY <1>3, <2>1, <2>2, <2>3, <2>4, CallMoves
  <1>4. ASSUME NEW c \in MemCalls, VectorSearch(c) PROVE MemInv'
    <2> USE <1>4 DEF VectorSearch
    <2>1. PICK similar \in {{}, Ids({m \in Relevant(asker[c]) : m.embedded})} :
            \E best \in Merged(found[c] \cup similar) : found' = [found EXCEPT ![c] = best]
      OBVIOUS
    <2>2. PICK best \in Merged(found[c] \cup similar) : found' = [found EXCEPT ![c] = best]
      BY <2>1
    <2>3. \A i \in best : i \in found[c] \/ \E m \in Relevant(asker[c]) : m.id = i
      BY <2>1 DEF Merged, Ids
    <2>4. \A m \in Relevant(asker[c]) : m \in memories /\ Sees(asker[c], m)
      BY DEF Relevant, AskedFor, Sees
    <2>5. \A i \in best : i \in Nat /\ i < nextId
      BY <1>t, <1>r, <2>3, <2>4 DEF MemInv, MemTypes, RowsInv, RetrieveInv
    <2>6. \A m \in memories : m.id \in best => Sees(asker[c], m)
      BY <1>t, <2>3, <2>4 DEF MemInv, RowsInv, RetrieveInv, Sees
    <2>7. found'[c] = best /\ memPc'[c] = "load"
      BY <1>t, <2>2 DEF MemTypes
    <2>8. MemTypes'
      BY <1>t, <2>2, <2>5 DEF MemTypes
    <2>9. StoreInv(c)' /\ RetrieveInv(c)'
      <3>1. loaded[c] = {}
        BY <1>t DEF RetrieveInv
      <3> QED BY <2>5, <2>6, <2>7, <3>1 DEF StoreInv, RetrieveInv
    <2>10. \A d \in MemCalls \ {c} : memPc'[d] = memPc[d] /\ found'[d] = found[d]
      BY <1>t, <2>2 DEF MemTypes
    <2>11. UNCHANGED <<memories, nextId, wanted, asker, loaded, kept>>
      OBVIOUS
    <2> QED BY <2>8, <2>9, <2>10, <2>11, CallMoves
  <1>5. ASSUME NEW c \in MemCalls, NEW who \in Callers, TextSearch(c, who) PROVE MemInv'
    <2> USE <1>5 DEF TextSearch
    <2>1. PICK hits \in SUBSET Relevant(who) : found' = [found EXCEPT ![c] = Ids(hits)]
      OBVIOUS
    <2>2. \A m \in hits : m \in memories /\ Sees(who, m)
      BY DEF Relevant, AskedFor, Sees
    <2>3. \A i \in Ids(hits) : \E m \in hits : m.id = i
      BY DEF Ids
    <2>4. \A i \in Ids(hits) : i \in Nat /\ i < nextId
      BY <1>r, <2>2, <2>3 DEF MemInv, RowsInv
    <2>5. \A m \in memories : m.id \in Ids(hits) => Sees(who, m)
      BY <2>2, <2>3 DEF MemInv, RowsInv, Sees
    <2>6. found'[c] = Ids(hits) /\ memPc'[c] = "vector" /\ asker'[c] = who
      BY <1>t, <2>1 DEF MemTypes
    <2>7. MemTypes'
      BY <1>t, <2>1, <2>4 DEF MemTypes
    <2>8. StoreInv(c)' /\ RetrieveInv(c)'
      <3>1. loaded[c] = {}
        BY <1>t DEF RetrieveInv
      <3> QED BY <2>4, <2>5, <2>6, <3>1 DEF StoreInv, RetrieveInv
    <2>9. \A d \in MemCalls \ {c} :
            memPc'[d] = memPc[d] /\ found'[d] = found[d] /\ asker'[d] = asker[d]
      BY <1>t, <2>1 DEF MemTypes
    <2>10. UNCHANGED <<memories, nextId, wanted, loaded, kept>>
      OBVIOUS
    <2> QED BY <2>7, <2>8, <2>9, <2>10, CallMoves
  <1>6. ASSUME NEW c \in MemCalls, EndCall(c) PROVE MemInv'
    <2> USE <1>6 DEF EndCall
    <2>1. MemTypes'
      BY <1>t DEF MemTypes, Callers
    <2>2. found[c] = {}
      BY <1>t DEF RetrieveInv
    <2>3. StoreInv(c)' /\ RetrieveInv(c)'
      BY <1>t, <2>2 DEF MemTypes, StoreInv, RetrieveInv
    <2>4. \A d \in MemCalls \ {c} :
            /\ memPc'[d] = memPc[d] /\ asker'[d] = asker[d]
            /\ loaded'[d] = loaded[d] /\ kept'[d] = kept[d]
      BY <1>t DEF MemTypes
    <2>5. UNCHANGED <<memories, nextId, wanted, found>>
      OBVIOUS
    <2> QED BY <2>1, <2>3, <2>4, <2>5, CallMoves
  <1>7. ASSUME NEW c \in MemCalls, InsertMemory(c), RowsOf(wanted[c].fact) = {},
               nextId \in MemoryId, NEW row,
               row = [id |-> nextId, fact |-> wanted[c].fact, type |-> wanted[c].type,
                      agent |-> wanted[c].agent, access |-> wanted[c].access,
                      importance |-> wanted[c].importance, embedded |-> embedding[c], age |-> 0],
               memories' = memories \cup {row}, nextId' = nextId + 1,
               kept' = [d \in MemCalls |->
                          kept[d] \/ (memPc[d] \in {"embed", "insert"} /\ wanted[d].fact = wanted[c].fact)]
        PROVE  MemInv'
    <2> USE <1>7 DEF InsertMemory
    <2>1. row \in MemRow
      <3>1. wanted[c] \in NewMemory
        BY <1>t DEF StoreInv
      <3>2. PICK new \in NewMemory : new = wanted[c]
        BY <3>1
      <3>3. embedding[c] \in BOOLEAN
        BY <1>t DEF MemTypes
      <3>4. nextId \in Nat /\ new.importance \in Nat
        BY DEF MemoryId, NewMemory, Importance
      <3> QED BY <3>2, <3>3, <3>4 DEF MemRow, NewMemory
    <2>2. row.id = nextId /\ row.fact = wanted[c].fact /\ nextId \in Nat
      BY DEF MemoryId
    <2>3. MemTypes'
      BY <1>t, <2>1, <2>2 DEF MemTypes
    <2>4. RowsInv'
      <3>1. \A m \in memories : m.id \in Nat /\ m.id < nextId
        BY <1>r DEF MemInv, RowsInv
      <3>2. \A m \in memories' : m \in memories \/ m = row
        OBVIOUS
      <3>3. \A m, n \in memories : m.id = n.id => m.access = n.access /\ m.agent = n.agent
        BY DEF MemInv, RowsInv
      <3>4. \A m \in memories' : m.id < nextId'
        BY <2>2, <3>1, <3>2
      <3>5. \A m, n \in memories' : m.id = n.id => m.access = n.access /\ m.agent = n.agent
        BY <2>2, <3>1, <3>2, <3>3
      <3> QED BY <3>4, <3>5 DEF RowsInv
    <2>pc. \A d \in MemCalls : memPc'[d] = IF d = c THEN "stored" ELSE memPc[d]
      BY <1>t DEF MemTypes
    <2>w. \A d \in MemCalls \ {c} : wanted'[d] = wanted[d]
      BY <1>t DEF MemTypes
    <2>5. ASSUME NEW d \in MemCalls PROVE StoreInv(d)'
      <3>1. kept'[d] = (kept[d] \/ (memPc[d] \in {"embed", "insert"} /\ wanted[d].fact = wanted[c].fact))
        OBVIOUS
      <3>2. CASE d = c
        <4>1. kept'[c] /\ memPc'[c] = "stored"
          BY <2>pc, <3>1, <3>2
        <4> QED BY ONLY <3>2, <4>1 DEF StoreInv
      <3>3. CASE d # c
        <4>1. memPc'[d] = memPc[d] /\ wanted'[d] = wanted[d]
          BY <2>pc, <2>w, <3>3
        <4>2. StoreInv(d)
          BY <1>t
        <4>3. \A m \in memories' : m \in memories \/ m.fact = wanted[c].fact
          BY <2>2
        <4> QED BY <3>1, <4>1, <4>2, <4>3 DEF StoreInv
      <3> QED BY <3>2, <3>3
    <2>6. ASSUME NEW d \in MemCalls PROVE RetrieveInv(d)'
      <3>1. RetrieveInv(d) /\ found[d] \in SUBSET Nat
        BY <1>t DEF MemTypes
      <3>2. \A i \in found[d] : i \in Nat /\ i < nextId
        BY <3>1 DEF RetrieveInv
      <3>3. \A m \in memories' : m.id \in found[d] => m \in memories
        BY <2>2, <3>2
      <3>4. \A i \in found[d] : i < nextId'
        BY <2>2, <3>2
      <3>5. memPc'[d] \in {"vector", "load"} <=> memPc[d] \in {"vector", "load"}
        BY <2>pc
      <3>6. memPc'[d] \in {"load", "listed"} <=> memPc[d] \in {"load", "listed"}
        BY <2>pc
      <3>7. found'[d] = found[d] /\ loaded'[d] = loaded[d] /\ asker'[d] = asker[d]
        OBVIOUS
      <3>8. memPc'[d] = "listed" <=> memPc[d] = "listed"
        BY <2>pc
      <3> QED BY <3>1, <3>3, <3>4, <3>5, <3>6, <3>7, <3>8 DEF RetrieveInv
    <2> QED BY <2>3, <2>4, <2>5, <2>6 DEF MemInv
  <1>m. ASSUME NEW m \in memories
        PROVE  /\ [m EXCEPT !.age = 0] \in MemRow
               /\ \A n \in {m, [m EXCEPT !.age = 0]} :
                    n.id = m.id /\ n.fact = m.fact /\ n.agent = m.agent /\ n.access = m.access
    <2>1. PICK k \in MemRow : k = m
      BY <1>r
    <2>2. [k EXCEPT !.age = 0] \in MemRow
      BY DEF MemRow
    <2>3. \A n \in {k, [k EXCEPT !.age = 0]} :
            n.id = k.id /\ n.fact = k.fact /\ n.agent = k.agent /\ n.access = k.access
      BY DEF MemRow
    <2> QED BY <2>1, <2>2, <2>3
  <1>8. ASSUME NEW c \in MemCalls, NEW id \in MemoryId, LoadMemory(c, id) PROVE MemInv'
    <2> USE <1>8 DEF LoadMemory
    <2>1. \A m \in memories' : \E n \in memories : m \in {n, [n EXCEPT !.age = 0]}
      OBVIOUS
    <2>2. memories' \subseteq MemRow
      BY <1>r, <1>m, <2>1
    <2>3. \A m \in memories' : \E n \in memories :
            m.id = n.id /\ m.fact = n.fact /\ m.agent = n.agent /\ m.access = n.access
      BY <1>m, <2>1
    <2>4. found' \in [MemCalls -> SUBSET Nat] /\ \A d \in MemCalls : found'[d] \subseteq found[d]
      BY <1>t DEF MemTypes
    <2> DEFINE read == {[id |-> id, agent |-> m.agent, access |-> m.access, age |-> 0,
                         ageBefore |-> m.age] : m \in {n \in memories : n.id = id}}
    <2>5. loaded' = [loaded EXCEPT ![c] = @ \cup read]
      OBVIOUS
    <2>6. read \subseteq [id : Nat, agent : Callers, access : AccessPolicy, age : Nat,
                          ageBefore : Nat]
      BY <1>r DEF MemoryId
    <2>7. \A l \in read : Sees(asker[c], l)
      <3>1. \A m \in memories : m.id = id => Sees(asker[c], m)
        BY <1>t DEF RetrieveInv
      <3> QED BY <3>1 DEF Sees
    <2> HIDE DEF read
    <2>8. /\ loaded' \in [MemCalls -> SUBSET [id : Nat, agent : Callers, access : AccessPolicy,
                                              age : Nat, ageBefore : Nat]]
          /\ \A d \in MemCalls \ {c} : loaded'[d] = loaded[d]
          /\ loaded'[c] = loaded[c] \cup read
      BY <1>t, <2>5, <2>6 DEF MemTypes
    <2>9. /\ \A d \in MemCalls : memPc[d] # "load" => loaded'[d] = loaded[d]
          /\ \A d \in MemCalls : \A l \in loaded'[d] : l \in loaded[d] \/ Sees(asker[d], l)
      BY <2>7, <2>8
    <2>10. UNCHANGED <<nextId, memPc, wanted, embedding, asker, kept>>
      OBVIOUS
    <2> QED BY <2>2, <2>3, <2>4, <2>8, <2>9, <2>10, RowsChange
  <1>9. ASSUME NEW rows, Becomes(rows), rows \subseteq MemRow,
               \A m \in rows : \E n \in memories :
                 m.id = n.id /\ m.fact = n.fact /\ m.agent = n.agent /\ m.access = n.access
        PROVE  MemInv'
    <2>1. /\ found \in [MemCalls -> SUBSET Nat]
          /\ loaded \in [MemCalls -> SUBSET [id : Nat, agent : Callers, access : AccessPolicy,
                                             age : Nat, ageBefore : Nat]]
      BY <1>t DEF MemTypes
    <2>2. UNCHANGED <<nextId, memPc, wanted, embedding, asker, found, loaded, kept>> /\ memories' = rows
      BY <1>9 DEF Becomes
    <2>3. memories' \subseteq MemRow /\ \A m \in memories' : \E n \in memories :
            m.id = n.id /\ m.fact = n.fact /\ m.agent = n.agent /\ m.access = n.access
      BY <1>9, <2>2
    <2> QED BY ONLY MemInv, <2>1, <2>2, <2>3, RowsChange
  <1> DEFINE Same(m, n) ==
        m \in MemRow /\ m.id = n.id /\ m.fact = n.fact /\ m.agent = n.agent /\ m.access = n.access
  <1>9a. ASSUME NEW rows, Becomes(rows), \A m \in rows : \E n \in memories : Same(m, n)
         PROVE  MemInv'
    BY ONLY <1>9, <1>9a
  <1>s. memories \subseteq MemRow
    BY <1>t DEF MemTypes
  <1>10. ASSUME NEW id \in MemoryId, Manage(id) \/ Touch(id) PROVE MemInv'
    <2>1. CASE Pin(id)
      <3> DEFINE rows == {IF m.id = id THEN [m EXCEPT !.type = "pinned", !.importance = 10] ELSE m :
                           m \in memories}
      <3>1. ASSUME NEW m \in MemRow
            PROVE  Same(m, m) /\ Same([m EXCEPT !.type = "pinned", !.importance = 10], m)
        BY DEF MemRow, MemoryType
      <3> HIDE DEF Same
      <3>2. \A m \in rows : \E n \in memories : Same(m, n)
        BY ONLY <1>s, <3>1
      <3>3. Becomes(rows)
        BY <2>1 DEF Pin
      <3> HIDE DEF rows
      <3> QED BY <1>9a, <3>2, <3>3
    <2>2. CASE Unpin(id)
      <3> DEFINE rows == {IF m.id = id /\ m.type = "pinned" THEN [m EXCEPT !.type = "semantic"] ELSE m :
                           m \in memories}
      <3>1. ASSUME NEW m \in MemRow
            PROVE  Same(m, m) /\ Same([m EXCEPT !.type = "semantic"], m)
        BY DEF MemRow, MemoryType
      <3> HIDE DEF Same
      <3>2. \A m \in rows : \E n \in memories : Same(m, n)
        BY ONLY <1>s, <3>1
      <3>3. Becomes(rows)
        BY <2>2 DEF Unpin
      <3> HIDE DEF rows
      <3> QED BY <1>9a, <3>2, <3>3
    <2>3. CASE Delete(id)
      <3> DEFINE rows == {m \in memories : m.id # id}
      <3>2. \A m \in rows : \E n \in memories : Same(m, n)
        BY <1>r
      <3>3. Becomes(rows)
        BY <2>3 DEF Delete
      <3> HIDE DEF rows, Same
      <3> QED BY <1>9a, <3>2, <3>3
    <2>4. CASE Touch(id)
      <3> DEFINE rows == {IF m.id = id THEN [m EXCEPT !.age = 0] ELSE m : m \in memories}
      <3>1. ASSUME NEW m \in MemRow
            PROVE  Same(m, m) /\ Same([m EXCEPT !.age = 0], m)
        BY DEF MemRow
      <3> HIDE DEF Same
      <3>2. \A m \in rows : \E n \in memories : Same(m, n)
        BY ONLY <1>s, <3>1
      <3>3. Becomes(rows)
        BY <2>4 DEF Touch
      <3> HIDE DEF rows
      <3> QED BY <1>9a, <3>2, <3>3
    <2> QED BY <1>10, <2>1, <2>2, <2>3, <2>4 DEF Manage
  <1>11. ASSUME DecayImportance PROVE MemInv'
    <2> DEFINE rows == {IF m.type = "pinned" THEN m
                        ELSE [m EXCEPT !.importance = Decayed(m.importance, m.age)] : m \in memories}
    <2>1. ASSUME NEW m \in MemRow
          PROVE  Same(m, m) /\ Same([m EXCEPT !.importance = Decayed(m.importance, m.age)], m)
      <3>1. ASSUME NEW i \in Nat, NEW a \in Nat PROVE Decayed(i, a) \in Nat
        BY DEF Decayed
      <3>2. Decayed(m.importance, m.age) \in Nat
        BY <3>1 DEF MemRow
      <3> QED BY <3>2 DEF MemRow
    <2> HIDE DEF Same
    <2>2. \A m \in rows : \E n \in memories : Same(m, n)
      BY ONLY <1>s, <2>1
    <2>3. Becomes(rows)
      BY <1>11 DEF DecayImportance
    <2> HIDE DEF rows
    <2> QED BY <1>9a, <2>2, <2>3
  <1>12. ASSUME MonthPasses PROVE MemInv'
    <2> DEFINE rows == {[m EXCEPT !.age = IF @ = 2 THEN 2 ELSE @ + 1] : m \in memories}
    <2>1. ASSUME NEW m \in MemRow
          PROVE  Same([m EXCEPT !.age = IF @ = 2 THEN 2 ELSE @ + 1], m)
      BY DEF MemRow
    <2> HIDE DEF Same
    <2>2. \A m \in rows : \E n \in memories : Same(m, n)
      BY ONLY <1>s, <2>1
    <2>3. Becomes(rows)
      BY <1>12 DEF MonthPasses
    <2> HIDE DEF rows
    <2> QED BY <1>9a, <2>2, <2>3
  <1>13. CASE UNCHANGED memVars
    <2>1. RowsInv' /\ MemTypes'
      BY <1>13 DEF memVars, MemInv, MemTypes, RowsInv
    <2>2. \A c \in MemCalls : StoreInv(c)' /\ RetrieveInv(c)'
      BY <1>13, <1>t DEF memVars, StoreInv, RetrieveInv
    <2> QED BY <2>1, <2>2 DEF MemInv
  <1>14. ASSUME NEW c \in MemCalls, InsertMemory(c) PROVE MemInv'
    <2>1. CASE RowsOf(wanted[c].fact) # {} /\ UNCHANGED <<memories, nextId, kept>>
      BY <1>3, <1>14, <2>1
    <2>2. CASE ~(RowsOf(wanted[c].fact) # {} /\ UNCHANGED <<memories, nextId, kept>>)
      <3>1. PICK row :
              row = [id |-> nextId, fact |-> wanted[c].fact, type |-> wanted[c].type,
                     agent |-> wanted[c].agent, access |-> wanted[c].access,
                     importance |-> wanted[c].importance, embedded |-> embedding[c], age |-> 0]
        OBVIOUS
      <3>2. /\ RowsOf(wanted[c].fact) = {} /\ nextId \in MemoryId
            /\ memories' = memories \cup {row} /\ nextId' = nextId + 1
            /\ kept' = [d \in MemCalls |->
                 kept[d] \/ (memPc[d] \in {"embed", "insert"} /\ wanted[d].fact = wanted[c].fact)]
        BY <1>14, <2>2, <3>1 DEF InsertMemory
      <3> QED BY <1>7, <1>14, <3>1, <3>2
    <2> QED BY <2>1, <2>2
  <1>15. ASSUME NEW c \in MemCalls, ListMemories(c) PROVE MemInv'
    <2> USE <1>15 DEF ListMemories
    <2>1. PICK page \in SUBSET memories :
            loaded' = [loaded EXCEPT ![c] =
              {[id |-> m.id, agent |-> m.agent, access |-> m.access, age |-> m.age,
                ageBefore |-> m.age] : m \in page}]
      OBVIOUS
    <2> DEFINE shown == {[id |-> m.id, agent |-> m.agent, access |-> m.access, age |-> m.age,
                          ageBefore |-> m.age] : m \in page}
    <2>2. shown \subseteq [id : Nat, agent : Callers, access : AccessPolicy, age : Nat,
                          ageBefore : Nat]
      BY <1>r
    <2>3. loaded' = [loaded EXCEPT ![c] = shown]
      BY <2>1
    <2> HIDE DEF shown
    <2>4. MemTypes'
      BY <1>t, <2>2, <2>3 DEF MemTypes, Callers
    <2>5. memPc'[c] = "listed" /\ asker'[c] = Dashboard
      BY <1>t DEF MemTypes
    <2>6. StoreInv(c)' /\ RetrieveInv(c)'
      <3>1. found[c] = {}
        BY <1>t DEF RetrieveInv
      <3> QED BY <2>5, <3>1 DEF StoreInv, RetrieveInv
    <2>7. \A d \in MemCalls \ {c} :
            memPc'[d] = memPc[d] /\ loaded'[d] = loaded[d] /\ asker'[d] = asker[d]
      BY <1>t, <2>3 DEF MemTypes
    <2>8. UNCHANGED <<memories, nextId, wanted, found, kept>>
      OBVIOUS
    <2> QED BY <2>4, <2>6, <2>7, <2>8, CallMoves
  <1> QED
    BY <1>1, <1>2, <1>4, <1>5, <1>6, <1>8, <1>10, <1>11, <1>12, <1>13, <1>14, <1>15
    DEF MemNext, WriteMemory, LearnFact, CreateMemory, StorePrivate

(* The store's promises (MemoryPromises), for any number of overlapping    *)
(* calls, facts and agents: a fact that was given to store was in the      *)
(* table at some time during the call, and no search shows a caller the    *)
(* private memory of another, whatever happens between a search and the    *)
(* loads; the list, which applies no policy, is the dashboard's alone.     *)
THEOREM MemoryKeepsItsPromises == MemSpec => []MemoryPromises
  <1>1. MemInv => MemoryPromises
    BY DEF MemInv, StoreInv, RetrieveInv, Sees, MemoryPromises, LearntFactKept,
           PrivateStaysPrivate
  <1> QED BY MemInitInv, MemStepInv, <1>1, PTL DEF MemSpec

(* MemoryStore: the types, and the unique index.                           *)

ShownRow == [id : MemoryId, agent : Callers, access : AccessPolicy, age : Age, ageBefore : Age]

MemTableInv ==
  /\ memories \subseteq Memory
  /\ \A m, n \in memories : m.id = n.id \/ m.fact = n.fact => m = n
  /\ nextId \in 1 .. MaxMemories + 1
  /\ months \in 0 .. MaxMonths /\ decays \in 0 .. MaxMonths
  /\ found \in [MemCalls -> SUBSET MemoryId]
  /\ loaded \in [MemCalls -> SUBSET ShownRow]

(* An UPDATE changes neither id nor content, and so makes no two rows of   *)
(* one.                                                                    *)
LEMMA MemRowsUpdated ==
  ASSUME MemTableInv, NEW F \in [Memory -> Memory],
         \A m \in Memory : F[m].id = m.id /\ F[m].fact = m.fact,
         memories' = {F[m] : m \in memories}
  PROVE  /\ memories' \subseteq Memory
         /\ \A m, n \in memories' : m.id = n.id \/ m.fact = n.fact => m = n
  BY DEF MemTableInv

LEMMA DecayedInRange ==
  ASSUME NEW i \in Importance, NEW a \in Age PROVE Decayed(i, a) \in Importance
  <1>1. /\ (i * 6) \div 10 \in 0 .. 10 /\ (i * 8) \div 10 \in 0 .. 10
        /\ i \in 1 .. 10
    BY DEF Importance
  <1> QED BY <1>1 DEF Decayed, Importance

(* A step of the table alone, by which rows change or go. *)
LEMMA MemTableChanges ==
  ASSUME MemTableInv, NEW rows, Becomes(rows), rows \subseteq Memory,
         \A m, n \in rows : m.id = n.id \/ m.fact = n.fact => m = n,
         months' \in 0 .. MaxMonths, decays' \in 0 .. MaxMonths
  PROVE  MemTableInv'
  BY DEF MemTableInv, Becomes, ShownRow, MemoryId, Callers, AccessPolicy, Age

LEMMA UpdateKeepsRows ==
  ASSUME MemTableInv, NEW F \in [Memory -> Memory],
         \A m \in Memory : F[m].id = m.id /\ F[m].fact = m.fact,
         Becomes({F[m] : m \in memories}),
         months' \in 0 .. MaxMonths, decays' \in 0 .. MaxMonths
  PROVE  MemTableInv'
  <1> DEFINE rows == {F[m] : m \in memories}
  <1>1. rows \subseteq Memory /\ \A m, n \in rows : m.id = n.id \/ m.fact = n.fact => m = n
    BY DEF MemTableInv
  <1>2. Becomes(rows)
    OBVIOUS
  <1> HIDE DEF rows
  <1> QED BY <1>1, <1>2, MemTableChanges

LEMMA MemTableStep == MemInv /\ MemTableInv /\ [MemNext]_memVars => MemTableInv'
  <1> SUFFICES ASSUME MemInv, MemTableInv, [MemNext]_memVars PROVE MemTableInv'
    OBVIOUS
  <1> USE MemoryStoreAssumption
  <1>t. /\ memories \subseteq Memory /\ nextId \in 1 .. MaxMemories + 1
        /\ \A m, n \in memories : m.id = n.id \/ m.fact = n.fact => m = n
        /\ months \in 0 .. MaxMonths /\ decays \in 0 .. MaxMonths
        /\ found \in [MemCalls -> SUBSET MemoryId]
        /\ loaded \in [MemCalls -> SUBSET ShownRow]
    BY DEF MemTableInv
  <1> DEFINE Rest == UNCHANGED <<memories, nextId, months, decays>>
             Held == /\ found' \in [MemCalls -> SUBSET MemoryId]
                     /\ loaded' \in [MemCalls -> SUBSET ShownRow]
  <1>r. ASSUME Rest, Held PROVE MemTableInv'
    BY <1>t, <1>r DEF MemTableInv, ShownRow, Memory, MemoryId, Callers, AccessPolicy, Age
  <1>1. ASSUME NEW c \in MemCalls, NEW new \in NewMemories, BeginStore(c, new) PROVE MemTableInv'
    BY <1>t, <1>1, <1>r DEF BeginStore
  <1>2. ASSUME NEW c \in MemCalls, NEW ok \in BOOLEAN, Embed(c, ok) PROVE MemTableInv'
    BY <1>t, <1>2, <1>r DEF Embed
  <1>3. ASSUME NEW c \in MemCalls, InsertMemory(c) PROVE MemTableInv'
    <2>1. Held /\ UNCHANGED <<months, decays>>
      BY <1>t, <1>3 DEF InsertMemory
    <2>2. CASE UNCHANGED <<memories, nextId>>
      BY <2>1, <2>2, <1>r
    <2>3. ASSUME RowsOf(wanted[c].fact) = {}, nextId \in MemoryId, nextId' = nextId + 1,
                 NEW row, memories' = memories \cup {row}, row \in Memory,
                 row.id = nextId, row.fact = wanted[c].fact
          PROVE  MemTableInv'
      <3>1. memories' \subseteq Memory
        BY <1>t, <2>3
      <3>2. \A m \in memories : m.id < nextId /\ m.id \in Nat
        BY <1>t DEF MemInv, RowsInv, Memory, MemoryId
      <3>3. \A m \in memories : m.id # row.id /\ m.fact # row.fact
        BY <2>3, <3>2 DEF RowsOf, MemoryId
      <3>4. \A m, n \in memories' : m.id = n.id \/ m.fact = n.fact => m = n
        BY <1>t, <2>3, <3>3
      <3>5. nextId' \in 1 .. MaxMemories + 1
        BY <2>3 DEF MemoryId
      <3> QED BY <1>t, <2>1, <3>1, <3>4, <3>5 DEF MemTableInv, ShownRow, MemoryId
    <2>4. ASSUME RowsOf(wanted[c].fact) = {}, nextId \in MemoryId, nextId' = nextId + 1,
                 memories' = memories \cup
                   {[id |-> nextId, fact |-> wanted[c].fact, type |-> wanted[c].type,
                     agent |-> wanted[c].agent, access |-> wanted[c].access,
                     importance |-> wanted[c].importance, embedded |-> embedding[c], age |-> 0]}
          PROVE  MemTableInv'
      <3>1. wanted[c] \in NewMemory /\ embedding[c] \in BOOLEAN
        BY <1>3 DEF MemInv, StoreInv, MemTypes, InsertMemory
      <3>2. [id |-> nextId, fact |-> wanted[c].fact, type |-> wanted[c].type,
             agent |-> wanted[c].agent, access |-> wanted[c].access,
             importance |-> wanted[c].importance, embedded |-> embedding[c], age |-> 0] \in Memory
        BY <2>4, <3>1 DEF Memory, NewMemory, Age
      <3> QED BY <2>3, <2>4, <3>2
    <2> QED BY <1>3, <2>2, <2>4 DEF InsertMemory
  <1>4. ASSUME NEW c \in MemCalls, NEW who \in Callers, TextSearch(c, who) PROVE MemTableInv'
    <2>1. PICK hits \in SUBSET Relevant(who) : found' = [found EXCEPT ![c] = Ids(hits)]
      BY <1>4 DEF TextSearch
    <2>2. Ids(hits) \subseteq MemoryId
      BY <1>t DEF Relevant, AskedFor, Ids, Memory
    <2> QED BY <1>t, <1>4, <2>1, <2>2, <1>r DEF TextSearch
  <1>5. ASSUME NEW c \in MemCalls, VectorSearch(c) PROVE MemTableInv'
    <2>1. PICK similar \in {{}, Ids({m \in Relevant(asker[c]) : m.embedded})} :
            \E best \in Merged(found[c] \cup similar) : found' = [found EXCEPT ![c] = best]
      BY <1>5 DEF VectorSearch
    <2>2. PICK best \in Merged(found[c] \cup similar) : found' = [found EXCEPT ![c] = best]
      BY <2>1
    <2>3. similar \subseteq MemoryId
      BY <1>t, <2>1 DEF Relevant, AskedFor, Ids, Memory
    <2>4. best \subseteq MemoryId
      BY <1>t, <2>2, <2>3 DEF Merged
    <2> QED BY <1>t, <1>5, <2>2, <2>4, <1>r DEF VectorSearch
  <1> DEFINE Young == [m \in Memory |-> [m EXCEPT !.age = 0]]
  <1>y. /\ Young \in [Memory -> Memory]
        /\ \A m \in Memory : Young[m].id = m.id /\ Young[m].fact = m.fact
    BY DEF Memory, Age
  <1>6. ASSUME NEW c \in MemCalls, NEW i \in MemoryId, LoadMemory(c, i) PROVE MemTableInv'
    <2> DEFINE F == [m \in Memory |-> IF m.id = i THEN [m EXCEPT !.age = 0] ELSE m]
               read == {[id |-> i, agent |-> m.agent, access |-> m.access, age |-> 0,
                         ageBefore |-> m.age] : m \in {n \in memories : n.id = i}}
    <2>1. F \in [Memory -> Memory] /\ \A m \in Memory : F[m].id = m.id /\ F[m].fact = m.fact
      BY <1>y
    <2>2. memories' = {F[m] : m \in memories}
      BY <1>t, <1>6 DEF LoadMemory
    <2>3. read \subseteq ShownRow
      BY <1>t DEF Memory, ShownRow, Age
    <2>4. found' = [found EXCEPT ![c] = @ \ {i}] /\ loaded' = [loaded EXCEPT ![c] = @ \cup read]
          /\ UNCHANGED <<nextId, months, decays>>
      BY <1>6 DEF LoadMemory
    <2> HIDE DEF F, read
    <2>5. Held
      BY <1>t, <2>3, <2>4
    <2>6. /\ memories' \subseteq Memory
          /\ \A m, n \in memories' : m.id = n.id \/ m.fact = n.fact => m = n
      BY <2>1, <2>2, MemRowsUpdated
    <2> QED BY <1>t, <2>4, <2>5, <2>6 DEF MemTableInv, ShownRow, MemoryId
  <1>7. ASSUME NEW c \in MemCalls, EndCall(c) PROVE MemTableInv'
    BY <1>t, <1>7, <1>r DEF EndCall
  <1>8. ASSUME NEW i \in MemoryId, Manage(i) \/ Touch(i) PROVE MemTableInv'
    <2>0. months' \in 0 .. MaxMonths /\ decays' \in 0 .. MaxMonths
      BY <1>t, <1>8 DEF Manage, Touch, Pin, Unpin, Delete
    <2>1. CASE Pin(i)
      <3> DEFINE F == [m \in Memory |->
                         IF m.id = i THEN [m EXCEPT !.type = "pinned", !.importance = 10] ELSE m]
      <3>1. F \in [Memory -> Memory] /\ \A m \in Memory : F[m].id = m.id /\ F[m].fact = m.fact
        <4>1. 10 \in Importance /\ "pinned" \in MemoryType
          BY DEF Importance, MemoryType
        <4>2. ASSUME NEW m \in Memory
              PROVE  LET p == [m EXCEPT !.type = "pinned", !.importance = 10]
                     IN p \in Memory /\ p.id = m.id /\ p.fact = m.fact
          BY <4>1 DEF Memory
        <4> QED BY <4>2
      <3>2. Becomes({F[m] : m \in memories})
        <4>1. {F[m] : m \in memories} =
                {IF m.id = i THEN [m EXCEPT !.type = "pinned", !.importance = 10] ELSE m :
                   m \in memories}
          BY <1>t
        <4> QED BY <2>1, <4>1 DEF Pin
      <3> HIDE DEF F
      <3> QED BY <2>0, <3>1, <3>2, UpdateKeepsRows
    <2>2. CASE Unpin(i)
      <3> DEFINE F == [m \in Memory |->
                         IF m.id = i /\ m.type = "pinned" THEN [m EXCEPT !.type = "semantic"] ELSE m]
      <3>1. F \in [Memory -> Memory] /\ \A m \in Memory : F[m].id = m.id /\ F[m].fact = m.fact
        BY DEF Memory, MemoryType
      <3>2. Becomes({F[m] : m \in memories})
        <4>1. {F[m] : m \in memories} =
                {IF m.id = i /\ m.type = "pinned" THEN [m EXCEPT !.type = "semantic"] ELSE m :
                   m \in memories}
          BY <1>t
        <4> QED BY <2>2, <4>1 DEF Unpin
      <3> HIDE DEF F
      <3> QED BY <2>0, <3>1, <3>2, UpdateKeepsRows
    <2>3. CASE Delete(i)
      <3> DEFINE rows == {m \in memories : m.id # i}
      <3>1. Becomes(rows) /\ rows \subseteq memories
        BY <2>3 DEF Delete
      <3> HIDE DEF rows
      <3> QED BY <1>t, <2>0, <3>1, MemTableChanges
    <2>4. CASE Touch(i)
      <3> DEFINE F == [m \in Memory |-> IF m.id = i THEN [m EXCEPT !.age = 0] ELSE m]
      <3>1. F \in [Memory -> Memory] /\ \A m \in Memory : F[m].id = m.id /\ F[m].fact = m.fact
        BY <1>y
      <3>2. Becomes({F[m] : m \in memories})
        <4>1. {F[m] : m \in memories} =
                {IF m.id = i THEN [m EXCEPT !.age = 0] ELSE m : m \in memories}
          BY <1>t
        <4> QED BY <2>4, <4>1 DEF Touch
      <3> HIDE DEF F
      <3> QED BY <2>0, <3>1, <3>2, UpdateKeepsRows
    <2> QED BY <1>8, <2>1, <2>2, <2>3, <2>4 DEF Manage
  <1>9. CASE DecayImportance
    <2> DEFINE F == [m \in Memory |->
                       IF m.type = "pinned" THEN m
                       ELSE [m EXCEPT !.importance = Decayed(m.importance, m.age)]]
    <2>1. F \in [Memory -> Memory] /\ \A m \in Memory : F[m].id = m.id /\ F[m].fact = m.fact
      <3>1. ASSUME NEW m \in Memory PROVE Decayed(m.importance, m.age) \in Importance
        BY DecayedInRange DEF Memory
      <3> QED BY <3>1 DEF Memory
    <2>2. Becomes({F[m] : m \in memories})
      <3>1. {F[m] : m \in memories} =
              {IF m.type = "pinned" THEN m
               ELSE [m EXCEPT !.importance = Decayed(m.importance, m.age)] : m \in memories}
        BY <1>t
      <3> QED BY <1>9, <3>1 DEF DecayImportance
    <2>3. months' \in 0 .. MaxMonths /\ decays' \in 0 .. MaxMonths
      BY <1>t, <1>9 DEF DecayImportance
    <2> HIDE DEF F
    <2> QED BY <2>1, <2>2, <2>3, UpdateKeepsRows
  <1>10. CASE MonthPasses
    <2> DEFINE F == [m \in Memory |-> [m EXCEPT !.age = IF @ = 2 THEN 2 ELSE @ + 1]]
    <2>1. F \in [Memory -> Memory] /\ \A m \in Memory : F[m].id = m.id /\ F[m].fact = m.fact
      BY DEF Memory, Age
    <2>2. Becomes({F[m] : m \in memories})
      <3>1. {F[m] : m \in memories} =
              {[m EXCEPT !.age = IF @ = 2 THEN 2 ELSE @ + 1] : m \in memories}
        BY <1>t
      <3> QED BY <1>10, <3>1 DEF MonthPasses
    <2>3. months' \in 0 .. MaxMonths /\ decays' \in 0 .. MaxMonths
      BY <1>t, <1>10 DEF MonthPasses
    <2> HIDE DEF F
    <2> QED BY <2>1, <2>2, <2>3, UpdateKeepsRows
  <1>11. CASE UNCHANGED memVars
    BY <1>t, <1>11, <1>r DEF memVars
  <1>12. ASSUME NEW c \in MemCalls, ListMemories(c) PROVE MemTableInv'
    <2>1. PICK page \in SUBSET memories :
            loaded' = [loaded EXCEPT ![c] =
              {[id |-> m.id, agent |-> m.agent, access |-> m.access, age |-> m.age,
                ageBefore |-> m.age] : m \in page}]
      BY <1>12 DEF ListMemories
    <2> DEFINE shown == {[id |-> m.id, agent |-> m.agent, access |-> m.access, age |-> m.age,
                          ageBefore |-> m.age] : m \in page}
    <2>2. shown \subseteq ShownRow
      BY <1>t DEF Memory, ShownRow
    <2>3. loaded' = [loaded EXCEPT ![c] = shown]
      BY <2>1
    <2> HIDE DEF shown
    <2> QED BY <1>t, <1>12, <2>2, <2>3, <1>r DEF ListMemories
  <1> QED
    BY <1>1, <1>2, <1>3, <1>4, <1>5, <1>6, <1>7, <1>8, <1>9, <1>10, <1>11, <1>12
    DEF MemNext, WriteMemory, LearnFact, CreateMemory, StorePrivate

(* The types, and that no two rows have an id or a content in common,      *)
(* although every call looks for the duplicate long before it inserts      *)
(* (MemTypeOK).                                                            *)
THEOREM MemoryTypeCorrect == MemSpec => []MemTypeOK
  <1>1. MemInit => MemTableInv
    BY MemoryStoreAssumption DEF MemInit, MemTableInv, ShownRow
  <1>2. MemInv /\ MemTableInv => MemTypeOK
    BY DEF MemInv, MemTypes, RowsInv, MemTableInv, MemTypeOK, ShownRow
  <1>3. MemSpec => []MemInv
    BY MemInitInv, MemStepInv, PTL DEF MemSpec
  <1> QED BY <1>1, <1>2, <1>3, MemTableStep, PTL DEF MemSpec

-----------------------------------------------------------------------------
(* AuditLog: what a chain that verifies says, for any writers, any number *)
(* of events, any interleaving, failures and crashes.                      *)

(* What log_event holds between its two statements is a real event. *)
EventHeld == \A w \in Writers : pc[w] # "idle" => event[w].id \in Id

(* A MAC is only ever computed for an event that is being logged. *)
Sealed(i) == \E e \in returned : e.id = log[i].mac.id /\ e.outcome = log[i].mac.outcome
RowsSealed == \A i \in DOMAIN log : Sealed(i)

(* Nothing changes an identifier or a MAC that was stored. *)
OwnMac == \A i \in DOMAIN log : log[i].mac.id = log[i].id

LogInv == LogTypeOK /\ EventHeld /\ RowsSealed /\ OwnMac

(* What an UPDATE of one row does to the table, identifier and MAC left    *)
(* alone.                                                                  *)
LEMMA RowAltered ==
  ASSUME log \in Seq(Row), NEW i \in DOMAIN log, NEW o \in Outcome, NEW d \in Details,
         \/ log' = [log EXCEPT ![i].outcome = o]
         \/ log' = [log EXCEPT ![i].details = d]
  PROVE  /\ log' \in Seq(Row)
         /\ DOMAIN log' = DOMAIN log
         /\ \A j \in DOMAIN log : log'[j].id = log[j].id /\ log'[j].mac = log[j].mac
  <1>1. DOMAIN log = 1 .. Len(log) /\ \A j \in DOMAIN log : log[j] \in Row
    OBVIOUS
  <1>2. DOMAIN log' = DOMAIN log
    OBVIOUS
  <1>3. [log[i] EXCEPT !.outcome = o] \in Row /\ [log[i] EXCEPT !.details = d] \in Row
    BY <1>1 DEF Row
  <1>4. \A j \in DOMAIN log : log'[j] \in Row
    BY <1>1, <1>3
  <1>5. \A j \in DOMAIN log : log'[j].id = log[j].id /\ log'[j].mac = log[j].mac
    BY <1>1 DEF Row
  <1>6. log' \in [1 .. Len(log) -> Row]
    BY <1>1, <1>2, <1>4
  <1> QED BY <1>2, <1>5, <1>6, Len(log) \in Nat, <1>1

(* The row that Insert adds is well typed. *)
LEMMA NewRowTyped ==
  ASSUME LogInv, NEW w \in Writers, pc[w] = "insert"
  PROVE  /\ NewRow(w) \in Row
         /\ NewRow(w).id = event[w].id
         /\ NewRow(w).mac.id = event[w].id
         /\ NewRow(w).mac.outcome = event[w].outcome
         /\ event[w] \in Event
  <1>1. event[w] \in Event /\ event[w].id \in Id
    BY DEF LogInv, LogTypeOK, EventHeld
  <1>2. tail[w] \in Id \cup {Genesis}
    <2>1. \A i \in DOMAIN log : log[i] \in Row
      BY DEF LogInv, LogTypeOK
    <2> QED BY <2>1 DEF LogInv, LogTypeOK, Stored, Row
  <1> QED BY <1>1, <1>2 DEF NewRow, MacOf, Row, Mac, Event

(* An empty table satisfies the invariant. *)
LEMMA LogInitInv == LogInit => LogInv
  <1> SUFFICES ASSUME LogInit PROVE LogInv
    OBVIOUS
  <1>1. LogTypeOK
    BY MaxEventsAssumption
    DEF LogInit, LogTypeOK, Event, NoEvent, Outcome, Details, Stored
  <1> QED BY <1>1 DEF LogInit, LogInv, EventHeld, RowsSealed, OwnMac

(* Every step keeps the invariant. *)
LEMMA LogNextInv == LogInv /\ [LogNext]_logVars => LogInv'
  <1> SUFFICES ASSUME LogInv, [LogNext]_logVars PROVE LogInv'
    OBVIOUS
  <1> USE DEF LogInv
  <1>1. ASSUME NEW w \in Writers, NEW o \in Outcome, Begin(w, o) PROVE LogInv'
    <2>1. begun' \in Id /\ begun' \in 0 .. MaxEvents
      BY <1>1, MaxEventsAssumption DEF Begin, LogTypeOK, Id
    <2>2. event' \in [Writers -> Event]
      BY <1>1, <2>1 DEF Begin, LogTypeOK, Event, Details, DetailsOf
    <2>3. Stored' = Stored
      BY <1>1 DEF Begin, Stored
    <2>4. LogTypeOK'
      BY <1>1, <2>1, <2>2, <2>3 DEF Begin, LogTypeOK
    <2>5. EventHeld'
      BY <1>1, <2>1 DEF Begin, LogTypeOK, EventHeld
    <2>6. RowsSealed' /\ OwnMac'
      BY <1>1 DEF Begin, RowsSealed, Sealed, OwnMac
    <2> QED BY <2>4, <2>5, <2>6
  <1>2. ASSUME NEW w \in Writers, ReadTail(w) PROVE LogInv'
    <2>1. Stored' = Stored
      BY <1>2 DEF ReadTail, Stored
    <2>2. log # <<>> => log[Len(log)].mac.id \in Stored
      <3>1. SUFFICES ASSUME log # <<>> PROVE log[Len(log)].mac.id \in Stored
        OBVIOUS
      <3>2. Len(log) \in DOMAIN log
        BY <3>1 DEF LogTypeOK
      <3> QED BY <3>2 DEF Stored, OwnMac
    <2>3. LogTypeOK'
      BY <1>2, <2>1, <2>2 DEF ReadTail, LogTypeOK
    <2>4. EventHeld' /\ RowsSealed' /\ OwnMac'
      BY <1>2 DEF ReadTail, LogTypeOK, EventHeld, RowsSealed, Sealed, OwnMac
    <2> QED BY <2>3, <2>4
  <1>3. ASSUME NEW w \in Writers, Return(w), pc[w] = "insert" PROVE EventHeld'
    BY <1>3 DEF Return, LogTypeOK, EventHeld
  <1>4. ASSUME NEW w \in Writers, Return(w)
        PROVE  /\ pc' \in [Writers -> {"idle", "read", "insert"}]
               /\ event' \in [Writers -> Event]
               /\ begun' \in 0 .. MaxEvents
               /\ returned' \subseteq Event
               /\ \A s : tail \in [Writers -> s \cup {Genesis}] =>
                           tail' \in [Writers -> s \cup {Genesis}]
    BY <1>4 DEF Return, LogTypeOK, Event, NoEvent, Outcome, Details
  <1>5. ASSUME NEW w \in Writers, Insert(w) PROVE LogInv'
    <2> DEFINE r == NewRow(w)
    <2>1. /\ pc[w] = "insert" /\ log' = Append(log, r) /\ Return(w)
          /\ r \in Row /\ r.id = event[w].id
          /\ r.mac.id = event[w].id /\ r.mac.outcome = event[w].outcome
      BY <1>5, NewRowTyped DEF Insert
    <2> HIDE DEF r
    <2>2. /\ log' \in Seq(Row)
          /\ DOMAIN log' = DOMAIN log \cup {Len(log) + 1}
          /\ \A i \in DOMAIN log : log'[i] = log[i]
          /\ log'[Len(log) + 1] = r
      BY <2>1, Appended DEF LogTypeOK
    <2>3. Stored \subseteq Stored'
      BY <2>2 DEF Stored
    <2>4. tail \in [Writers -> Stored' \cup {Genesis}]
      BY <2>3 DEF LogTypeOK
    <2>5. LogTypeOK'
      BY <1>4, <2>1, <2>2, <2>4 DEF LogTypeOK
    <2>6. returned' = returned \cup {event[w]}
      BY <2>1 DEF Return
    <2>7. RowsSealed' /\ OwnMac'
      BY <2>1, <2>2, <2>6 DEF RowsSealed, Sealed, OwnMac
    <2> QED BY <1>3, <2>1, <2>5, <2>7
  <1>6. ASSUME NEW w \in Writers, InsertFails(w) PROVE LogInv'
    <2>1. log' = log /\ Stored' = Stored /\ returned' = returned \cup {event[w]}
      BY <1>6 DEF InsertFails, Return, Stored
    <2>2. LogTypeOK'
      BY <1>4, <1>6, <2>1 DEF InsertFails, LogTypeOK
    <2>3. RowsSealed' /\ OwnMac'
      BY <2>1 DEF RowsSealed, Sealed, OwnMac
    <2> QED BY <1>3, <1>6, <2>2, <2>3 DEF InsertFails
  <1>7. CASE Crash
    <2>1. Stored' = Stored
      BY <1>7 DEF Crash, Stored
    <2>2. LogTypeOK'
      BY <1>7, <2>1 DEF Crash, LogTypeOK, Event, NoEvent, Outcome, Details
    <2> QED BY <1>7, <2>2 DEF Crash, EventHeld, RowsSealed, Sealed, OwnMac
  <1>8. ASSUME NEW i \in DOMAIN log, NEW o \in Admitted, NEW d \in Details,
               Alter(i, o) \/ AlterDetails(i, d)
        PROVE  LogInv'
    <2>1. /\ log' \in Seq(Row) /\ DOMAIN log' = DOMAIN log
          /\ \A j \in DOMAIN log : log'[j].id = log[j].id /\ log'[j].mac = log[j].mac
      BY <1>8, RowAltered DEF Alter, AlterDetails, LogTypeOK, Outcome, Admitted
    <2>2. Stored' = Stored
      BY <2>1 DEF Stored
    <2>3. LogTypeOK'
      BY <1>8, <2>1, <2>2 DEF Alter, AlterDetails, LogTypeOK
    <2> QED BY <1>8, <2>1, <2>3 DEF Alter, AlterDetails, EventHeld, RowsSealed, Sealed, OwnMac
  <1>9. CASE UNCHANGED logVars
    BY <1>9 DEF logVars, LogTypeOK, Stored, EventHeld, RowsSealed, Sealed, OwnMac
  <1>10. "success" \in Admitted /\ "none" \in Details
    BY DEF Admitted, Details
  <1> QED BY <1>1, <1>2, <1>5, <1>6, <1>7, <1>8, <1>9, <1>10 DEF LogNext

(* The inductive invariant holds of every reachable state. *)
LEMMA LogInductive == LogSpec => []LogInv
  BY LogInitInv, LogNextInv, PTL DEF LogSpec

(* Whatever fails or dies, a predecessor that was read names a stored row. *)
THEOREM LogTypeCorrect == LogSpec => []LogTypeOK
  BY LogInductive, PTL DEF LogInv

(* Each row of a table that verifies has the identifier and the outcome of *)
(* an event that was logged: an edit of a column that the MAC covers is    *)
(* always detected, however writers overlapped.                            *)
THEOREM CoveredColumnsVouched == LogSpec => []VerifiedRowsWereLogged
  <1>1. LogInv => VerifiedRowsWereLogged
    <2> SUFFICES ASSUME LogInv, Verifies(log), NEW i \in DOMAIN log
                 PROVE  \E e \in returned : e.id = log[i].id /\ e.outcome = log[i].outcome
      BY DEF VerifiedRowsWereLogged
    <2> DEFINE p == IF i = 1 THEN Genesis ELSE log[i - 1].mac.id
    <2>1. MacOf(log[i].id, log[i].outcome, p) = log[i].mac
      BY DEF Verifies, ExpectedMac
    <2> HIDE DEF p
    <2>2. log[i].mac.id = log[i].id /\ log[i].mac.outcome = log[i].outcome
      BY <2>1 DEF MacOf
    <2> QED BY <2>2 DEF LogInv, RowsSealed, Sealed
  <1> QED BY <1>1, LogInductive, PTL

(* A step that edits the details of a row. *)
DetailsUnwatched ==
  (\E i \in DOMAIN log, d \in Details : AlterDetails(i, d)) =>
    (Verifies(log') <=> Verifies(log))

(* An edit of the details is never detected: the table verifies after it   *)
(* exactly if it did before (DetailsUnwatched).                            *)
THEOREM DetailsNotCovered == LogSpec => [][DetailsUnwatched]_logVars
  <1>1. ASSUME LogInv, NEW i \in DOMAIN log, NEW d \in Details, AlterDetails(i, d)
        PROVE  Verifies(log') <=> Verifies(log)
    <2>1. /\ DOMAIN log' = DOMAIN log
          /\ \A j \in DOMAIN log : log'[j].id = log[j].id /\ log'[j].mac = log[j].mac
      BY <1>1, RowAltered, "success" \in Outcome DEF AlterDetails, LogInv, LogTypeOK, Outcome
    <2>2. \A j \in DOMAIN log : log[j] \in Row
      BY <1>1 DEF LogInv, LogTypeOK
    <2>3. \A j \in DOMAIN log : log'[j].outcome = log[j].outcome
      BY <1>1, <2>2 DEF AlterDetails, Row
    <2>4. \A j \in DOMAIN log : j # 1 => j - 1 \in DOMAIN log
      BY <1>1 DEF LogInv, LogTypeOK
    <2>5. ASSUME NEW j \in DOMAIN log PROVE ExpectedMac(log', j) = ExpectedMac(log, j)
      <3>1. CASE j = 1
        BY <2>1, <2>3, <3>1 DEF ExpectedMac
      <3>2. CASE j # 1
        BY <2>1, <2>3, <2>4, <3>2 DEF ExpectedMac
      <3> QED BY <3>1, <3>2
    <2> QED BY <2>1, <2>5 DEF Verifies
  <1>2. LogInv /\ [LogNext]_logVars => [DetailsUnwatched]_logVars
    BY <1>1 DEF DetailsUnwatched
  <1> QED BY <1>2, LogInductive, PTL DEF LogSpec

-----------------------------------------------------------------------------
(* The MAC the next row has to be chained to, and what one writer alone    *)
(* keeps true: the table verifies, and the tail it read is still the tail. *)
LastMac == IF log = <<>> THEN Genesis ELSE log[Len(log)].mac.id
TailFresh == \A w \in Writers : pc[w] = "insert" => tail[w] = LastMac

(* Appending a row that is chained to the last one keeps a table verified. *)
LEMMA ChainExtended ==
  ASSUME log \in Seq(Row), Verifies(log), NEW r \in Row, log' = Append(log, r),
         r.mac = MacOf(r.id, r.outcome, LastMac)
  PROVE  Verifies(log')
  <1>1. /\ DOMAIN log = 1 .. Len(log) /\ Len(log) \in Nat
        /\ DOMAIN log' = DOMAIN log \cup {Len(log) + 1}
        /\ \A i \in DOMAIN log : log'[i] = log[i]
        /\ log'[Len(log) + 1] = r
    BY Appended
  <1>2. ASSUME NEW i \in DOMAIN log PROVE ExpectedMac(log', i) = log'[i].mac
    <2>1. ExpectedMac(log, i) = log[i].mac
      BY DEF Verifies
    <2>2. log'[i] = log[i] /\ (i # 1 => log'[i - 1] = log[i - 1])
      BY <1>1
    <2>3. ExpectedMac(log', i) = ExpectedMac(log, i)
      <3>1. CASE i = 1
        BY <2>2, <3>1 DEF ExpectedMac
      <3>2. CASE i # 1
        BY <2>2, <3>2 DEF ExpectedMac
      <3> QED BY <3>1, <3>2
    <2> QED BY <2>1, <2>2, <2>3
  <1>3. ExpectedMac(log', Len(log) + 1) = log'[Len(log) + 1].mac
    <2>1. CASE log = <<>>
      BY <1>1, <2>1 DEF ExpectedMac, LastMac
    <2>2. CASE log # <<>>
      <3>1. Len(log) \in DOMAIN log /\ Len(log) + 1 # 1 /\ Len(log) + 1 - 1 = Len(log)
        BY <1>1, <2>2
      <3> QED BY <1>1, <2>2, <3>1 DEF ExpectedMac, LastMac
    <2> QED BY <2>1, <2>2
  <1> QED BY <1>1, <1>2, <1>3 DEF Verifies

(* With one writer, a database that answers and nobody editing rows, every *)
(* table verifies, crashes included: overlapping writers are all that      *)
(* breaks the chain.                                                       *)
THEOREM SoleWriterChain ==
  ASSUME NEW me, Writers = {me}, ~DbMayFail, ~MayAlter
  PROVE  LogSpec => []ChainIntact
  <1> DEFINE Chained == Verifies(log) /\ TailFresh
  <1>1. LogInit => Chained
    BY DEF LogInit, Verifies, TailFresh
  <1>2. LogInv /\ Chained /\ [LogNext]_logVars => Chained'
    <2> SUFFICES ASSUME LogInv, Verifies(log), TailFresh, [LogNext]_logVars PROVE Chained'
      OBVIOUS
    <2>1. ASSUME UNCHANGED log, \A w \in Writers : pc'[w] # "insert"
          PROVE  Chained'
      BY <2>1 DEF Verifies, ExpectedMac, TailFresh
    <2>2. ASSUME NEW o \in Outcome, Begin(me, o) PROVE Chained'
      BY <2>1, <2>2 DEF Begin, LogInv, LogTypeOK
    <2>3. CASE ReadTail(me)
      <3>1. log' = log /\ LastMac' = LastMac
        BY <2>3 DEF ReadTail, LastMac
      <3>2. tail'[me] = LastMac
        BY <2>3 DEF ReadTail, LastMac, LogInv, LogTypeOK
      <3> QED BY <3>1, <3>2 DEF Verifies, ExpectedMac, TailFresh
    <2>4. CASE Insert(me)
      <3>1. NewRow(me) \in Row /\ pc[me] = "insert" /\ log' = Append(log, NewRow(me))
        BY <2>4, NewRowTyped DEF Insert
      <3>2. tail[me] = LastMac
        BY <3>1 DEF TailFresh
      <3>3. NewRow(me).mac = MacOf(NewRow(me).id, NewRow(me).outcome, LastMac)
        BY <3>2 DEF NewRow
      <3>4. Verifies(log')
        BY <3>1, <3>3, ChainExtended DEF LogInv, LogTypeOK
      <3>5. \A w \in Writers : pc'[w] # "insert"
        BY <2>4 DEF Insert, Return, LogInv, LogTypeOK
      <3> QED BY <3>4, <3>5 DEF TailFresh
    <2>5. CASE InsertFails(me)
      BY <2>1, <2>5 DEF InsertFails, Return, LogInv, LogTypeOK
    <2>6. CASE Crash
      BY <2>1, <2>6 DEF Crash
    <2>7. \A i \in DOMAIN log, o \in Admitted, d \in Details :
            ~Alter(i, o) /\ ~AlterDetails(i, d)
      BY DEF Alter, AlterDetails
    <2>8. CASE UNCHANGED logVars
      BY <2>8 DEF logVars, Verifies, ExpectedMac, TailFresh, LastMac
    <2> QED BY <2>2, <2>3, <2>4, <2>5, <2>6, <2>7, <2>8, "success" \in Admitted, "none" \in Details
      DEF LogNext, Admitted, Details
  <1>3. Chained => ChainIntact
    BY DEF ChainIntact
  <1> QED BY <1>1, <1>2, <1>3, LogInductive, PTL DEF LogSpec

-----------------------------------------------------------------------------
(* CostTracker: what Sum is.                                               *)

Costed(S) == IsFiniteSet(S) /\ \A r \in S : r.cost \in Nat

(* g sums the costs of every subset of S, in some order. *)
Unrolled(S, g) ==
  g = [T \in SUBSET S |-> IF T = {} THEN 0 ELSE Some(T).cost + g[T \ {Some(T)}]]
SumOf(S) == CHOOSE g : Unrolled(S, g)

LEMMA SumUnfolds ==
  ASSUME NEW S
  PROVE  Sum(S) = SumOf(S)[S]
  BY DEF Sum, MapThenSumSet, MapThenFoldSet, SumOf, Unrolled, Some

LEMMA SumExists ==
  ASSUME NEW S, Costed(S)
  PROVE  Unrolled(S, SumOf(S)) /\ SumOf(S)[{}] = 0
  <1> DEFINE w == [r \in S |-> r.cost]
  <1>1. w \in [S -> Nat] /\ IsFiniteSet(S)
    BY DEF Costed
  <1>2. PICK g \in [SUBSET S -> Nat] : SetSums(S, Cardinality(S), w, g)
    <2> HIDE DEF w
    <2> QED BY <1>1, SetSumsExist
  <1>3. ASSUME NEW T \in SUBSET S
        PROVE  g[T] = IF T = {} THEN 0 ELSE Some(T).cost + g[T \ {Some(T)}]
    <2>1. Cardinality(T) <= Cardinality(S)
      BY <1>1, FS_Subset
    <2>2. T # {} => Some(T) \in S
      BY SomeIsIn
    <2>3. T # {} => w[Some(T)] = Some(T).cost
      BY <2>2
    <2> HIDE DEF w
    <2> QED BY <1>2, <2>1, <2>3 DEF SetSums
  <1>4. Unrolled(S, g)
    BY <1>2, <1>3 DEF Unrolled
  <1>5. Unrolled(S, SumOf(S))
    BY <1>4 DEF SumOf
  <1> QED BY <1>5 DEF Unrolled

LEMMA Unrolls ==
  ASSUME NEW S, NEW g, Unrolled(S, g), NEW T \in SUBSET S, T # {}
  PROVE  g[T] = Some(T).cost + g[T \ {Some(T)}] /\ Some(T) \in T
  BY SomeIsIn DEF Unrolled

(* The sum over a set is the same, whatever larger set it is part of. *)
LEMMA SumIsOne ==
  ASSUME NEW S, Costed(S), NEW T \in SUBSET S
  PROVE  Sum(T) = SumOf(S)[T]
  <1> DEFINE Differs == {U \in SUBSET T : SumOf(T)[U] # SumOf(S)[U]}
  <1>1. Costed(T) /\ IsFiniteSet(T)
    BY FS_Subset DEF Costed
  <1>2. /\ Unrolled(S, SumOf(S)) /\ SumOf(S)[{}] = 0
        /\ Unrolled(T, SumOf(T)) /\ SumOf(T)[{}] = 0
    BY <1>1, SumExists
  <1>3. ASSUME Differs # {} PROVE FALSE
    <2>1. Differs \in SUBSET SUBSET T
      OBVIOUS
    <2>2. PICK U \in Differs : \A x \in U : U \ {x} \notin Differs
      <3> HIDE DEF Differs
      <3> QED BY <1>1, <1>3, <2>1, LeastSubset
    <2>3. U # {} /\ U \in SUBSET T /\ U \in SUBSET S
      BY <1>2
    <2>4. /\ SumOf(S)[U] = Some(U).cost + SumOf(S)[U \ {Some(U)}]
          /\ SumOf(T)[U] = Some(U).cost + SumOf(T)[U \ {Some(U)}]
          /\ Some(U) \in U
      <3>1. Unrolled(S, SumOf(S)) /\ U \in SUBSET S
        BY <1>2, <2>3
      <3>2. Unrolled(T, SumOf(T)) /\ U \in SUBSET T
        BY <1>2, <2>3
      <3>3. SumOf(S)[U] = Some(U).cost + SumOf(S)[U \ {Some(U)}] /\ Some(U) \in U
        BY <2>3, <3>1, Unrolls
      <3>4. SumOf(T)[U] = Some(U).cost + SumOf(T)[U \ {Some(U)}]
        BY <2>3, <3>2, Unrolls
      <3> QED BY <3>3, <3>4
    <2>5. SumOf(T)[U \ {Some(U)}] = SumOf(S)[U \ {Some(U)}]
      BY <2>2, <2>3, <2>4
    <2> QED BY <2>2, <2>4, <2>5
  <1>4. T \notin Differs
    BY <1>3
  <1> QED BY <1>4, SumUnfolds

(* It is a number, and the elements may be taken in any order. *)
LEMMA SumIsNat ==
  ASSUME NEW S, Costed(S)
  PROVE  Sum(S) \in Nat
  <1> DEFINE g == SumOf(S)
             Bad == {T \in SUBSET S : g[T] \notin Nat}
  <1>1. Unrolled(S, g) /\ g[{}] = 0
    BY SumExists
  <1>2. ASSUME Bad # {} PROVE FALSE
    <2>1. PICK T \in Bad : \A x \in T : T \ {x} \notin Bad
      <3>1. Bad \in SUBSET SUBSET S
        OBVIOUS
      <3> HIDE DEF Bad
      <3> QED BY <1>2, <3>1, LeastSubset DEF Costed
    <2> HIDE DEF g
    <2>2. T \in SUBSET S /\ T # {}
      BY <1>1
    <2>3. g[T] = Some(T).cost + g[T \ {Some(T)}] /\ Some(T) \in T
      BY <1>1, <2>2, Unrolls
    <2>4. g[T \ {Some(T)}] \in Nat /\ Some(T).cost \in Nat
      BY <2>1, <2>2, <2>3 DEF Costed
    <2> QED BY <2>1, <2>3, <2>4
  <1>3. S \notin Bad
    BY <1>2
  <1> QED BY <1>3, SumUnfolds

LEMMA SumSplits ==
  ASSUME NEW S, Costed(S), NEW r \in S
  PROVE  Sum(S) = r.cost + Sum(S \ {r})
  <1> DEFINE Splits(T, x) == Sum(T) = x.cost + Sum(T \ {x})
             Bad == {T \in SUBSET S : \E x \in T : ~Splits(T, x)}
  <1>1. ASSUME NEW T \in SUBSET S PROVE Sum(T) = SumOf(S)[T] /\ Sum(T) \in Nat
    <2>1. Costed(T)
      BY FS_Subset DEF Costed
    <2> QED BY <2>1, SumIsOne, SumIsNat
  <1>2. \A x \in S : x.cost \in Nat
    BY DEF Costed
  <1>3. ASSUME NEW T \in SUBSET S, T # {} PROVE Some(T) \in T /\ Splits(T, Some(T))
    <2>1. Unrolled(S, SumOf(S))
      BY SumExists
    <2>2. SumOf(S)[T] = Some(T).cost + SumOf(S)[T \ {Some(T)}] /\ Some(T) \in T
      BY <1>3, <2>1, Unrolls
    <2>3. T \ {Some(T)} \in SUBSET S
      OBVIOUS
    <2> QED BY <1>1, <2>2, <2>3
  <1>4. ASSUME Bad # {} PROVE FALSE
    <2>1. PICK T \in Bad : \A x \in T : T \ {x} \notin Bad
      <3>1. Bad \in SUBSET SUBSET S
        OBVIOUS
      <3> HIDE DEF Bad
      <3> QED BY <1>4, <3>1, LeastSubset DEF Costed
    <2>2. PICK x \in T : ~Splits(T, x)
      OBVIOUS
    <2> DEFINE y == Some(T)
    <2>3. y \in T /\ Splits(T, y) /\ T \in SUBSET S
      BY <1>3, <2>2
    <2> HIDE DEF y
    <2>4. x # y
      BY <2>2, <2>3
    <2>5. T \ {x} \in SUBSET S /\ T \ {y} \in SUBSET S /\ (T \ {x}) \ {y} \in SUBSET S
      BY <2>3
    <2>6. y \in T \ {x} /\ x \in T \ {y}
      BY <2>2, <2>3, <2>4
    <2>7. Splits(T \ {x}, y)
      BY <2>1, <2>5, <2>6
    <2>8. Splits(T \ {y}, x)
      BY <2>1, <2>3, <2>5, <2>6
    <2>9. (T \ {x}) \ {y} = (T \ {y}) \ {x}
      OBVIOUS
    <2>10. /\ Sum(T) \in Nat /\ Sum(T \ {x}) \in Nat /\ Sum(T \ {y}) \in Nat
           /\ Sum((T \ {x}) \ {y}) \in Nat /\ x.cost \in Nat /\ y.cost \in Nat
      BY <1>1, <1>2, <2>2, <2>3, <2>5
    <2>11. Sum((T \ {x}) \ {y}) = Sum((T \ {y}) \ {x})
      BY <2>9
    <2>12. PICK a, b, c, d, p, q \in Nat :
             /\ a = Sum(T) /\ b = Sum(T \ {x}) /\ c = Sum(T \ {y}) /\ d = Sum((T \ {x}) \ {y})
             /\ p = x.cost /\ q = y.cost
      BY <2>10
    <2>13. a = q + c /\ b = q + d /\ c = p + d
      BY <2>3, <2>7, <2>8, <2>11, <2>12
    <2>14. a = p + b
      BY ONLY <2>13, a \in Nat, b \in Nat, c \in Nat, d \in Nat, p \in Nat, q \in Nat
    <2> QED BY <2>2, <2>12, <2>14
  <1>5. S \notin Bad
    BY <1>4
  <1> QED BY <1>5

(* More rows do not cost less. *)
LEMMA SumGrows ==
  ASSUME NEW S, Costed(S), NEW T \in SUBSET S
  PROVE  Sum(T) <= Sum(S)
  <1> DEFINE F == {U \in SUBSET (S \ T) : Sum(T) <= Sum(T \cup U)}
  <1>1. ASSUME NEW U \in SUBSET S PROVE Costed(U) /\ Sum(U) \in Nat
    <2>1. Costed(U)
      BY FS_Subset DEF Costed
    <2> QED BY <2>1, SumIsNat
  <1>2. {} \in F
    <2>1. T \cup {} = T
      OBVIOUS
    <2> QED BY <1>1, <2>1
  <1>3. ASSUME NEW U \in SUBSET (S \ T), NEW x \in (S \ T) \ U, U \in F
        PROVE  U \cup {x} \in F
    <2> DEFINE V == T \cup (U \cup {x})
    <2>1. V \in SUBSET S /\ x \in V /\ V \ {x} = T \cup U
      OBVIOUS
    <2>2. Sum(V) = x.cost + Sum(V \ {x})
      BY <1>1, <2>1, SumSplits
    <2>3. Sum(V) \in Nat /\ Sum(T \cup U) \in Nat /\ Sum(T) \in Nat /\ x.cost \in Nat
      BY <1>1, <2>1 DEF Costed
    <2>4. Sum(T) <= Sum(T \cup U)
      BY <1>3
    <2>6. Sum(V) = x.cost + Sum(T \cup U)
      BY <2>1, <2>2
    <2> HIDE DEF V
    <2>5. Sum(T) <= Sum(V)
      BY <2>3, <2>4, <2>6
    <2> QED BY <2>5 DEF V
  <1>4. IsFiniteSet(S \ T)
    BY FS_Difference DEF Costed
  <1>5. S \ T \in F
    <2> HIDE DEF F
    <2> QED BY <1>2, <1>3, <1>4, OneByOne
  <1>6. T \cup (S \ T) = S
    OBVIOUS
  <1> QED BY <1>5, <1>6

(* What the clock does to dates. *)
LEMMA DatesGrow ==
  ASSUME NEW d \in Nat \ {0}, NEW x \in Int, NEW y \in Int, x <= y
  PROVE  x \div d <= y \div d
  OBVIOUS

LEMMA DatesShift ==
  ASSUME NEW d \in Nat \ {0}, NEW x \in Int, NEW k \in Int
  PROVE  (x - k * d) \div d = (x \div d) - k
  OBVIOUS

(* The inductive invariant: what a summary has read so far is not more     *)
(* than the same query would find now, as long as its period stands.       *)
RecordsInv ==
  /\ clock \in Nat /\ IsFiniteSet(records)
  /\ \A r \in records : r.at \in 0 .. clock /\ r.agent \in Spenders /\ r.cost \in Nat

Summary == [step : {"none", "total", "models", "done"}, whose : Spenders \cup {Everyone},
            period : AllPeriods, moved : BOOLEAN, total : Nat, models : Nat, agents : Nat]

Stands == summary.period = "all" \/ ~summary.moved
Now == Sum(InPeriod(Of(summary.whose), summary.period))

SummaryInv ==
  /\ summary \in Summary
  /\ summary.step = "total" /\ Stands => summary.total <= Now
  /\ summary.step = "models" /\ Stands =>
       summary.total <= summary.models /\ summary.models <= Now

CostInv == RecordsInv /\ SummaryInv /\ CostsAgree

LEMMA CostInitInv == CostInit => CostInv
  <1> SUFFICES ASSUME CostInit PROVE CostInv
    OBVIOUS
  <1>1. RecordsInv
    BY FS_EmptySet DEF CostInit, RecordsInv
  <1>2. SummaryInv
    BY DEF CostInit, SummaryInv, Summary, NoSummary, AllPeriods
  <1>3. CostsAgree
    BY DEF CostInit, CostsAgree, BudgetJudgesADay, PartsCoverTotal, NoSummary
  <1> QED BY <1>1, <1>2, <1>3 DEF CostInv

(* The rows that a query chooses are some of the records. *)
LEMMA Chosen ==
  ASSUME RecordsInv, NEW whose, NEW period \in AllPeriods
  PROVE  /\ Of(whose) \in SUBSET records /\ Costed(records)
         /\ InPeriod(Of(whose), period) \in SUBSET Of(whose)
         /\ Costed(Of(whose)) /\ Costed(InPeriod(Of(whose), period))
         /\ Sum(InPeriod(Of(whose), period)) \in Nat
  <1>1. Of(whose) \in SUBSET records /\ Costed(records)
    BY DEF RecordsInv, Of, Costed
  <1>2. InPeriod(Of(whose), period) \in SUBSET Of(whose)
    BY DEF InPeriod, InDays, AllPeriods
  <1>3. Costed(Of(whose)) /\ Costed(InPeriod(Of(whose), period))
    BY <1>1, <1>2, FS_Subset DEF Costed
  <1> QED BY <1>1, <1>2, <1>3, SumIsNat

(* check_budget says what the last day and the last two days bear out. *)
LEMMA JudgedRight ==
  ASSUME RecordsInv, NEW a \in Spenders, CheckDay(a)
  PROVE  BudgetJudgesADay'
  <1> USE CostAssumption
  <1> DEFINE own == Of(a)
             window == InDays(own, 1)
             day == {r \in own : r.at >= clock - PerDay}
             twoDays == {r \in own : r.at > clock - 2 * PerDay}
  <1>1. Costed(own) /\ (\A r \in own : r.at \in Nat) /\ clock \in Nat
    <2>1. "all" \in AllPeriods
      BY DEF AllPeriods
    <2>2. Costed(own) /\ own \in SUBSET records
      BY <2>1, Chosen
    <2> QED BY <2>2 DEF RecordsInv
  <1>2. day \in SUBSET window
    <2> SUFFICES ASSUME NEW r \in own, r.at >= clock - PerDay
                 PROVE  Date(r.at) >= Date(clock - 1 * PerDay)
      BY DEF InDays
    <2>1. r.at \in Int /\ clock - 1 * PerDay \in Int /\ clock - 1 * PerDay <= r.at
      BY <1>1
    <2> QED BY <2>1, DatesGrow DEF Date
  <1>3. window \in SUBSET twoDays
    <2> SUFFICES ASSUME NEW r \in own, Date(r.at) >= Date(clock - 1 * PerDay)
                 PROVE  r.at > clock - 2 * PerDay
      BY DEF InDays
    <2>1. r.at \in Int /\ clock - 1 * PerDay \in Int /\ clock - 2 * PerDay \in Int
      BY <1>1
    <2>2. SUFFICES ASSUME r.at <= clock - 2 * PerDay PROVE FALSE
      BY <2>1
    <2>3. Date(r.at) <= Date(clock - 2 * PerDay)
      BY <2>1, <2>2, DatesGrow DEF Date
    <2>4. Date(clock - 2 * PerDay) = Date(clock) - 2 /\ Date(clock - 1 * PerDay) = Date(clock) - 1
      BY <1>1, DatesShift DEF Date
    <2>5. Date(clock) \in Int /\ Date(r.at) \in Int
      BY <2>1, <1>1 DEF Date
    <2> QED BY <2>3, <2>4, <2>5
  <1>4. window \in SUBSET own /\ twoDays \in SUBSET own
    BY DEF InDays
  <1>5. Costed(window) /\ Costed(twoDays) /\ Costed(day)
    BY <1>1, <1>2, <1>4, FS_Subset DEF Costed
  <1>6. verdict' = [says |-> Judged(Sum(window)), day |-> Sum(day), twoDays |-> Sum(twoDays)]
    BY DEF CheckDay
  <1> HIDE DEF own, window, day, twoDays
  <1>7. /\ Sum(day) \in Nat /\ Sum(window) \in Nat /\ Sum(twoDays) \in Nat
        /\ Sum(day) <= Sum(window) /\ Sum(window) <= Sum(twoDays)
    BY <1>2, <1>3, <1>5, SumIsNat, SumGrows
  <1>8. Judged(Sum(window)) \in {"ok", "warning"} => Sum(window) < DayBudget
    BY <1>7 DEF Judged
  <1>9. Judged(Sum(window)) = "exceeded" => Sum(window) >= DayBudget
    BY <1>7 DEF Judged
  <1> QED BY <1>6, <1>7, <1>8, <1>9 DEF BudgetJudgesADay

LEMMA CostStepInv == CostInv /\ [CostNext]_costVars => CostInv'
  <1> SUFFICES ASSUME CostInv, [CostNext]_costVars PROVE CostInv'
    OBVIOUS
  <1> USE CostAssumption
  <1>i. RecordsInv /\ SummaryInv /\ BudgetJudgesADay /\ PartsCoverTotal
    BY DEF CostInv, CostsAgree
  <1>s. /\ summary.whose \in Spenders \cup {Everyone} /\ summary.period \in AllPeriods
        /\ summary.moved \in BOOLEAN /\ summary.total \in Nat /\ summary.models \in Nat
        /\ Now \in Nat
    BY <1>i, Chosen DEF SummaryInv, Summary, Now
  <1>1. ASSUME NEW a \in Spenders, NEW m \in CostModels, NEW n \in 1 .. 2, RecordCost(a, m, n)
        PROVE  CostInv'
    <2> DEFINE new == [id |-> Cardinality(records) + 1, at |-> clock, agent |-> a,
                       cost |-> n * Price(m)]
    <2>1. records' = records \cup {new} /\ UNCHANGED <<clock, verdict, summary>>
      BY <1>1 DEF RecordCost
    <2>2. new.at = clock /\ new.agent = a /\ new.cost \in Nat
      BY DEF Price
    <2> HIDE DEF new
    <2>3. RecordsInv'
      BY <1>i, <2>1, <2>2, FS_AddElement DEF RecordsInv
    <2> DEFINE old == InPeriod(Of(summary.whose), summary.period)
               later == InPeriod(Of(summary.whose), summary.period)'
    <2>7. old \in SUBSET later /\ later \in SUBSET records'
      <3>1. Of(summary.whose) \subseteq Of(summary.whose)' /\ Of(summary.whose)' \subseteq records'
        BY <2>1 DEF Of
      <3>2. \A k \in Int : /\ InDays(Of(summary.whose), k) \subseteq InDays(Of(summary.whose), k)'
                           /\ InDays(Of(summary.whose), k)' \subseteq Of(summary.whose)'
        BY <2>1, <3>1 DEF InDays
      <3> QED BY <1>s, <2>1, <3>1, <3>2 DEF InPeriod, AllPeriods
    <2>8. Now = Sum(old) /\ Now' = Sum(later)
      BY DEF Now
    <2> HIDE DEF old, later
    <2>9. Costed(later)
      BY <2>3, <2>7, FS_Subset DEF RecordsInv, Costed
    <2>4. Now <= Now'
      BY <2>7, <2>8, <2>9, SumGrows
    <2>5. Now' \in Nat
      BY <2>8, <2>9, SumIsNat
    <2>6. SummaryInv'
      BY <1>i, <1>s, <2>1, <2>4, <2>5 DEF SummaryInv, Summary, Stands
    <2> QED BY <1>i, <2>1, <2>3, <2>6 DEF CostInv, CostsAgree, BudgetJudgesADay, PartsCoverTotal
  <1>2. ASSUME NEW a \in Spenders, CheckDay(a) PROVE CostInv'
    <2>1. UNCHANGED <<clock, records, summary>>
      BY <1>2 DEF CheckDay
    <2>2. RecordsInv' /\ SummaryInv' /\ PartsCoverTotal'
      BY <1>i, <2>1 DEF RecordsInv, SummaryInv, Summary, Stands, Now, InPeriod, InDays, Of, PartsCoverTotal
    <2> QED BY <1>i, <1>2, <2>2, JudgedRight DEF CostInv, CostsAgree
  <1>3. ASSUME NEW whose \in Spenders \cup {Everyone}, NEW period \in AllPeriods,
               ReadTotal(whose, period)
        PROVE  CostInv'
    <2>1. /\ summary' = [NoSummary EXCEPT !.step = "total", !.whose = whose, !.period = period,
                           !.total = Sum(InPeriod(Of(whose), period))]
          /\ UNCHANGED <<clock, records, verdict>>
      BY <1>3 DEF ReadTotal
    <2>2. Sum(InPeriod(Of(whose), period)) \in Nat
      BY <1>i, Chosen
    <2>3. /\ summary'.step = "total" /\ summary'.whose = whose /\ summary'.period = period
          /\ summary'.total = Sum(InPeriod(Of(whose), period))
          /\ summary' \in Summary
      BY <2>1, <2>2 DEF NoSummary, Summary
    <2>4. Now' = summary'.total
      BY <2>1, <2>3 DEF Now, InPeriod, InDays, Of
    <2>5. SummaryInv'
      BY <2>2, <2>3, <2>4 DEF SummaryInv, Summary
    <2> QED BY <1>i, <2>1, <2>3, <2>5 DEF CostInv, CostsAgree, RecordsInv, BudgetJudgesADay, PartsCoverTotal
  <1>4. CASE ReadByModel
    <2>1. /\ summary.step = "total" /\ summary' = [summary EXCEPT !.step = "models", !.models = Now]
          /\ UNCHANGED <<clock, records, verdict>>
      BY <1>4 DEF ReadByModel, Now
    <2>4. summary'.period = summary.period /\ summary'.whose = summary.whose /\ summary'.moved = summary.moved
      BY <1>i, <2>1 DEF SummaryInv, Summary
    <2>2. Now' = Now /\ Stands' = Stands
      BY <2>1, <2>4 DEF Now, InPeriod, InDays, Of, Stands
    <2>5. /\ summary' \in Summary
          /\ summary'.step = "models" /\ summary'.total = summary.total /\ summary'.models = Now
      BY <1>i, <1>s, <2>1 DEF SummaryInv, Summary
    <2>6. Stands => summary.total <= Now
      BY <1>i, <2>1 DEF SummaryInv, Summary
    <2>3. SummaryInv'
      BY <1>s, <2>2, <2>5, <2>6 DEF SummaryInv, Summary
    <2> QED BY <1>i, <2>1, <2>3 DEF CostInv, CostsAgree, RecordsInv, SummaryInv, Summary, BudgetJudgesADay, PartsCoverTotal
  <1>5. CASE ReadByAgent
    <2>1. /\ summary.step = "models" /\ summary.whose = Everyone
          /\ summary' = [summary EXCEPT !.step = "done",
                           !.agents = Sum(InPeriod(records, summary.period))]
          /\ UNCHANGED <<clock, records, verdict>>
      BY <1>5 DEF ReadByAgent
    <2>2. Of(summary.whose) = records
      BY <2>1 DEF Of
    <2>3. Sum(InPeriod(records, summary.period)) = Now
      BY <2>2 DEF Now
    <2>4. SummaryInv' /\ PartsCoverTotal'
      BY <1>i, <1>s, <2>1, <2>3 DEF SummaryInv, Summary, PartsCoverTotal, Stands
    <2> QED BY <1>i, <2>1, <2>4 DEF CostInv, CostsAgree, RecordsInv, BudgetJudgesADay
  <1>6. CASE EndAgentCost
    <2>1. /\ summary.step = "models" /\ summary' = [summary EXCEPT !.step = "done", !.agents = summary.models]
          /\ UNCHANGED <<clock, records, verdict>>
      BY <1>6 DEF EndAgentCost
    <2>3. /\ summary'.period = summary.period /\ summary'.moved = summary.moved
          /\ summary'.total = summary.total /\ summary'.models = summary.models
          /\ summary'.agents = summary.models /\ summary'.step = "done"
      BY <1>i, <2>1 DEF SummaryInv, Summary
    <2>4. SummaryInv'
      BY <1>i, <2>1, <2>3 DEF SummaryInv, Summary
    <2>5. PartsCoverTotal'
      BY <1>i, <1>s, <2>1, <2>3 DEF SummaryInv, Summary, PartsCoverTotal, Stands
    <2>2. SummaryInv' /\ PartsCoverTotal'
      BY <2>4, <2>5
    <2> QED BY <1>i, <2>1, <2>2 DEF CostInv, CostsAgree, RecordsInv, BudgetJudgesADay
  <1>7. CASE SummaryFails
    BY <1>i, <1>7 DEF SummaryFails, CostInv, CostsAgree, RecordsInv, SummaryInv, Summary, NoSummary,
         AllPeriods, BudgetJudgesADay, PartsCoverTotal
  <1>8. CASE Tick
    <2>1. clock' = clock + 1 /\ UNCHANGED <<records, verdict>>
      BY <1>8 DEF Tick
    <2>2. RecordsInv'
      BY <1>i, <2>1 DEF RecordsInv
    <2>3. CASE summary.step \in {"none", "done"}
      <3>1. summary' = summary
        BY <1>8, <2>3 DEF Tick
      <3> QED BY <1>i, <2>1, <2>2, <2>3, <3>1 DEF CostInv, CostsAgree, SummaryInv, Summary, BudgetJudgesADay, PartsCoverTotal
    <2>4. CASE summary.step \notin {"none", "done"}
      <3>1. summary' = [summary EXCEPT !.moved = @ \/ Date(clock') # Date(clock)]
        BY <1>8, <2>4 DEF Tick
      <3>2. /\ summary'.period = summary.period /\ summary'.whose = summary.whose
            /\ summary'.step = summary.step /\ summary'.total = summary.total
            /\ summary'.models = summary.models /\ summary'.agents = summary.agents
            /\ summary'.moved = (summary.moved \/ Date(clock') # Date(clock))
            /\ summary' \in Summary
        BY <1>i, <3>1 DEF SummaryInv, Summary
      <3>3. ASSUME Stands' PROVE Now' = Now /\ Stands
        <4>1. CASE summary.period = "all"
          BY <2>1, <3>2, <4>1 DEF Now, InPeriod, Of, Stands
        <4>2. CASE summary.period # "all"
          <5>1. ~summary.moved /\ Date(clock') = Date(clock)
            BY <3>2, <3>3, <4>2 DEF Stands
          <5>2. \A k \in Int : Date(clock' - k * PerDay) = Date(clock - k * PerDay)
            <6>1. clock \in Int /\ clock' \in Int
              BY <1>i, <2>1 DEF RecordsInv
            <6>2. \A k \in Int : /\ Date(clock' - k * PerDay) = Date(clock') - k
                                 /\ Date(clock - k * PerDay) = Date(clock) - k
              BY <6>1, DatesShift DEF Date
            <6> QED BY <5>1, <6>2
          <5>3. InPeriod(Of(summary.whose), summary.period)' = InPeriod(Of(summary.whose), summary.period)
            <6>1. Of(summary.whose)' = Of(summary.whose)
              BY <2>1, <3>2 DEF Of
            <6>2. \A k \in Int : InDays(Of(summary.whose), k)' = InDays(Of(summary.whose), k)
              BY <5>2, <6>1 DEF InDays
            <6> QED BY <1>s, <3>2, <4>2, <6>2 DEF InPeriod, AllPeriods
          <5> QED BY <5>1, <5>3 DEF Now, Stands
        <4> QED BY <4>1, <4>2
      <3>4. SummaryInv'
        BY <1>i, <3>2, <3>3 DEF SummaryInv, Summary
      <3> QED BY <1>i, <2>1, <2>2, <2>4, <3>2, <3>4 DEF CostInv, CostsAgree, BudgetJudgesADay, PartsCoverTotal
    <2> QED BY <2>3, <2>4
  <1>9. CASE UNCHANGED costVars
    BY <1>i, <1>9 DEF costVars, CostInv, CostsAgree, RecordsInv, SummaryInv, Summary, Stands, Now, InPeriod,
         InDays, Of, BudgetJudgesADay, PartsCoverTotal
  <1> QED BY <1>1, <1>2, <1>3, <1>4, <1>5, <1>6, <1>7, <1>8, <1>9
      DEF CostNext, ServicesAsk, CommandLineAsks

(* What is said of costs agrees with what was recorded (CostsAgree): for   *)
(* any agents, models, prices, budget and number of records, and a day of  *)
(* any number of units.                                                    *)
THEOREM CostsAreAccounted == CostSpec => []CostsAgree
  <1>1. CostInv => CostsAgree
    BY DEF CostInv
  <1> QED BY CostInitInv, CostStepInv, <1>1, PTL DEF CostSpec

(* The clock and the verdicts: the rest of the types is in CostInv. *)
ClockInv == clock \in 0 .. MaxClock /\ verdict.says \in {"none", "ok", "warning", "exceeded"}

LEMMA ClockStep == ClockInv /\ [CostNext]_costVars => ClockInv'
  <1> SUFFICES ASSUME ClockInv, [CostNext]_costVars PROVE ClockInv'
    OBVIOUS
  <1> USE CostAssumption DEF ClockInv
  <1>1. ASSUME NEW a \in Spenders, NEW m \in CostModels, NEW n \in 1 .. 2, RecordCost(a, m, n)
        PROVE  ClockInv'
    BY <1>1 DEF RecordCost
  <1>2. ASSUME NEW a \in Spenders, CheckDay(a) PROVE ClockInv'
    BY <1>2 DEF CheckDay, Judged
  <1>3. ASSUME NEW whose, NEW period, ReadTotal(whose, period) PROVE ClockInv'
    BY <1>3 DEF ReadTotal
  <1>4. CASE ReadByModel \/ ReadByAgent \/ EndAgentCost \/ SummaryFails \/ UNCHANGED costVars
    BY <1>4 DEF ReadByModel, ReadByAgent, EndAgentCost, SummaryFails, costVars
  <1>5. CASE Tick
    BY <1>5 DEF Tick
  <1> QED BY <1>1, <1>2, <1>3, <1>4, <1>5 DEF CostNext

(* CostTracker: the types (CostTypeOK); a record is not from the future,   *)
(* and no cost is negative.                                                *)
THEOREM CostTypeCorrect == CostSpec => []CostTypeOK
  <1>1. CostInit => ClockInv
    BY CostAssumption DEF CostInit, ClockInv
  <1>2. CostInv /\ ClockInv => CostTypeOK
    BY DEF CostInv, ClockInv, RecordsInv, SummaryInv, Summary, CostTypeOK
  <1> QED BY CostInitInv, CostStepInv, ClockStep, <1>1, <1>2, PTL DEF CostSpec

-----------------------------------------------------------------------------
(* Conversation.                                                           *)

(* The sums of the loop of get_session_history exist; no message at all    *)
(* always fits, so that the history is the first messages of the newest.   *)
LEMMA LoopStartsAtZero ==
  ASSUME NEW s \in Seq(Message)
  PROVE  TokensUpTo(s)[0] = 0
  <1> DEFINE Loop(f) == f = [i \in 0 .. Len(s) |-> IF i = 0 THEN 0 ELSE f[i - 1] + Tokens(s[i])]
             w == [i \in 1 .. Len(s) |-> Tokens(s[i])]
  <1>1. w \in [1 .. Len(s) -> Nat] /\ Len(s) \in Nat
    <2>1. \A i \in 1 .. Len(s) : s[i] \in Message
      OBVIOUS
    <2>2. \A i \in 1 .. Len(s) : s[i].length \in Nat
      BY <2>1, ConversationAssumption DEF Message
    <2> QED BY <2>2 DEF Tokens
  <1>2. PICK f \in [0 .. Len(s) -> Nat] : Sums(Len(s), w, f)
    <2> HIDE DEF w
    <2> QED BY <1>1, SumsExist
  <1>3. Loop(f)
    BY <1>1, <1>2 DEF Sums
  <1>4. TokensUpTo(s) = CHOOSE g : Loop(g)
    BY DEF TokensUpTo
  <1>5. Loop(TokensUpTo(s))
    <2> HIDE DEF Loop
    <2> QED BY <1>3, <1>4
  <1> QED BY <1>1, <1>5

LEMMA HistoryIsFirstOfNewest ==
  ASSUME messages \in Seq(Message)
  PROVE  /\ SessionHistory \in Seq(Message)
         /\ Len(messages) <= HistoryLimit =>
              /\ DOMAIN SessionHistory \subseteq DOMAIN messages
              /\ \A i \in DOMAIN SessionHistory : SessionHistory[i] = messages[i]
  <1> USE ConversationAssumption
  <1> DEFINE s == Newest(messages, HistoryLimit)
             longest == CHOOSE n \in Fitting(s) : \A k \in Fitting(s) : k <= n
  <1>1. s \in Seq(Message) /\ (Len(messages) <= HistoryLimit => s = messages)
    BY DEF Newest
  <1>2. SessionHistory = SubSeq(s, 1, longest)
    BY DEF SessionHistory
  <1> HIDE DEF s
  <1>3. 0 \in Fitting(s) /\ Fitting(s) \in SUBSET (0 .. Len(s)) /\ Len(s) \in Nat
    BY <1>1, LoopStartsAtZero DEF Fitting
  <1>4. \E n \in Fitting(s) : \A k \in Fitting(s) : k <= n
    BY <1>3, GreatestOf
  <1>5. longest \in Fitting(s)
    BY <1>4
  <1> HIDE DEF longest
  <1>6. longest \in 0 .. Len(s)
    BY <1>3, <1>5
  <1>7. /\ SubSeq(s, 1, longest) \in Seq(Message)
        /\ DOMAIN SubSeq(s, 1, longest) = 1 .. longest
        /\ \A i \in 1 .. longest : SubSeq(s, 1, longest)[i] = s[i]
    BY <1>1, <1>6
  <1> QED BY <1>1, <1>2, <1>3, <1>6, <1>7

(* The invariant: of the turns that nothing disturbed, each answer in the  *)
(* session is behind its question, and one that answers has its question   *)
(* there.                                                                  *)
Asked(t, n) == \E j \in 1 .. n : messages[j].role = "user" /\ messages[j].turn = t
StoredInOrder ==
  \A i \in DOMAIN messages : messages[i].role = "assistant" /\ messages[i].turn \notin disturbed =>
    Asked(messages[i].turn, i - 1)
AnsweringWasAsked ==
  \A t \in Turns \ disturbed : turnPc[t] = "answering" => Asked(t, Len(messages))

ConvInv == ConvTypeOK /\ StoredInOrder /\ AnsweringWasAsked /\ AnswersFollowQuestions

LEMMA ConvInitInv == ConvInit => ConvInv
  <1> SUFFICES ASSUME ConvInit PROVE ConvInv
    OBVIOUS
  <1>1. messages = <<>> /\ DOMAIN messages = {} /\ \A t \in Turns : DOMAIN history[t] = {}
    BY DEF ConvInit
  <1>2. ConvTypeOK
    BY DEF ConvInit, ConvTypeOK
  <1>3. AnsweringWasAsked
    BY DEF ConvInit, AnsweringWasAsked
  <1> QED BY <1>1, <1>2, <1>3 DEF ConvInv, StoredInOrder, AnswersFollowQuestions

(* One more message changes nothing about those before it. *)
LEMMA OneMore ==
  ASSUME messages \in Seq(Message), NEW m \in Message, messages' = Append(messages, m)
  PROVE  /\ messages' \in Seq(Message) /\ Len(messages') = Len(messages) + 1
         /\ messages'[Len(messages) + 1] = m
         /\ \A i \in DOMAIN messages : messages'[i] = messages[i]
         /\ DOMAIN messages' = 1 .. Len(messages) + 1 /\ DOMAIN messages = 1 .. Len(messages)
         /\ Len(messages) \in Nat
         /\ \A t, n : n <= Len(messages) /\ n \in Nat => (Asked(t, n)' <=> Asked(t, n))
         /\ \A t : Asked(t, Len(messages)) => Asked(t, Len(messages) + 1)'
  BY DEF Asked

LEMMA ConvStepInv == ConvInv /\ [ConvNext]_convVars => ConvInv'
  <1> SUFFICES ASSUME ConvInv, [ConvNext]_convVars PROVE ConvInv'
    OBVIOUS
  <1>i. ConvTypeOK /\ StoredInOrder /\ AnsweringWasAsked /\ AnswersFollowQuestions
    BY DEF ConvInv
  <1>m. messages \in Seq(Message)
    BY <1>i DEF ConvTypeOK
  <1>1. ASSUME NEW t \in Turns, BeginTurn(t) PROVE ConvInv'
    <2> USE <1>1 DEF BeginTurn
    <2>1. ConvTypeOK'
      BY <1>i, <1>m, HistoryIsFirstOfNewest DEF ConvTypeOK
    <2>2. StoredInOrder' /\ AnsweringWasAsked'
      <3>1. UNCHANGED messages /\ \A u, n : Asked(u, n)' <=> Asked(u, n)
        BY DEF Asked
      <3>2. \A u \in Turns : turnPc'[u] = "answering" => turnPc[u] = "answering"
        BY <1>i DEF ConvTypeOK
      <3>3. disturbed \subseteq disturbed'
        OBVIOUS
      <3> QED BY <1>i, <3>1, <3>2, <3>3 DEF StoredInOrder, AnsweringWasAsked
    <2>3. ASSUME NEW u \in Turns, NEW i \in DOMAIN history'[u],
                 history'[u][i].role = "assistant", history'[u][i].turn \notin disturbed
          PROVE  \/ \E j \in 1 .. i - 1 : history'[u][j].role = "user"
                                          /\ history'[u][j].turn = history'[u][i].turn
                 \/ Len(before'[u]) > HistoryLimit
      <3>1. CASE u # t
        BY <1>i, <2>3, <3>1 DEF AnswersFollowQuestions, ConvTypeOK
      <3>2. CASE u = t
        <4>1. history'[u] = SessionHistory /\ before'[u] = messages
          BY <1>i, <3>2 DEF ConvTypeOK
        <4>2. SUFFICES ASSUME ~(Len(messages) > HistoryLimit)
                       PROVE  \E j \in 1 .. i - 1 : history'[u][j].role = "user"
                                          /\ history'[u][j].turn = history'[u][i].turn
          BY <4>1
        <4>3. Len(messages) <= HistoryLimit
          BY <1>m, <4>2, ConversationAssumption
        <4> DEFINE h == SessionHistory
        <4>4. /\ h \in Seq(Message) /\ DOMAIN h \subseteq DOMAIN messages
              /\ \A k \in DOMAIN h : h[k] = messages[k]
          BY <1>m, <4>3, HistoryIsFirstOfNewest
        <4> HIDE DEF h
        <4>5. history'[u] = h
          BY <4>1 DEF h
        <4>6. i \in DOMAIN h /\ 1 .. i - 1 \subseteq DOMAIN h
          BY <2>3, <4>4, <4>5
        <4>7. Asked(messages[i].turn, i - 1)
          BY <1>i, <2>3, <4>4, <4>5, <4>6 DEF StoredInOrder
        <4> QED BY <4>4, <4>5, <4>6, <4>7 DEF Asked
      <3> QED BY <3>1, <3>2
    <2>4. AnswersFollowQuestions'
      BY <2>3 DEF AnswersFollowQuestions
    <2> QED BY <2>1, <2>2, <2>4 DEF ConvInv
  <1>2. ASSUME NEW t \in Turns, NEW length \in Lengths, StoreQuestion(t, length) PROVE ConvInv'
    <2> DEFINE m == [turn |-> t, role |-> "user", length |-> length]
    <2>1. /\ turnPc' = [turnPc EXCEPT ![t] = "answering"] /\ UNCHANGED <<history, before>>
          /\ disturbed \subseteq disturbed' /\ disturbed' \subseteq disturbed \cup {t}
      BY <1>2 DEF StoreQuestion
    <2>2. AnswersFollowQuestions'
      BY <1>i, <2>1 DEF AnswersFollowQuestions
    <2>3. CASE messages' = Append(messages, m)
      <3>1. m \in Message /\ m.role = "user" /\ m.turn = t
        BY DEF Message
      <3> HIDE DEF m
      <3>2. ConvTypeOK'
        BY <1>i, <1>m, <2>1, <2>3, <3>1 DEF ConvTypeOK
      <3>3. StoredInOrder'
        BY <1>i, <1>m, <2>1, <2>3, <3>1, OneMore DEF StoredInOrder
      <3>4. ASSUME NEW u \in Turns \ disturbed', turnPc'[u] = "answering"
            PROVE  Asked(u, Len(messages))'
        <4>1. CASE u = t
          BY <1>m, <2>3, <3>1, <4>1, OneMore DEF Asked
        <4>2. CASE u # t
          <5>1. Asked(u, Len(messages))
            BY <1>i, <2>1, <3>4, <4>2 DEF AnsweringWasAsked, ConvTypeOK
          <5> QED BY <1>m, <2>3, <3>1, <5>1, OneMore DEF Asked
        <4> QED BY <4>1, <4>2
      <3>5. AnsweringWasAsked'
        BY <3>4 DEF AnsweringWasAsked
      <3> QED BY <2>2, <3>2, <3>3, <3>5 DEF ConvInv
    <2>4. CASE messages' = messages /\ disturbed' = disturbed \cup {t}
      BY <1>i, <2>1, <2>2, <2>4 DEF ConvInv, ConvTypeOK, StoredInOrder, AnsweringWasAsked, Asked
    <2> QED BY <1>2, <2>3, <2>4 DEF StoreQuestion
  <1>3. ASSUME NEW t \in Turns, NEW length \in Lengths, StoreAnswer(t, length) PROVE ConvInv'
    <2> DEFINE m == [turn |-> t, role |-> "assistant", length |-> length]
    <2>1. /\ turnPc' = [turnPc EXCEPT ![t] = "ended"] /\ UNCHANGED <<history, before, disturbed>>
          /\ turnPc[t] = "answering" /\ messages' = Append(messages, m)
      BY <1>3 DEF StoreAnswer
    <2>2. AnswersFollowQuestions'
      BY <1>i, <2>1 DEF AnswersFollowQuestions
    <2>3. m \in Message /\ m.role = "assistant" /\ m.turn = t
      BY DEF Message
    <2> HIDE DEF m
    <2>4. ConvTypeOK'
      BY <1>i, <1>m, <2>1, <2>3 DEF ConvTypeOK
    <2>5. StoredInOrder'
      <3> SUFFICES ASSUME NEW i \in DOMAIN messages', messages'[i].role = "assistant",
                          messages'[i].turn \notin disturbed
                   PROVE  Asked(messages[i].turn, i - 1)'
        BY <2>1 DEF StoredInOrder
      <3>1. CASE i \in DOMAIN messages
        <4>1. messages'[i] = messages[i] /\ i - 1 \in Nat /\ i - 1 <= Len(messages)
          BY <1>m, <2>1, <2>3, <3>1, OneMore
        <4>2. Asked(messages[i].turn, i - 1)
          BY <1>i, <3>1, <4>1 DEF StoredInOrder
        <4> QED BY <1>m, <2>1, <2>3, <4>1, <4>2, OneMore
      <3>2. CASE i \notin DOMAIN messages
        <4>1. i = Len(messages) + 1 /\ messages'[i] = m /\ Len(messages) \in Nat
          BY <1>m, <2>1, <2>3, <3>2, OneMore
        <4>2. Asked(t, Len(messages))
          BY <1>i, <2>1, <2>3, <4>1 DEF AnsweringWasAsked
        <4>3. i - 1 = Len(messages)
          BY <4>1
        <4> QED BY <1>m, <2>1, <2>3, <4>1, <4>2, <4>3, OneMore DEF Asked
      <3> QED BY <3>1, <3>2
    <2>6. ASSUME NEW u \in Turns \ disturbed', turnPc'[u] = "answering"
          PROVE  Asked(u, Len(messages))'
      <3>1. Asked(u, Len(messages))
        BY <1>i, <2>1, <2>6 DEF AnsweringWasAsked, ConvTypeOK
      <3> QED BY <1>m, <2>1, <2>3, <3>1, OneMore DEF Asked
    <2>7. AnsweringWasAsked'
      BY <2>6 DEF AnsweringWasAsked
    <2> QED BY <2>2, <2>4, <2>5, <2>7 DEF ConvInv
  <1>4. ASSUME NEW t \in Turns, EndWithoutAnswer(t) PROVE ConvInv'
    BY <1>i, <1>4 DEF EndWithoutAnswer, ConvInv, ConvTypeOK, StoredInOrder, AnsweringWasAsked,
       Asked, AnswersFollowQuestions
  <1>5. CASE ClearSession
    <2>1. /\ messages' = <<>> /\ UNCHANGED <<turnPc, history, before>>
          /\ disturbed' = disturbed \cup {t \in Turns : turnPc[t] = "answering"}
      BY <1>5 DEF ClearSession
    <2>2. ConvTypeOK'
      BY <1>i, <2>1 DEF ConvTypeOK
    <2>3. DOMAIN messages' = {} /\ AnsweringWasAsked'
      BY <2>1 DEF AnsweringWasAsked
    <2>4. AnswersFollowQuestions'
      BY <1>i, <2>1 DEF AnswersFollowQuestions
    <2> QED BY <2>2, <2>3, <2>4 DEF ConvInv, StoredInOrder
  <1>6. CASE UNCHANGED convVars
    BY <1>i, <1>6 DEF convVars, ConvInv, ConvTypeOK, StoredInOrder, AnsweringWasAsked,
       Asked, AnswersFollowQuestions
  <1> QED BY <1>1, <1>2, <1>3, <1>4, <1>5, <1>6 DEF ConvNext

(* What a run is shown makes sense (AnswersFollowQuestions): for any       *)
(* number of overlapping turns, messages of any length and any limits.     *)
THEOREM HistoriesMakeSense == ConvSpec => []AnswersFollowQuestions
  <1>1. ConvInv => AnswersFollowQuestions
    BY DEF ConvInv
  <1> QED BY ConvInitInv, ConvStepInv, <1>1, PTL DEF ConvSpec

(* Conversation: the types (ConvTypeOK) of the table and the histories.    *)
THEOREM ConvTypeCorrect == ConvSpec => []ConvTypeOK
  <1>1. ConvInv => ConvTypeOK
    BY DEF ConvInv
  <1> QED BY ConvInitInv, ConvStepInv, <1>1, PTL DEF ConvSpec
=============================================================================
