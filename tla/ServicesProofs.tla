--------------------------- MODULE ServicesProofs ---------------------------
(***************************************************************************)
(* Theorems of the daemon process, for any number of processes, of the     *)
(* chat messages, for any number of updates, crashes and room in the       *)
(* channel, and of the connection pools, for any operations, connections   *)
(* and workers.                                                            *)
(***************************************************************************)
EXTENDS Daemon, MessageRouter, ConnectionPool, FiniteSetTheorems, TLAPS

-----------------------------------------------------------------------------
InMissedRun == {"missed", "asking", "ran"}

(* One process is alive, and the run that was made good, if any, is on     *)
(* record or that of the living process.                                   *)
Undisturbed ==
  /\ \A p \in Alive, q \in Alive : p = q
  /\ ranBy # {} => \E p \in Pids : ranBy = {p} /\ (overdue => life[p] \in InMissedRun)

DaemonInv ==
  /\ DaemonTypeOK
  /\ IsFiniteSet(ranBy)
  /\ \A p \in leaving : life[p] \in {"http", "serving"}
  /\ \A port \in Ports : \A p \in Bound(port), q \in Bound(port) : p = q
  /\ ~disturbed => Undisturbed

LEMMA DaemonInitInv == DaemonInit => DaemonInv
  BY FS_EmptySet
  DEF DaemonInit, DaemonInv, DaemonTypeOK, Alive, Bound, LifePhases, Undisturbed

(* A process goes on to a phase in which it holds no port that another     *)
(* holds, and leaves a missed run only by its record.                      *)
LEMMA MoveInv ==
  ASSUME DaemonInv, NEW p \in Pids, NEW to \in LifePhases \ {"unborn", "dead"},
         life[p] \in Booting, life[p] # "http",
         life' = [life EXCEPT ![p] = to],
         to \notin {"http", "serving"},
         life[p] \in InMissedRun => to \in InMissedRun \/ ~overdue' \/ disturbed',
         overdue' \in BOOLEAN, overdue' => overdue,
         disturbed' \in BOOLEAN, disturbed => disturbed',
         UNCHANGED <<leaving, heir, fate, ranBy>>
  PROVE  DaemonInv'
  <1> USE DEF DaemonInv, DaemonTypeOK
  <1>1. /\ life'[p] = to /\ \A q \in Pids \ {p} : life'[q] = life[q]
        /\ life' \in [Pids -> LifePhases]
    OBVIOUS
  <1>2. p \in Alive /\ Alive' = Alive
    BY <1>1 DEF Alive, Booting
  <1>3. DaemonTypeOK'
    BY <1>1, <1>2
  <1>4. \A q \in leaving : life'[q] \in {"http", "serving"}
    <2>1. p \notin leaving
      BY DEF Booting
    <2>2. leaving \subseteq Pids
      BY DEF Alive
    <2> QED BY <1>1, <2>1, <2>2
  <1>5. \A port \in Ports : Bound(port)' \subseteq Bound(port)
    BY <1>1 DEF Bound
  <1>6. ~disturbed' => Undisturbed'
    <2> SUFFICES ASSUME ~disturbed' PROVE Undisturbed'
      OBVIOUS
    <2>1. Undisturbed
      OBVIOUS
    <2>2. ASSUME NEW q \in Pids, ranBy = {q}, overdue => life[q] \in InMissedRun, overdue'
          PROVE  life'[q] \in InMissedRun
      <3>1. q \in Alive
        BY <2>2 DEF Alive, InMissedRun
      <3>2. q = p
        BY <1>2, <2>1, <3>1 DEF Undisturbed
      <3> QED BY <1>1, <2>2, <3>2
    <2>3. ranBy # {} => \E q \in Pids : ranBy = {q} /\ (overdue' => life'[q] \in InMissedRun)
      BY <2>1, <2>2 DEF Undisturbed
    <2> QED BY <1>2, <2>1, <2>3 DEF Undisturbed
  <1> QED BY <1>3, <1>4, <1>5, <1>6

(* A process dies outside of a missed run, or leaves its trace.            *)
LEMMA DiesInv ==
  ASSUME DaemonInv, NEW p \in Alive,
         NEW why \in {"none", "database", "scheduler", "port", "restart", "killed"},
         Dies(p, why),
         life[p] \in InMissedRun => disturbed',
         disturbed' \in BOOLEAN, disturbed => disturbed',
         UNCHANGED <<heir, overdue, ranBy>>
  PROVE  DaemonInv'
  <1> USE DEF DaemonInv, DaemonTypeOK, Dies
  <1>0. p \in Pids
    BY DEF Alive
  <1>1. /\ life'[p] = "dead" /\ \A q \in Pids \ {p} : life'[q] = life[q]
        /\ life' \in [Pids -> LifePhases]
    BY <1>0 DEF LifePhases
  <1>2. Alive' = Alive \ {p}
    BY <1>1 DEF Alive
  <1>3. DaemonTypeOK'
    BY <1>0, <1>1, <1>2
  <1>4. \A q \in leaving' : life'[q] \in {"http", "serving"}
    <2>1. leaving \subseteq Pids
      BY DEF Alive
    <2> QED BY <1>1, <2>1
  <1>5. \A port \in Ports : Bound(port)' \subseteq Bound(port)
    BY <1>1 DEF Bound
  <1>6. ASSUME ~disturbed', Undisturbed PROVE Undisturbed'
    <2>1. ASSUME NEW q \in Pids, life[q] \in InMissedRun PROVE life'[q] \in InMissedRun
      BY <1>1, <1>6, <2>1
    <2> QED BY <1>2, <1>6, <2>1 DEF Undisturbed
  <1> QED BY <1>3, <1>4, <1>5, <1>6

(* A process is born, alone or beside another.                             *)
LEMMA BornInv ==
  ASSUME DaemonInv, NEW p \in Pids, Born(p),
         life' = [life EXCEPT ![p] = "opening"],
         leaving' = leaving \/ \E q \in Bound("http") : leaving' = leaving \cup {q},
         heir' \in [Pids -> Pids],
         UNCHANGED <<fate, overdue, ranBy>>
  PROVE  DaemonInv'
  <1> USE DEF DaemonInv, DaemonTypeOK, Born
  <1>1. /\ life'[p] = "opening" /\ \A q \in Pids \ {p} : life'[q] = life[q]
        /\ life' \in [Pids -> LifePhases]
    BY DEF LifePhases
  <1>2. Alive' = Alive \cup {p}
    BY <1>1 DEF Alive
  <1>3. leaving' \subseteq Alive /\ \A q \in leaving' : life[q] \in {"http", "serving"}
    BY DEF Bound, Alive
  <1>4. \A q \in leaving' : life'[q] \in {"http", "serving"}
    BY <1>1, <1>3 DEF Alive
  <1>5. DaemonTypeOK'
    BY <1>1, <1>2, <1>3
  <1>6. \A port \in Ports : Bound(port)' \subseteq Bound(port)
    BY <1>1 DEF Bound
  <1>7. ASSUME ~disturbed' PROVE Undisturbed'
    <2>1. Alive = {} /\ Undisturbed
      BY <1>7
    <2>2. \A q \in Pids : life[q] \notin InMissedRun
      BY <2>1 DEF Alive, InMissedRun
    <2> QED BY <1>2, <2>1, <2>2 DEF Undisturbed
  <1> QED BY <1>4, <1>5, <1>6, <1>7

(* The boot begins to run the missed job. *)
LEMMA ListMissedInv ==
  ASSUME DaemonInv, NEW p \in Pids, ListMissed(p), overdue
  PROVE  DaemonInv'
  <1> USE DEF DaemonInv, DaemonTypeOK, ListMissed, Moves
  <1>1. /\ life[p] = "listening" /\ life'[p] = "missed" /\ ranBy' = ranBy \cup {p}
        /\ \A q \in Pids \ {p} : life'[q] = life[q]
        /\ life' \in [Pids -> LifePhases]
    BY DEF LifePhases
  <1>2. p \in Alive /\ Alive' = Alive
    BY <1>1 DEF Alive
  <1>3. DaemonTypeOK' /\ IsFiniteSet(ranBy')
    BY <1>1, <1>2, FS_AddElement
  <1>4. \A q \in leaving : life'[q] \in {"http", "serving"}
    BY <1>1 DEF Alive
  <1>5. \A port \in Ports : Bound(port)' \subseteq Bound(port)
    BY <1>1 DEF Bound
  <1>6. ASSUME ~disturbed PROVE Undisturbed'
    <2>1. Undisturbed
      BY <1>6
    <2>2. ranBy = {}
      <3> SUFFICES ASSUME ranBy # {} PROVE FALSE
        OBVIOUS
      <3>1. PICK q \in Pids : life[q] \in InMissedRun
        BY <2>1 DEF Undisturbed
      <3>2. q \in Alive
        BY <3>1 DEF Alive, InMissedRun
      <3> QED BY <1>1, <1>2, <2>1, <3>1, <3>2 DEF Undisturbed, InMissedRun
    <2> QED BY <1>1, <1>2, <2>1, <2>2 DEF Undisturbed, InMissedRun
  <1> QED BY <1>3, <1>4, <1>5, <1>6

(* A port that nobody holds is bound. *)
LEMMA BindInv ==
  ASSUME DaemonInv, NEW p \in Pids, NEW port \in Ports, Bind(p, port), Bound(port) = {}
  PROVE  DaemonInv'
  <1> USE DEF DaemonInv, DaemonTypeOK, Bind
  <1>1. /\ life[p] = IF port = "http" THEN "scheduled" ELSE "http"
        /\ life'[p] = IF port = "http" THEN "http" ELSE "serving"
        /\ \A q \in Pids \ {p} : life'[q] = life[q]
        /\ life' \in [Pids -> LifePhases]
        /\ UNCHANGED <<leaving, heir, fate, overdue, ranBy, disturbed>>
    BY DEF LifePhases
  <1>2. p \in Alive /\ Alive' = Alive
    BY <1>1 DEF Alive
  <1>3. DaemonTypeOK'
    BY <1>1, <1>2
  <1>4. \A q \in leaving : life'[q] \in {"http", "serving"}
    BY <1>1 DEF Alive
  <1>5. \A other \in Ports : other # port => Bound(other)' \subseteq Bound(other)
    BY <1>1 DEF Bound, Ports
  <1>6. Bound(port)' \subseteq {p}
    BY <1>1 DEF Bound, Ports
  <1>7. ASSUME ~disturbed PROVE Undisturbed'
    <2>1. \A q \in Pids : life[q] \in InMissedRun => life'[q] \in InMissedRun
      BY <1>1 DEF InMissedRun
    <2> QED BY <1>1, <1>2, <1>7, <2>1 DEF Undisturbed
  <1> QED BY <1>1, <1>3, <1>4, <1>5, <1>6, <1>7

LEMMA DaemonStepInv == DaemonInv /\ [DaemonNext]_daemonVars => DaemonInv'
  <1> SUFFICES ASSUME DaemonInv, [DaemonNext]_daemonVars PROVE DaemonInv'
    OBVIOUS
  <1> USE DaemonAssumption
  <1>t. DaemonTypeOK
    BY DEF DaemonInv
  <1>1. ASSUME NEW p \in Pids, Launch(p) PROVE DaemonInv'
    BY <1>t, <1>1, BornInv DEF Launch, DaemonTypeOK
  <1>2. ASSUME NEW p \in Pids, NEW child \in Pids, CmdRestart(p, child) PROVE DaemonInv'
    BY <1>t, <1>2, BornInv DEF CmdRestart, DaemonTypeOK
  <1>3. ASSUME NEW p \in Pids, OpenDatabases(p) PROVE DaemonInv'
    <2>1. CASE Moves(p, "opening", "listening") /\ UNCHANGED <<leaving, fate>>
      <3>1. /\ life[p] = "opening" /\ life' = [life EXCEPT ![p] = "listening"]
            /\ UNCHANGED <<leaving, heir, fate, overdue, ranBy, disturbed>>
        BY <1>3, <2>1 DEF OpenDatabases, Moves
      <3>2. /\ "opening" \in Booting /\ "opening" \notin InMissedRun
            /\ "listening" \in LifePhases \ {"unborn", "dead"}
        BY DEF LifePhases, Booting, InMissedRun
      <3> QED BY <1>t, <3>1, <3>2, MoveInv DEF DaemonTypeOK
    <2>2. CASE life[p] = "opening" /\ Dies(p, "database")
      BY <1>t, <1>3, <2>2, DiesInv DEF OpenDatabases, Alive, InMissedRun, DaemonTypeOK
    <2> QED BY <1>3, <2>1, <2>2 DEF OpenDatabases
  <1>4. ASSUME NEW p \in Pids, ListMissed(p) PROVE DaemonInv'
    <2>1. CASE ~overdue
      <3>1. /\ life[p] = "listening" /\ life' = [life EXCEPT ![p] = "scheduled"]
            /\ UNCHANGED <<leaving, heir, fate, overdue, ranBy, disturbed>>
        BY <1>4, <2>1 DEF ListMissed, Moves
      <3>2. /\ "listening" \in Booting /\ "listening" \notin InMissedRun
            /\ "scheduled" \in LifePhases \ {"unborn", "dead"}
        BY DEF LifePhases, Booting, InMissedRun
      <3> QED BY <1>t, <3>1, <3>2, MoveInv DEF DaemonTypeOK
    <2> QED BY <1>4, <2>1, ListMissedInv
  <1>5. ASSUME NEW p \in Pids, RunMissedJob(p) \/ ApprovalAnswered(p) \/ ApprovalExpires(p)
        PROVE  DaemonInv'
    <2>1. PICK to \in {"asking", "ran"} :
            life[p] \in {"missed", "asking"} /\ life' = [life EXCEPT ![p] = to]
      BY <1>5 DEF RunMissedJob, ApprovalAnswered, ApprovalExpires, Moves
    <2>2. UNCHANGED <<leaving, heir, fate, overdue, ranBy, disturbed>>
      BY <1>5 DEF RunMissedJob, ApprovalAnswered, ApprovalExpires
    <2>3. /\ life[p] \in Booting /\ life[p] # "http"
          /\ to \in LifePhases \ {"unborn", "dead"} /\ to \in InMissedRun
          /\ to \notin {"http", "serving"}
      BY <2>1 DEF LifePhases, Booting, InMissedRun
    <2> QED BY <1>t, <2>1, <2>2, <2>3, MoveInv DEF DaemonTypeOK
  <1>6. ASSUME NEW p \in Pids, RecordMissedRun(p) PROVE DaemonInv'
    <2>1. /\ life[p] = "ran" /\ life' = [life EXCEPT ![p] = "scheduled"]
          /\ UNCHANGED <<leaving, heir, fate, ranBy>>
      BY <1>6 DEF RecordMissedRun, Moves
    <2>3. /\ overdue' \in BOOLEAN /\ disturbed' \in BOOLEAN
          /\ overdue' => overdue
          /\ disturbed => disturbed'
          /\ ~overdue' \/ disturbed'
      <3>1. overdue \in BOOLEAN /\ disturbed \in BOOLEAN
        BY <1>t DEF DaemonTypeOK
      <3>2. CASE overdue' = FALSE /\ disturbed' = disturbed
        BY <3>1, <3>2
      <3>3. CASE overdue' = overdue /\ disturbed' = TRUE
        BY <3>1, <3>3
      <3> QED BY <1>6, <3>2, <3>3 DEF RecordMissedRun
    <2>2. "ran" \in Booting /\ "scheduled" \in LifePhases \ {"unborn", "dead"}
      BY DEF LifePhases, Booting
    <2> QED BY <2>1, <2>2, <2>3, MoveInv
  <1>7. ASSUME NEW p \in Pids, SchedulerFails(p) PROVE DaemonInv'
    <2>1. /\ life[p] = "listening" /\ life' = [life EXCEPT ![p] = "scheduled"]
          /\ UNCHANGED <<leaving, heir, fate, overdue, ranBy, disturbed>>
      BY <1>7 DEF SchedulerFails, Moves
    <2>2. /\ "listening" \in Booting /\ "listening" \notin InMissedRun
          /\ "scheduled" \in LifePhases \ {"unborn", "dead"}
      BY DEF LifePhases, Booting, InMissedRun
    <2> QED BY <1>t, <2>1, <2>2, MoveInv DEF DaemonTypeOK
  <1>8. ASSUME NEW p \in Pids, NEW port \in Ports, Bind(p, port) PROVE DaemonInv'
    <2>1. CASE Bound(port) # {}
      BY <1>t, <1>8, <2>1, DiesInv DEF Bind, Alive, InMissedRun, DaemonTypeOK
    <2> QED BY <1>8, <2>1, BindInv
  <1>9. ASSUME NEW p \in Pids, ExitAfterDelay(p) PROVE DaemonInv'
    <2>1. p \in Alive /\ life[p] \notin InMissedRun
      BY <1>9 DEF DaemonInv, DaemonTypeOK, ExitAfterDelay, InMissedRun
    <2> QED BY <1>t, <1>9, <2>1, DiesInv DEF ExitAfterDelay, DaemonTypeOK
  <1>10. ASSUME NEW p \in Pids, Killed(p) PROVE DaemonInv'
    BY <1>t, <1>10, DiesInv DEF Killed, InMissedRun, DaemonTypeOK
  <1>11. ASSUME UNCHANGED daemonVars PROVE DaemonInv'
    BY <1>11 DEF daemonVars, DaemonInv, DaemonTypeOK, Undisturbed, Alive, Bound
  <1> QED
    BY <1>1, <1>2, <1>3, <1>4, <1>5, <1>6, <1>7, <1>8, <1>9, <1>10, <1>11
    DEF DaemonNext, BootStep

(* However many processes are started, restarted and killed: a missed run  *)
(* of a job is made good twice only when two processes were alive at once, *)
(* or when a run was cut short or not recorded.                            *)
THEOREM MissedRunsMadeGood == DaemonSpec => []MissedRunMadeGoodOnce
  <1>1. DaemonInv => MissedRunMadeGoodOnce
    <2> SUFFICES ASSUME DaemonInv, ~disturbed PROVE ~(Cardinality(ranBy) > 1)
      BY DEF MissedRunMadeGoodOnce
    <2>1. ranBy = {} \/ \E p : ranBy = {p}
      BY DEF DaemonInv, Undisturbed
    <2>2. Cardinality(ranBy) \in {0, 1}
      BY <2>1, FS_EmptySet, FS_Singleton
    <2> QED BY <2>2
  <1> QED BY <1>1, DaemonInitInv, DaemonStepInv, PTL DEF DaemonSpec

(* Two daemons never serve one port, whoever started them. *)
THEOREM PortsAreExclusive == DaemonSpec => []PortsExclusive
  <1>1. DaemonInv => PortsExclusive
    <2> SUFFICES ASSUME DaemonInv, NEW port \in Ports PROVE Cardinality(Bound(port)) <= 1
      BY DEF PortsExclusive
    <2>1. Bound(port) = {} \/ \E p : Bound(port) = {p}
      BY DEF DaemonInv
    <2>2. Cardinality(Bound(port)) \in {0, 1}
      BY <2>1, FS_EmptySet, FS_Singleton
    <2> QED BY <2>2
  <1> QED BY <1>1, DaemonInitInv, DaemonStepInv, PTL DEF DaemonSpec

(* Daemon: the types (DaemonTypeOK); only a live process is leaving.       *)
THEOREM DaemonTypeCorrect == DaemonSpec => []DaemonTypeOK
  <1>1. DaemonInv => DaemonTypeOK
    BY DEF DaemonInv
  <1> QED BY DaemonInitInv, DaemonStepInv, <1>1, PTL DEF DaemonSpec

-----------------------------------------------------------------------------
(* MessageRouter: where an update is, and whose turn it is.                *)

(* The next update to put into the channel. *)
Base == IF offset = 0 THEN confirmed + 1 ELSE offset

Accounted == settled \cup {current} \cup InSeq(channel) \cup Gone

(* The batch goes on where the channel ends. *)
BatchInv ==
  /\ Base \in 1 .. sent + 1 /\ confirmed < Base /\ Base + Len(batch) <= sent + 1
  /\ \A i \in DOMAIN batch : batch[i] = Base + i - 1
  /\ ~running => offset = 0 /\ batch = <<>>

AccountInv == \A u \in 1 .. Base - 1 : kind[u] \in Handled => u \in Accounted

(* What was taken comes before what is in the channel, and this before the *)
(* batch.                                                                  *)
OrderInv ==
  /\ \A i, j \in DOMAIN taken : i < j => taken[i] < taken[j]
  /\ \A i, j \in DOMAIN channel : i < j => channel[i] < channel[j]
  /\ \A i \in DOMAIN taken, j \in DOMAIN channel : taken[i] < channel[j]
  /\ \A i \in DOMAIN taken : taken[i] < Base
  /\ \A i \in DOMAIN channel : channel[i] < Base

(* An update that was not answered in this life has at most one answer for *)
(* each life before.                                                       *)
PostedInv ==
  /\ current # NoUpdate => current \in InSeq(taken)
  /\ \A u \in Update : /\ posted[u] <= 1 + crashes
                       /\ u \notin InSeq(taken) \/ u = current => posted[u] <= crashes

AwaitInv == approval["chat"] = "pending" => listener = "waiting"

RouterInv == RouterTypeOK /\ BatchInv /\ AccountInv /\ OrderInv /\ PostedInv /\ AwaitInv

LEMMA InSeqTail ==
  ASSUME NEW s \in Seq(Update), s # <<>>
  PROVE  /\ Tail(s) \in Seq(Update) /\ Len(Tail(s)) = Len(s) - 1 /\ Head(s) \in Update
         /\ Head(s) = s[1] /\ 1 \in DOMAIN s
         /\ \A i \in DOMAIN Tail(s) : i + 1 \in DOMAIN s /\ Tail(s)[i] = s[i + 1]
         /\ InSeq(s) = {Head(s)} \cup InSeq(Tail(s))
  <1>1. /\ Tail(s) \in Seq(Update) /\ Len(Tail(s)) = Len(s) - 1 /\ Head(s) \in Update
        /\ Head(s) = s[1] /\ 1 \in DOMAIN s
        /\ \A i \in DOMAIN Tail(s) : i + 1 \in DOMAIN s /\ Tail(s)[i] = s[i + 1]
    OBVIOUS
  <1>2. ASSUME NEW i \in DOMAIN s PROVE s[i] = Head(s) \/ s[i] \in InSeq(Tail(s))
    <2>1. CASE i = 1
      BY <1>1, <2>1
    <2>2. CASE i # 1
      <3>1. i - 1 \in DOMAIN Tail(s) /\ Tail(s)[i - 1] = s[i]
        BY <2>2
      <3> QED BY <3>1 DEF InSeq
    <2> QED BY <2>1, <2>2
  <1>3. InSeq(s) \subseteq {Head(s)} \cup InSeq(Tail(s))
    BY <1>2 DEF InSeq
  <1>4. {Head(s)} \cup InSeq(Tail(s)) \subseteq InSeq(s)
    BY <1>1 DEF InSeq
  <1> QED BY <1>1, <1>3, <1>4

LEMMA InSeqAppend ==
  ASSUME NEW s \in Seq(Update), NEW u \in Update
  PROVE  /\ Append(s, u) \in Seq(Update) /\ Len(Append(s, u)) = Len(s) + 1
         /\ \A i \in DOMAIN Append(s, u) : \/ i \in DOMAIN s /\ Append(s, u)[i] = s[i]
                                           \/ i = Len(s) + 1 /\ Append(s, u)[i] = u
         /\ InSeq(Append(s, u)) = InSeq(s) \cup {u}
  <1>1. DOMAIN Append(s, u) = DOMAIN s \cup {Len(s) + 1}
    OBVIOUS
  <1>2. \A i \in DOMAIN s : Append(s, u)[i] = s[i]
    OBVIOUS
  <1>3. Append(s, u)[Len(s) + 1] = u
    OBVIOUS
  <1>4. InSeq(Append(s, u)) = InSeq(s) \cup {u}
    BY <1>1, <1>2, <1>3 DEF InSeq
  <1> QED BY <1>1, <1>2, <1>3, <1>4

LEMMA Numbered ==
  ASSUME NEW n \in Nat, NEW f \in [1 .. n -> Update]
  PROVE  f \in Seq(Update) /\ Len(f) = n
  OBVIOUS

LEMMA NoneLeft == <<>> \in Seq(Update) /\ Len(<<>>) = 0 /\ InSeq(<<>>) = {}
  BY DEF InSeq

LEMMA RouterInitInv == RouterInit => RouterInv
  <1> SUFFICES ASSUME RouterInit PROVE RouterInv
    OBVIOUS
  <1> USE RouterAssumption DEF RouterInit
  <1>1. RouterTypeOK
    <2>1. batch \in Seq(Update) /\ channel \in Seq(Update) /\ taken \in Seq(Update) /\ Len(channel) = 0
      OBVIOUS
    <2>2. /\ kind \in [Update -> Kind] /\ lost \in [Reason -> SUBSET Update]
          /\ approval \in [Origin -> {"none", "pending", "orphaned", "approved", "closed"}]
          /\ posted \in [Update -> Nat]
      BY DEF Kind
    <2>3. tries \in 0 .. SendAttempts - 1
      BY DEF SendAttempts
    <2>4. sent \in 0 .. MaxUpdates /\ confirmed \in 0 .. sent /\ offset \in 0 .. sent + 1
      OBVIOUS
    <2>5. running \in BOOLEAN /\ gateway \in BOOLEAN
      OBVIOUS
    <2>8. crashes \in 0 .. MaxCrashes /\ settled \subseteq Update
      OBVIOUS
    <2>7. Len(channel) <= ChannelCapacity
      BY <2>1
    <2>6. listener = "down" /\ current = NoUpdate
      OBVIOUS
    <2> QED BY ONLY <2>1, <2>2, <2>3, <2>4, <2>5, <2>6, <2>7, <2>8 DEF RouterTypeOK
  <1>2. BatchInv /\ AccountInv /\ OrderInv
    BY DEF BatchInv, AccountInv, OrderInv, Base
  <1>3. PostedInv /\ AwaitInv
    BY DEF PostedInv, AwaitInv, Origin
  <1> QED BY <1>1, <1>2, <1>3 DEF RouterInv

(* The steps that move no update. *)
LEMMA NothingMoves ==
  ASSUME RouterInv, RouterTypeOK', AwaitInv',
         UNCHANGED <<serverVars, pollerVars, channel, current, taken, settled, posted, lost, crashes>>
  PROVE  RouterInv'
  <1> USE DEF serverVars, pollerVars
  <1>1. BatchInv' /\ OrderInv' /\ PostedInv'
    BY DEF RouterInv, BatchInv, OrderInv, PostedInv, Base, InSeq
  <1>2. AccountInv'
    BY DEF RouterInv, AccountInv, Base, Accounted, Gone, InSeq
  <1> QED BY <1>1, <1>2 DEF RouterInv

LEMMA RouterStepInv == RouterInv /\ [RouterNext]_routerVars => RouterInv'
  <1> SUFFICES ASSUME RouterInv, [RouterNext]_routerVars PROVE RouterInv'
    OBVIOUS
  <1> USE RouterAssumption
  <1>t. RouterTypeOK /\ BatchInv /\ AccountInv /\ OrderInv /\ PostedInv /\ AwaitInv
    BY DEF RouterInv
  <1>a. approval \in [Origin -> {"none", "pending", "orphaned", "approved", "closed"}]
    BY <1>t DEF RouterTypeOK
  <1>1. ASSUME NEW o \in Origin, DecideElsewhere(o) \/ Expire(o) PROVE RouterInv'
    <2>1. approval' = [approval EXCEPT ![o] = "closed"] /\ UNCHANGED listener
      BY <1>1 DEF DecideElsewhere, Expire, listenerVars
    <2>2. UNCHANGED <<serverVars, pollerVars, channel, listenerVars, outcomeVars, lost, crashes>>
      BY <1>1 DEF DecideElsewhere, Expire
    <2>3. RouterTypeOK' /\ AwaitInv'
      BY <1>t, <1>a, <2>1, <2>2
      DEF RouterTypeOK, AwaitInv, serverVars, pollerVars, listenerVars, outcomeVars, Origin
    <2> QED BY <2>2, <2>3, NothingMoves DEF listenerVars, outcomeVars
  <1>2. CASE JobAsks
    <2>1. approval' = [approval EXCEPT !["job"] = "pending"]
      BY <1>2 DEF JobAsks
    <2>2. UNCHANGED <<serverVars, pollerVars, channel, listenerVars, outcomeVars, lost, crashes>>
      BY <1>2 DEF JobAsks
    <2>3. RouterTypeOK' /\ AwaitInv'
      BY <1>t, <1>a, <2>1, <2>2
      DEF RouterTypeOK, AwaitInv, serverVars, pollerVars, listenerVars, outcomeVars, Origin
    <2> QED BY <2>2, <2>3, NothingMoves DEF listenerVars, outcomeVars
  <1>3. CASE Subscribe
    <2>1. UNCHANGED <<serverVars, pollerVars, channel, current, taken, tries, approval, outcomeVars,
                      lost, crashes>> /\ listener = "down" /\ listener' = "idle"
      BY <1>3 DEF Subscribe
    <2>2. RouterTypeOK' /\ AwaitInv'
      BY <1>t, <2>1 DEF RouterTypeOK, AwaitInv, serverVars, pollerVars, outcomeVars
    <2> QED BY <2>1, <2>2, NothingMoves DEF outcomeVars
  <1>g. ASSUME NEW l \in {"gateway", "agent", "waiting", "answer"}, Goto(l),
               listener \in {"routing", "gateway", "agent", "waiting"},
               approval' \in [Origin -> {"none", "pending", "orphaned", "approved", "closed"}],
               approval'["chat"] = "pending" => l = "waiting",
               UNCHANGED <<serverVars, pollerVars, channel, outcomeVars, lost, crashes>>
        PROVE  RouterInv'
    <2>1. UNCHANGED <<current, taken, tries>> /\ listener' = l
      BY <1>g DEF Goto
    <2>2. RouterTypeOK' /\ AwaitInv'
      BY <1>t, <1>g, <2>1 DEF RouterTypeOK, AwaitInv, serverVars, pollerVars, outcomeVars
    <2> QED BY <1>g, <2>1, <2>2, NothingMoves DEF outcomeVars
  <1>4. CASE StartRun \/ AskGateway \/ AnswerAtOnce \/ GatewayAnswers \/ RunEnds \/ RunGoesOn
    <2>1. /\ UNCHANGED <<approval, serverVars, pollerVars, channel, outcomeVars, lost, crashes>>
          /\ approval["chat"] # "pending"
      BY <1>t, <1>4
      DEF StartRun, AskGateway, AnswerAtOnce, GatewayAnswers, RunEnds, RunGoesOn, AwaitInv
    <2>2. /\ listener \in {"routing", "gateway", "agent", "waiting"}
          /\ \E l \in {"gateway", "agent", "answer"} : Goto(l)
      BY <1>4 DEF StartRun, AskGateway, AnswerAtOnce, GatewayAnswers, RunEnds, RunGoesOn
    <2> QED BY <1>a, <1>g, <2>1, <2>2
  <1>5. CASE RunAsks
    <2>1. approval' \in [Origin -> {"none", "pending", "orphaned", "approved", "closed"}]
      BY <1>a, <1>5 DEF RunAsks
    <2> QED BY <1>g, <1>5, <2>1 DEF RunAsks
  <1>6. ASSUME NEW o \in Origin, PressButton(o) PROVE RouterInv'
    <2>1. approval' \in [Origin -> {"none", "pending", "orphaned", "approved", "closed"}]
      BY <1>a, <1>6 DEF PressButton
    <2>2. approval'["chat"] # "pending"
      BY <1>a, <1>t, <1>6 DEF PressButton, AwaitInv, Origin
    <2> QED BY <1>g, <1>6, <2>1, <2>2 DEF PressButton
  <1>7. CASE RateLimited
    <2>1. UNCHANGED <<serverVars, pollerVars, channel, listener, current, taken, approval,
                      outcomeVars, lost, crashes>> /\ tries + 1 < SendAttempts /\ tries' = tries + 1
      BY <1>7 DEF RateLimited
    <2>2. RouterTypeOK' /\ AwaitInv'
      BY <1>t, <2>1 DEF RouterTypeOK, AwaitInv, serverVars, pollerVars, outcomeVars, SendAttempts
    <2> QED BY <2>1, <2>2, NothingMoves DEF outcomeVars
  <1>8. CASE UNCHANGED routerVars
    <2>1. RouterTypeOK' /\ AwaitInv'
      BY <1>t, <1>8 DEF RouterTypeOK, AwaitInv, routerVars
    <2> QED BY <1>8, <2>1, NothingMoves DEF routerVars, serverVars, pollerVars
  <1>9. ASSUME NEW k \in Kind, Send(k) PROVE RouterInv'
    <2>1. /\ UNCHANGED <<confirmed, pollerVars, channel, listenerVars, approval, outcomeVars, lost,
                         crashes>>
          /\ sent' = sent + 1 /\ sent < MaxUpdates /\ kind' = [kind EXCEPT ![sent + 1] = k]
      BY <1>9 DEF Send
    <2> USE <2>1 DEF pollerVars, listenerVars, outcomeVars
    <2>2. RouterTypeOK'
      BY <1>t DEF RouterTypeOK, Update
    <2>3. BatchInv' /\ OrderInv' /\ PostedInv' /\ AwaitInv'
      BY <1>t DEF RouterTypeOK, BatchInv, OrderInv, PostedInv, AwaitInv, Base, InSeq
    <2>4. AccountInv'
      <3>1. \A u \in 1 .. Base - 1 : kind'[u] = kind[u]
        BY <1>t DEF RouterTypeOK, BatchInv
      <3>2. Base' = Base /\ Accounted' = Accounted
        BY DEF Base, Accounted, InSeq, Gone
      <3> QED BY <1>t, <3>1, <3>2 DEF AccountInv
    <2> QED BY <2>2, <2>3, <2>4 DEF RouterInv
  <1>10. CASE Connect
    <2>1. /\ UNCHANGED <<serverVars, batch, channel, listenerVars, approval, outcomeVars, lost,
                         crashes>>
          /\ running' = TRUE /\ offset' = 0 /\ offset = 0 /\ batch = <<>>
      BY <1>t, <1>10 DEF Connect, BatchInv
    <2> USE <2>1 DEF serverVars, listenerVars, outcomeVars
    <2>2. RouterTypeOK'
      BY <1>t DEF RouterTypeOK
    <2>3. BatchInv' /\ OrderInv' /\ PostedInv' /\ AwaitInv'
      BY <1>t DEF BatchInv, OrderInv, PostedInv, AwaitInv, Base, InSeq
    <2>4. AccountInv'
      BY <1>t DEF AccountInv, Base, Accounted, InSeq, Gone
    <2> QED BY <2>2, <2>3, <2>4 DEF RouterInv
  <1>11. CASE Poll
    <2>1. /\ UNCHANGED <<sent, kind, running, offset, channel, listenerVars, approval, outcomeVars,
                         lost, crashes>>
          /\ running /\ confirmed' = Confirmed
          /\ batch' \in {<<>>, [i \in 1 .. sent - confirmed' |-> confirmed' + i]}
      BY <1>11 DEF Poll
    <2> USE <2>1 DEF listenerVars, outcomeVars
    <2>2. /\ confirmed' = Base - 1 /\ Base' = Base /\ confirmed' \in 0 .. sent
          /\ offset \in 0 .. sent + 1
      BY <1>t DEF RouterTypeOK, BatchInv, Base, Confirmed
    <2>3. /\ batch' \in Seq(Update) /\ Base + Len(batch') <= sent + 1
          /\ \A i \in DOMAIN batch' : batch'[i] = Base + i - 1
      <3>1. CASE batch' = <<>>
        BY <1>t, <3>1, NoneLeft DEF BatchInv, RouterTypeOK
      <3>2. CASE batch' = [i \in 1 .. sent - confirmed' |-> confirmed' + i]
        <4>1. sent - confirmed' \in Nat /\ sent \in 0 .. MaxUpdates
          BY <1>t, <2>2 DEF RouterTypeOK
        <4>2. \A i \in 1 .. sent - confirmed' : confirmed' + i \in Update
          BY <2>2, <4>1 DEF Update
        <4>3. batch' \in [1 .. sent - confirmed' -> Update]
          BY <3>2, <4>1, <4>2
        <4>4. batch' \in Seq(Update) /\ Len(batch') = sent - confirmed'
          <5>1. PICK n \in Nat : n = sent - confirmed'
            BY <4>1
          <5>2. PICK f \in [1 .. n -> Update] : f = batch'
            BY <4>3, <5>1
          <5> QED BY <5>1, <5>2, Numbered
        <4>5. \A i \in 1 .. sent - confirmed' : confirmed' + i = Base + i - 1
          BY <2>2, <4>1, <1>t DEF BatchInv
        <4> QED BY <1>t, <2>2, <3>2, <4>1, <4>4, <4>5 DEF BatchInv
      <3> QED BY <3>1, <3>2
    <2>4. RouterTypeOK'
      BY <1>t, <2>2, <2>3 DEF RouterTypeOK
    <2>5. BatchInv'
      BY <1>t, <2>2, <2>3 DEF RouterTypeOK, BatchInv
    <2>6. OrderInv' /\ PostedInv' /\ AwaitInv'
      BY <1>t, <2>2 DEF OrderInv, PostedInv, AwaitInv, InSeq
    <2>7. AccountInv'
      BY <1>t, <2>2 DEF AccountInv, Accounted, InSeq, Gone
    <2> QED BY <2>4, <2>5, <2>6, <2>7 DEF RouterInv
  <1>s. /\ batch \in Seq(Update) /\ channel \in Seq(Update) /\ taken \in Seq(Update)
        /\ sent \in Nat /\ offset \in Nat /\ confirmed \in Nat /\ Base \in Nat
        /\ lost \in [Reason -> SUBSET Update]
    BY <1>t DEF RouterTypeOK, Base, BatchInv
  <1>12. CASE Dispatch
    <2> DEFINE u == Head(batch)
    <2>1. /\ running /\ batch # <<>> /\ offset' = u + 1 /\ batch' = Tail(batch)
          /\ UNCHANGED <<serverVars, running, listenerVars, approval, outcomeVars, crashes>>
      BY <1>12 DEF Dispatch
    <2>2. \/ kind[u] = "dropped" /\ UNCHANGED <<channel, lost>>
          \/ lost' = [lost EXCEPT !["unheard"] = @ \cup {u}] /\ UNCHANGED channel
          \/ /\ Len(channel) = ChannelCapacity
             /\ lost' = [lost EXCEPT !["lagged"] = @ \cup {Head(channel)}]
             /\ channel' = Append(Tail(channel), u)
          \/ /\ Len(channel) # ChannelCapacity
             /\ channel' = Append(channel, u) /\ UNCHANGED lost
      BY <1>12 DEF Dispatch
    <2> USE <2>1 DEF serverVars, listenerVars, outcomeVars
    <2>3. u \in Update /\ u = Base /\ 1 \in DOMAIN batch
      BY <1>t, <1>s, InSeqTail DEF BatchInv
    <2>4. /\ batch' \in Seq(Update)
          /\ \A i \in DOMAIN batch' : i + 1 \in DOMAIN batch /\ batch'[i] = batch[i + 1] /\ i \in Nat
      BY <1>s, InSeqTail
    <2>5. u <= sent /\ Base + 1 + Len(batch') <= sent + 1
      BY <1>t, <1>s, <2>3, InSeqTail DEF BatchInv
    <2> HIDE DEF u
    <2>6. Base' = Base + 1 /\ u \in Nat /\ u # 0
      BY <1>s, <2>3 DEF Base, Update
    <2>7. Len(channel) <= ChannelCapacity /\ \A i \in DOMAIN channel : channel[i] < u
      BY <1>t, <2>3 DEF RouterTypeOK, OrderInv
    <2>8. /\ channel' \in Seq(Update) /\ Len(channel') <= ChannelCapacity
          /\ lost' \in [Reason -> SUBSET Update]
          /\ \A i \in DOMAIN channel' : \/ channel'[i] = u
                                        \/ \E j \in DOMAIN channel : channel'[i] = channel[j]
          /\ \A i, j \in DOMAIN channel' : i < j => channel'[i] < channel'[j]
          /\ InSeq(channel) \cup Gone \cup (IF kind[u] \in Handled THEN {u} ELSE {})
               \subseteq InSeq(channel') \cup Gone'
      <3>1. CASE kind[u] = "dropped" /\ UNCHANGED <<channel, lost>>
        BY <1>t, <1>s, <2>7, <3>1 DEF OrderInv, Handled, Gone, InSeq
      <3>2. CASE lost' = [lost EXCEPT !["unheard"] = @ \cup {u}] /\ UNCHANGED channel
        <4>1. "unheard" \in Reason
          BY DEF Reason
        <4>2. /\ lost' \in [Reason -> SUBSET Update] /\ u \in lost'["unheard"]
              /\ \A r \in Reason : lost[r] \subseteq lost'[r]
          BY <1>s, <2>3, <3>2, <4>1
        <4>3. Gone \cup {u} \subseteq Gone'
          BY <4>1, <4>2 DEF Gone
        <4> QED BY <1>t, <1>s, <2>7, <3>2, <4>2, <4>3 DEF OrderInv, InSeq
      <3>3. CASE /\ Len(channel) = ChannelCapacity
                 /\ lost' = [lost EXCEPT !["lagged"] = @ \cup {Head(channel)}]
                 /\ channel' = Append(Tail(channel), u)
        <4>1. "lagged" \in Reason /\ channel # <<>>
          BY <3>3 DEF Reason
        <4>2. PICK rest \in Seq(Update) : rest = Tail(channel)
          BY <1>s, <4>1, InSeqTail
        <4>3. /\ Len(rest) = Len(channel) - 1 /\ Head(channel) \in Update
              /\ \A i \in DOMAIN rest : i + 1 \in DOMAIN channel /\ rest[i] = channel[i + 1]
              /\ InSeq(channel) = {Head(channel)} \cup InSeq(rest)
          BY <1>s, <4>1, <4>2, InSeqTail
        <4>4. /\ channel' \in Seq(Update) /\ Len(channel') = Len(rest) + 1
              /\ \A i \in DOMAIN channel' : \/ i \in DOMAIN rest /\ channel'[i] = rest[i]
                                            \/ i = Len(rest) + 1 /\ channel'[i] = u
              /\ InSeq(channel') = InSeq(rest) \cup {u}
          BY <2>3, <3>3, <4>2, InSeqAppend
        <4>5. /\ lost' \in [Reason -> SUBSET Update] /\ Head(channel) \in lost'["lagged"]
              /\ \A r \in Reason : lost[r] \subseteq lost'[r]
          BY <1>s, <3>3, <4>1, <4>3
        <4>6. Gone \cup {Head(channel)} \subseteq Gone'
          BY <4>1, <4>5 DEF Gone
        <4>7. ASSUME NEW i \in DOMAIN channel', NEW j \in DOMAIN channel', i < j
              PROVE  channel'[i] < channel'[j]
          <5>1. \A k, l \in DOMAIN channel : k < l => channel[k] < channel[l]
            BY <1>t DEF OrderInv
          <5>2. DOMAIN rest = 1 .. Len(rest) /\ DOMAIN channel' = 1 .. Len(rest) + 1 /\ Len(rest) \in Nat
            BY <4>2, <4>4
          <5>3. i \in DOMAIN rest /\ channel'[i] = channel[i + 1] /\ i + 1 \in DOMAIN channel
            BY <4>3, <4>4, <4>7, <5>2
          <5> QED BY <2>7, <4>3, <4>4, <4>7, <5>1, <5>2, <5>3
        <4>8. \A i \in DOMAIN channel' : \/ channel'[i] = u
                                         \/ \E j \in DOMAIN channel : channel'[i] = channel[j]
          BY <4>3, <4>4
        <4>9. Len(channel') <= ChannelCapacity
          BY <1>s, <3>3, <4>3, <4>4
        <4> QED BY <4>3, <4>4, <4>5, <4>6, <4>7, <4>8, <4>9
      <3>4. CASE /\ Len(channel) # ChannelCapacity
                 /\ channel' = Append(channel, u) /\ UNCHANGED lost
        <4>1. /\ channel' \in Seq(Update) /\ Len(channel') = Len(channel) + 1
              /\ \A i \in DOMAIN channel' : \/ i \in DOMAIN channel /\ channel'[i] = channel[i]
                                            \/ i = Len(channel) + 1 /\ channel'[i] = u
              /\ InSeq(channel') = InSeq(channel) \cup {u}
          BY <1>s, <2>3, <3>4, InSeqAppend
        <4>2. Gone' = Gone
          BY <3>4 DEF Gone
        <4>3. ASSUME NEW i \in DOMAIN channel', NEW j \in DOMAIN channel', i < j
              PROVE  channel'[i] < channel'[j]
          <5>1. \A k, l \in DOMAIN channel : k < l => channel[k] < channel[l]
            BY <1>t DEF OrderInv
          <5>2. DOMAIN channel = 1 .. Len(channel) /\ DOMAIN channel' = 1 .. Len(channel) + 1
                /\ Len(channel) \in Nat
            BY <1>s, <4>1
          <5>3. i \in DOMAIN channel /\ channel'[i] = channel[i]
            BY <4>1, <4>3, <5>2
          <5> QED BY <2>7, <4>1, <4>3, <5>1, <5>2, <5>3
        <4>4. Len(channel') <= ChannelCapacity
          BY <1>s, <2>7, <3>4, <4>1
        <4> QED BY <1>s, <3>4, <4>1, <4>2, <4>3, <4>4
      <3> QED BY <2>2, <3>1, <3>2, <3>3, <3>4
    <2>9. \A i \in DOMAIN channel' : channel'[i] < u + 1
      <3>1. \A j \in DOMAIN channel : channel[j] \in Nat
        BY <1>s DEF Update
      <3> QED BY <2>6, <2>7, <2>8, <3>1
    <2>10. RouterTypeOK'
      <3>1. offset' \in 0 .. sent + 1
        BY <1>s, <2>5, <2>6
      <3>2. batch' \in Seq(Update) /\ channel' \in Seq(Update) /\ Len(channel') <= ChannelCapacity
            /\ lost' \in [Reason -> SUBSET Update]
        BY <2>4, <2>8
      <3>3. UNCHANGED <<sent, kind, confirmed, running, listener, current, taken, tries, approval,
                        settled, posted, gateway, crashes>>
        OBVIOUS
      <3> QED BY ONLY <1>t, <3>1, <3>2, <3>3 DEF RouterTypeOK
    <2>11. BatchInv'
      <3>1. Len(batch') \in Nat
        BY <2>4
      <3>2. Base' \in 1 .. sent + 1 /\ confirmed < Base' /\ Base' + Len(batch') <= sent + 1
        BY <1>t, <1>s, <2>5, <2>6, <3>1 DEF BatchInv
      <3>3. \A i \in DOMAIN batch' : batch'[i] = Base' + i - 1
        BY <1>t, <1>s, <2>4, <2>6 DEF BatchInv
      <3> QED BY <3>2, <3>3 DEF BatchInv
    <2>12. OrderInv'
      <3>1. \A i \in DOMAIN taken : taken[i] < u /\ taken[i] \in Nat
        BY <1>t, <1>s, <2>3 DEF OrderInv, Update
      <3>2. \A i \in DOMAIN taken, j \in DOMAIN channel' : taken[i] < channel'[j]
        BY <1>t, <2>8, <3>1 DEF OrderInv
      <3>3. \A i \in DOMAIN taken : taken[i] < u + 1
        BY <2>6, <3>1
      <3> QED BY <1>t, <2>3, <2>6, <2>8, <2>9, <3>2, <3>3 DEF OrderInv
    <2>13. PostedInv' /\ AwaitInv'
      BY <1>t DEF PostedInv, AwaitInv, InSeq
    <2>14. AccountInv'
      <3>1. \A v \in 1 .. Base' - 1 : v \in 1 .. Base - 1 \/ v = u
        BY <1>s, <2>3, <2>6
      <3> QED BY <1>t, <2>8, <3>1 DEF AccountInv, Accounted
    <2> QED BY <2>10, <2>11, <2>12, <2>13, <2>14 DEF RouterInv
  <1>13. CASE Take
    <2>1. /\ listener = "idle" /\ channel # <<>> /\ current' = Head(channel)
          /\ channel' = Tail(channel) /\ taken' = Append(taken, Head(channel))
          /\ listener' = "routing"
          /\ UNCHANGED <<serverVars, pollerVars, tries, approval, outcomeVars, lost, crashes>>
      BY <1>13 DEF Take
    <2> USE <2>1 DEF serverVars, pollerVars, outcomeVars
    <2>2. PICK u \in Update : u = Head(channel) /\ u = channel[1] /\ u # NoUpdate
      BY <1>s, InSeqTail DEF Update, NoUpdate
    <2>3. /\ channel' \in Seq(Update) /\ Len(channel') = Len(channel) - 1
          /\ \A i \in DOMAIN channel' : i + 1 \in DOMAIN channel /\ channel'[i] = channel[i + 1]
          /\ InSeq(channel) = {u} \cup InSeq(channel') /\ 1 \in DOMAIN channel
      BY <1>s, <2>2, InSeqTail
    <2>4. /\ taken' \in Seq(Update)
          /\ \A i \in DOMAIN taken' : \/ i \in DOMAIN taken /\ taken'[i] = taken[i]
                                      \/ i = Len(taken) + 1 /\ taken'[i] = u
          /\ InSeq(taken') = InSeq(taken) \cup {u}
      BY <1>s, <2>2, InSeqAppend
    <2>5. current = NoUpdate /\ current' = u
      BY <1>t, <2>2 DEF RouterTypeOK
    <2>6. Base' = Base /\ Gone' = Gone
      BY DEF Base, Gone
    <2>7. RouterTypeOK' /\ AwaitInv'
      BY <1>t, <1>s, <2>2, <2>3, <2>4, <2>5 DEF RouterTypeOK, AwaitInv
    <2>8. BatchInv'
      BY <1>t, <2>6 DEF BatchInv
    <2>9. OrderInv'
      <3>1. /\ \A i, j \in DOMAIN taken : i < j => taken[i] < taken[j]
            /\ \A i, j \in DOMAIN channel : i < j => channel[i] < channel[j]
            /\ \A i \in DOMAIN taken, j \in DOMAIN channel : taken[i] < channel[j]
            /\ \A i \in DOMAIN taken : taken[i] < Base
            /\ \A i \in DOMAIN channel : channel[i] < Base
        BY <1>t DEF OrderInv
      <3>2. /\ DOMAIN taken = 1 .. Len(taken) /\ Len(taken) \in Nat
            /\ DOMAIN channel' \subseteq Nat \ {0}
            /\ DOMAIN taken' \subseteq Nat \ {0}
        BY <1>s, <2>3, <2>4
      <3>3. \A i, j \in DOMAIN taken' : i < j => taken'[i] < taken'[j]
        BY <2>2, <2>3, <2>4, <3>1, <3>2
      <3>4. \A j \in DOMAIN channel' : u < channel'[j]
        BY <2>2, <2>3, <3>1, <3>2
      <3>5. \A i, j \in DOMAIN channel' : i < j => channel'[i] < channel'[j]
        BY <2>3, <3>1, <3>2
      <3>6. \A i \in DOMAIN taken', j \in DOMAIN channel' : taken'[i] < channel'[j]
        BY <2>3, <2>4, <3>1, <3>4
      <3>7. \A i \in DOMAIN taken' : taken'[i] < Base
        BY <2>2, <2>3, <2>4, <3>1
      <3>8. \A i \in DOMAIN channel' : channel'[i] < Base
        BY <2>3, <3>1
      <3> QED BY <2>6, <3>3, <3>5, <3>6, <3>7, <3>8 DEF OrderInv
    <2>10. u \notin InSeq(taken)
      <3>1. \A i \in DOMAIN taken : taken[i] < u
        BY <1>t, <2>2, <2>3 DEF OrderInv
      <3> QED BY <3>1 DEF InSeq, Update
    <2>11. PostedInv'
      BY <1>t, <2>2, <2>4, <2>5, <2>10 DEF PostedInv
    <2>12. AccountInv'
      <3>1. Accounted \subseteq Accounted' \cup {NoUpdate}
        BY <2>3, <2>5, <2>6 DEF Accounted
      <3> QED BY <1>t, <1>s, <2>6, <3>1 DEF AccountInv, NoUpdate
    <2> QED BY <2>7, <2>8, <2>9, <2>11, <2>12 DEF RouterInv
  <1>14. CASE AgentMissing \/ Answer \/ AnswerRefused
    <2>1. /\ listener' = "idle" /\ current' = NoUpdate /\ tries' = 0
          /\ settled' = settled \cup {current}
          /\ UNCHANGED <<serverVars, pollerVars, channel, taken, approval, gateway, lost, crashes>>
          /\ listener \in {"routing", "answer"}
          /\ UNCHANGED posted \/ posted' = [posted EXCEPT ![current] = @ + 1]
      BY <1>14 DEF AgentMissing, Answer, AnswerRefused, Settle
    <2> USE <2>1 DEF serverVars, pollerVars
    <2>2. current \in Update /\ current # NoUpdate /\ current \in InSeq(taken)
      BY <1>t DEF RouterTypeOK, PostedInv
    <2>3. /\ posted' \in [Update -> Nat]
          /\ \A u \in Update : u # current => posted'[u] = posted[u]
          /\ posted'[current] <= posted[current] + 1
      BY <1>t, <2>2 DEF RouterTypeOK
    <2>4. RouterTypeOK' /\ AwaitInv'
      BY <1>t, <2>2, <2>3 DEF RouterTypeOK, AwaitInv, SendAttempts
    <2>5. BatchInv' /\ OrderInv'
      BY <1>t DEF BatchInv, OrderInv, Base
    <2>6. PostedInv'
      <3>1. posted \in [Update -> Nat] /\ crashes \in Nat
        BY <1>t DEF RouterTypeOK
      <3>2. InSeq(taken)' = InSeq(taken)
        BY DEF InSeq
      <3>3. \A u \in Update : u # NoUpdate
        BY DEF Update, NoUpdate
      <3> QED BY <1>t, <2>2, <2>3, <3>1, <3>2, <3>3 DEF PostedInv
    <2>7. AccountInv'
      <3>1. Accounted \subseteq Accounted' /\ Base' = Base
        BY DEF Accounted, InSeq, Gone, Base
      <3> QED BY <1>t, <3>1 DEF AccountInv
    <2> QED BY <2>4, <2>5, <2>6, <2>7 DEF RouterInv
  <1>15. CASE AnswerPanics
    <2>1. /\ listener = "answer" /\ listener' = "dead" /\ current' = NoUpdate
          /\ lost' = [lost EXCEPT !["panic"] = @ \cup {current} \cup InSeq(channel)]
          /\ channel' = <<>>
          /\ UNCHANGED <<serverVars, pollerVars, taken, tries, approval, outcomeVars, crashes>>
      BY <1>15 DEF AnswerPanics
    <2> USE <2>1 DEF serverVars, pollerVars, outcomeVars
    <2>2. current \in Update /\ InSeq(channel) \subseteq Update
      BY <1>t, <1>s DEF RouterTypeOK, InSeq
    <2>3. /\ lost' \in [Reason -> SUBSET Update]
          /\ Gone \cup {current} \cup InSeq(channel) \subseteq Gone'
      <3>1. lost' \in [Reason -> SUBSET Update] /\ "panic" \in Reason
        BY <1>s, <2>2 DEF Reason
      <3>2. \A r \in Reason : lost[r] \subseteq lost'[r]
        BY <1>s, <3>1
      <3>3. {current} \cup InSeq(channel) \subseteq lost'["panic"]
        BY <1>s, <3>1
      <3> QED BY <3>1, <3>2, <3>3 DEF Gone
    <2>4. RouterTypeOK' /\ AwaitInv'
      <3>1. channel' \in Seq(Update) /\ Len(channel') <= ChannelCapacity
        BY NoneLeft
      <3>2. UNCHANGED <<sent, kind, confirmed, running, offset, batch, taken, tries, approval,
                        settled, posted, gateway, crashes>>
        OBVIOUS
      <3>3. listener' = "dead" /\ current' = NoUpdate
        OBVIOUS
      <3>4. RouterTypeOK'
        BY ONLY <1>t, <2>3, <3>1, <3>2, <3>3 DEF RouterTypeOK
      <3> QED BY <1>t, <3>4 DEF AwaitInv
    <2>5. BatchInv' /\ OrderInv' /\ PostedInv'
      <3>1. NoUpdate \notin Update
        BY DEF NoUpdate, Update
      <3>2. InSeq(taken)' = InSeq(taken)
        BY DEF InSeq
      <3> QED BY <1>t, <3>1, <3>2, NoneLeft DEF BatchInv, OrderInv, PostedInv, Base
    <2>6. AccountInv'
      <3>1. Accounted \subseteq Accounted' /\ Base' = Base
        BY <2>3 DEF Accounted, Base
      <3> QED BY <1>t, <3>1 DEF AccountInv
    <2> QED BY <2>4, <2>5, <2>6 DEF RouterInv
  <1>16. CASE Crash
    <2> DEFINE here == InSeq(channel) \cup ({current} \ {NoUpdate})
    <2>1. /\ crashes < MaxCrashes /\ crashes' = crashes + 1
          /\ running' = FALSE /\ offset' = 0 /\ batch' = <<>>
          /\ lost' = [lost EXCEPT !["crash"] = @ \cup {u \in here : u <= confirmed}]
          /\ channel' = <<>> /\ listener' = "down" /\ current' = NoUpdate
          /\ taken' = <<>> /\ tries' = 0
          /\ approval' = [o \in Origin |-> IF Open(o) THEN "orphaned" ELSE approval[o]]
          /\ UNCHANGED <<serverVars, outcomeVars>>
      BY <1>16 DEF Crash
    <2> USE <2>1 DEF serverVars, outcomeVars
    <2>2. here \subseteq Update
      BY <1>t, <1>s DEF RouterTypeOK, InSeq
    <2>h. here = InSeq(channel) \cup ({current} \ {NoUpdate})
      OBVIOUS
    <2> HIDE DEF here
    <2>3. /\ lost' \in [Reason -> SUBSET Update]
          /\ Gone \cup {u \in here : u <= confirmed} \subseteq Gone'
      <3>1. lost' \in [Reason -> SUBSET Update] /\ "crash" \in Reason
        BY <1>s, <2>2 DEF Reason
      <3>2. \A r \in Reason : lost[r] \subseteq lost'[r]
        BY <1>s, <3>1
      <3>3. {u \in here : u <= confirmed} \subseteq lost'["crash"]
        BY <1>s, <3>1
      <3> QED BY <3>1, <3>2, <3>3 DEF Gone
    <2>4. /\ approval' \in [Origin -> {"none", "pending", "orphaned", "approved", "closed"}]
          /\ approval'["chat"] # "pending"
      BY <1>a DEF Open, Origin
    <2>5. crashes \in Nat /\ MaxCrashes \in Nat /\ posted \in [Update -> Nat]
      BY <1>t DEF RouterTypeOK
    <2>6. RouterTypeOK' /\ AwaitInv'
      <3>1. /\ channel' \in Seq(Update) /\ Len(channel') <= ChannelCapacity
            /\ batch' \in Seq(Update) /\ taken' \in Seq(Update)
        BY NoneLeft
      <3>2. UNCHANGED <<sent, kind, confirmed, settled, posted, gateway>>
        OBVIOUS
      <3>3. listener' = "down" /\ current' = NoUpdate /\ running' = FALSE
        OBVIOUS
      <3>4. offset' \in 0 .. sent + 1 /\ tries' \in 0 .. SendAttempts - 1 /\ crashes' \in 0 .. MaxCrashes
        BY <1>s, <2>5 DEF SendAttempts
      <3>5. RouterTypeOK'
        BY ONLY <1>t, <2>3, <2>4, <3>1, <3>2, <3>3, <3>4 DEF RouterTypeOK
      <3> QED BY <2>4, <3>5 DEF AwaitInv
    <2>7. BatchInv' /\ OrderInv'
      BY <1>t, <1>s, NoneLeft DEF BatchInv, OrderInv, Base, RouterTypeOK
    <2>8. PostedInv'
      BY <1>t, <2>5 DEF PostedInv
    <2>9. AccountInv'
      <3>1. Base' = confirmed + 1 /\ confirmed < Base
        BY <1>t DEF Base, BatchInv
      <3>2. ASSUME NEW u \in 1 .. confirmed, u \in Accounted PROVE u \in Accounted'
        BY <2>3, <2>h, <3>2 DEF Accounted, NoUpdate
      <3> QED BY <1>t, <1>s, <3>1, <3>2 DEF AccountInv
    <2> QED BY <2>6, <2>7, <2>8, <2>9 DEF RouterInv
  <1> QED
    BY <1>1, <1>2, <1>3, <1>4, <1>5, <1>6, <1>7, <1>8, <1>9, <1>10, <1>11, <1>12, <1>13, <1>14,
       <1>15, <1>16
    DEF RouterNext, RouterStep

(* Whatever Telegram has forgotten was handled or went for a known reason, *)
(* in order, and was answered once a life (MessagesAccounted): for any     *)
(* number of updates and crashes and a channel of any capacity.            *)
THEOREM NoMessageUnaccounted == RouterSpec => []MessagesAccounted
  <1>1. RouterInv => MessagesAccounted
    <2> SUFFICES ASSUME RouterInv PROVE MessagesAccounted
      OBVIOUS
    <2>1. HandledOnceInOrder /\ AnsweredOnceALife
      BY DEF RouterInv, OrderInv, PostedInv, HandledOnceInOrder, AnsweredOnceALife
    <2>2. 1 .. confirmed \subseteq 1 .. Base - 1
      BY DEF RouterInv, BatchInv, RouterTypeOK
    <2>3. ForgottenIsAccountedFor
      BY <2>2 DEF RouterInv, AccountInv, Accounted, ForgottenIsAccountedFor
    <2> QED BY <2>1, <2>3 DEF MessagesAccounted
  <1> QED BY RouterInitInv, RouterStepInv, <1>1, PTL DEF RouterSpec

(* MessageRouter: the types (RouterTypeOK); the channel keeps to its       *)
(* capacity, and the listener has a message exactly while it handles one.  *)
THEOREM RouterTypeCorrect == RouterSpec => []RouterTypeOK
  <1>1. RouterInv => RouterTypeOK
    BY DEF RouterInv
  <1> QED BY RouterInitInv, RouterStepInv, <1>1, PTL DEF RouterSpec

(* The chat's own buttons never approve what its run waits for             *)
(* (ButtonsNeverReachOwnRun): a run that waits holds the listener.         *)
THEOREM OwnRunIsNeverApproved == RouterSpec => ButtonsNeverReachOwnRun
  <1>1. RouterInv /\ [RouterNext]_routerVars =>
          [approval["chat"] = "pending" => approval'["chat"] # "approved"]_routerVars
    <2> SUFFICES ASSUME RouterInv, RouterNext, approval["chat"] = "pending",
                        approval'["chat"] = "approved"
                 PROVE  FALSE
      OBVIOUS
    <2>1. listener = "waiting"
      BY DEF RouterInv, AwaitInv
    <2>2. approval \in [Origin -> {"none", "pending", "orphaned", "approved", "closed"}]
      BY DEF RouterInv, RouterTypeOK
    <2>3. approval' # approval
      OBVIOUS
    <2>4. PICK o \in Origin : DecideElsewhere(o) \/ Expire(o) \/ JobAsks \/ Crash
      BY <2>1, <2>3
      DEF RouterNext, RouterStep, Subscribe, Poll, Dispatch, Take, StartRun, AgentMissing, RunGoesOn,
          RunEnds, AskGateway, GatewayAnswers, AnswerAtOnce, Answer, RateLimited, AnswerRefused,
          AnswerPanics, PressButton, Send, RunAsks, Connect, Settle, outcomeVars, Origin
    <2> QED BY <2>2, <2>4 DEF DecideElsewhere, Expire, JobAsks, Crash, Open, Origin
  <1> QED BY RouterInitInv, RouterStepInv, <1>1, PTL DEF RouterSpec, ButtonsNeverReachOwnRun

-----------------------------------------------------------------------------
(* ConnectionPool.                                                         *)

AtWork == {o \in PoolOps : phase[o] \in OnWorker}
Holders(p) == {o \in PoolOps : PoolOf(o) = p /\ Held(o) >= 1}
DoubleHolders(p) == {o \in PoolOps : PoolOf(o) = p /\ Held(o) = 2}

(* Operations may be any number: those that work and hold are finite. *)
LimitsInv ==
  /\ IsFiniteSet(AtWork) /\ Busy <= WorkerThreads
  /\ \A p \in Pools : IsFiniteSet(Holders(p)) /\ InUse(p) <= MaxConnections

PoolInv == PoolTypeOK /\ LimitsInv

(* What an operation in a phase holds. *)
Needs(at) == IF at = "use2" THEN 2 ELSE IF at \in {"use", "get2", "away", "answered"} THEN 1 ELSE 0

Ended == {"done", "failed"}

(* Every phase is behind those that lead to it. *)
Stage == [at \in PoolPhases |->
            CASE at = "new" -> 0 [] at = "get" -> 1 [] at = "use" -> 2 [] at = "get2" -> 3
              [] at = "use2" -> 4 [] at = "away" -> 3 [] at = "answered" -> 4 [] OTHER -> 5]

(* A step moves one operation forward: it needs a worker to go to work,    *)
(* and a free connection to hold one more.                                 *)
LEMMA PoolMoves ==
  ASSUME PoolTypeOK, NEW o \in PoolOps, PoolStep(o)
  PROVE  \E to \in PoolPhases :
           /\ phase[o] \in PoolPhases /\ Move(o, phase[o], to)
           /\ Stage[to] > Stage[phase[o]]
           /\ to \in OnWorker /\ phase[o] \notin OnWorker => Busy < WorkerThreads
           /\ \/ Needs(to) <= Needs(phase[o])
              \/ Needs(to) = Needs(phase[o]) + 1 /\ FreeConnection(o)
  <1> USE DEF PoolPhases, Stage, Needs, Move, OnWorker
  <1> DEFINE Fine(to) ==
        /\ phase[o] \in PoolPhases /\ Move(o, phase[o], to)
        /\ Stage[to] > Stage[phase[o]]
        /\ to \in OnWorker /\ phase[o] \notin OnWorker => Busy < WorkerThreads
        /\ \/ Needs(to) <= Needs(phase[o])
           \/ Needs(to) = Needs(phase[o]) + 1 /\ FreeConnection(o)
  <1>1. CASE StartOp(o)
    <2>1. Fine("get")
      BY <1>1 DEF StartOp
    <2> QED BY <2>1
  <1>2. CASE GetConnection(o)
    <2>1. Fine("use")
      BY <1>2 DEF GetConnection
    <2> QED BY <2>1
  <1>3. CASE GetTimesOut(o)
    <2>1. Fine("failed")
      BY <1>3 DEF GetTimesOut
    <2> QED BY <2>1
  <1>4. CASE EndQuery(o) \/ EndRecordRun(o) \/ EndEmbedding(o)
    <2>1. Fine("done")
      BY <1>4 DEF EndQuery, EndRecordRun, EndEmbedding
    <2> QED BY <2>1
  <1>5. CASE RecordRunReads(o)
    <2>1. Fine("get2")
      BY <1>5 DEF RecordRunReads
    <2> QED BY <2>1
  <1>6. CASE GetSecond(o)
    <2>1. Fine("use2")
      BY <1>6 DEF GetSecond
    <2> QED BY <2>1
  <1>7. CASE AwaitEmbedding(o)
    <2>1. Fine("away")
      BY <1>7 DEF AwaitEmbedding
    <2> QED BY <2>1
  <1>8. CASE ModelServerAnswers(o)
    <2>1. Fine("answered")
      BY <1>8 DEF ModelServerAnswers
    <2> QED BY <2>1
  <1> QED BY <1>1, <1>2, <1>3, <1>4, <1>5, <1>6, <1>7, <1>8 DEF PoolStep

(* A set that gains o, loses it or stays as it is. *)
LEMMA CountMoves ==
  ASSUME NEW S, IsFiniteSet(S), NEW x, NEW T, T = S \cup {x} \/ T = S \ {x}
  PROVE  /\ IsFiniteSet(T) /\ Cardinality(S) \in Nat /\ Cardinality(T) \in Nat
         /\ x \in S /\ x \in T => Cardinality(T) = Cardinality(S)
         /\ x \notin S /\ x \in T => Cardinality(T) = Cardinality(S) + 1
         /\ x \in S /\ x \notin T => Cardinality(T) = Cardinality(S) - 1
         /\ x \notin S /\ x \notin T => Cardinality(T) = Cardinality(S)
  <1>1. CASE T = S \cup {x}
    BY <1>1, FS_AddElement, FS_CardinalityType
  <1>2. CASE T = S \ {x}
    BY <1>2, FS_RemoveElement, FS_CardinalityType
  <1> QED BY <1>1, <1>2

LEMMA PoolStepInv == PoolInv /\ [PoolNext]_poolVars => PoolInv'
  <1> SUFFICES ASSUME PoolInv, [PoolNext]_poolVars PROVE PoolInv'
    OBVIOUS
  <1>1. CASE UNCHANGED poolVars
    BY <1>1 DEF poolVars, PoolInv, PoolTypeOK, LimitsInv, AtWork, Busy, Holders, InUse, Held
  <1>2. ASSUME NEW o \in PoolOps, PoolStep(o) PROVE PoolInv'
    <2>1. PICK to \in PoolPhases :
            /\ phase[o] \in PoolPhases /\ Move(o, phase[o], to)
            /\ Stage[to] > Stage[phase[o]]
            /\ to \in OnWorker /\ phase[o] \notin OnWorker => Busy < WorkerThreads
            /\ \/ Needs(to) <= Needs(phase[o])
               \/ Needs(to) = Needs(phase[o]) + 1 /\ FreeConnection(o)
      BY <1>2, PoolMoves DEF PoolInv
    <2>2. PoolTypeOK' /\ phase'[o] = to /\ \A q \in PoolOps \ {o} : phase'[q] = phase[q]
      BY <2>1 DEF PoolInv, PoolTypeOK, Move
    <2>3. IsFiniteSet(AtWork') /\ Busy' <= WorkerThreads
      <3>1. AtWork' = AtWork \cup {o} \/ AtWork' = AtWork \ {o}
        BY <2>2 DEF AtWork
      <3>2. o \in AtWork' /\ o \notin AtWork => Busy < WorkerThreads
        BY <2>1, <2>2 DEF AtWork
      <3>3. IsFiniteSet(AtWork) /\ Busy <= WorkerThreads
        BY DEF PoolInv, LimitsInv
      <3>4. Busy = Cardinality(AtWork) /\ Busy' = Cardinality(AtWork')
        BY DEF Busy, AtWork
      <3> QED BY <3>1, <3>2, <3>3, <3>4, CountMoves, PoolAssumption
    <2>4. ASSUME NEW p \in Pools PROVE IsFiniteSet(Holders(p)') /\ InUse(p)' <= MaxConnections
      <3>1. /\ IsFiniteSet(Holders(p)) /\ InUse(p) <= MaxConnections
            /\ InUse(p) = Cardinality(Holders(p)) + Cardinality(DoubleHolders(p))
            /\ InUse(p)' = Cardinality(Holders(p)') + Cardinality(DoubleHolders(p)')
        BY DEF PoolInv, LimitsInv, InUse, Holders, DoubleHolders
      <3>2. Held(o) = Needs(phase[o]) /\ Held(o)' = Needs(to)
        BY <2>2 DEF Held, Needs
      <3>3. \A q \in PoolOps \ {o} : Held(q)' = Held(q)
        BY <2>2 DEF Held
      <3>4. IsFiniteSet(DoubleHolders(p))
        <4>1. DoubleHolders(p) \subseteq Holders(p)
          BY DEF DoubleHolders, Holders
        <4> QED BY <3>1, <4>1, FS_Subset
      <3>5. CASE PoolOf(o) # p
        <4>1. Holders(p)' = Holders(p) /\ DoubleHolders(p)' = DoubleHolders(p)
          BY <3>3, <3>5 DEF Holders, DoubleHolders, PoolOf
        <4> QED BY <3>1, <4>1
      <3>6. CASE PoolOf(o) = p
        <4>1. Holders(p)' = Holders(p) \cup {o} \/ Holders(p)' = Holders(p) \ {o}
          BY <3>3 DEF Holders, PoolOf
        <4>2. \/ DoubleHolders(p)' = DoubleHolders(p) \cup {o}
              \/ DoubleHolders(p)' = DoubleHolders(p) \ {o}
          BY <3>3 DEF DoubleHolders, PoolOf
        <4>3. /\ o \in Holders(p) <=> Needs(phase[o]) >= 1
              /\ o \in Holders(p)' <=> Needs(to) >= 1
              /\ o \in DoubleHolders(p) <=> Needs(phase[o]) = 2
              /\ o \in DoubleHolders(p)' <=> Needs(to) = 2
          BY <3>2, <3>6 DEF Holders, DoubleHolders, PoolOf
        <4>4. Needs(phase[o]) \in 0 .. 2 /\ Needs(to) \in 0 .. 2
          BY DEF Needs
        <4>5. /\ IsFiniteSet(Holders(p)')
              /\ Needs(to) <= Needs(phase[o]) => InUse(p)' <= InUse(p)
              /\ Needs(to) = Needs(phase[o]) + 1 => InUse(p)' = InUse(p) + 1
              /\ InUse(p) \in Nat /\ InUse(p)' \in Nat
          BY <3>1, <3>4, <4>1, <4>2, <4>3, <4>4, CountMoves
        <4>6. Needs(to) <= Needs(phase[o]) \/ InUse(p) < MaxConnections
          BY <2>1, <3>6 DEF FreeConnection
        <4> QED BY <2>1, <3>1, <4>4, <4>5, <4>6, PoolAssumption
      <3> QED BY <3>5, <3>6
    <2> QED BY <2>2, <2>3, <2>4 DEF PoolInv, LimitsInv
  <1> QED BY <1>1, <1>2 DEF PoolNext

LEMMA PoolInitInv == PoolInit => PoolInv
  <1> SUFFICES ASSUME PoolInit PROVE PoolInv
    OBVIOUS
  <1>1. PoolTypeOK
    BY DEF PoolInit, PoolTypeOK, PoolPhases
  <1>2. AtWork = {} /\ \A p \in Pools : Holders(p) = {} /\ DoubleHolders(p) = {}
    BY DEF PoolInit, AtWork, OnWorker, Holders, DoubleHolders, Held
  <1>3. Busy = 0 /\ \A p \in Pools : InUse(p) = 0
    BY <1>2, FS_EmptySet DEF Busy, AtWork, InUse, Holders, DoubleHolders
  <1> QED BY <1>1, <1>2, <1>3, FS_EmptySet, PoolAssumption DEF PoolInv, LimitsInv

(* No more workers are busy than there are, and no pool has more           *)
(* connections in use than it opens, whatever operations there are.        *)
PoolsWithinLimits ==
  Busy <= WorkerThreads /\ \A p \in Pools : InUse(p) <= MaxConnections

THEOREM PoolLimitsHold == PoolSpec => []PoolsWithinLimits
  <1>1. PoolInv => PoolsWithinLimits
    BY DEF PoolInv, LimitsInv, PoolsWithinLimits
  <1> QED BY PoolInitInv, PoolStepInv, <1>1, PTL DEF PoolSpec

(* ConnectionPool: every operation is in a phase (PoolTypeOK).             *)
THEOREM PoolTypeCorrect == PoolSpec => []PoolTypeOK
  <1>1. PoolInv => PoolTypeOK
    BY DEF PoolInv
  <1> QED BY PoolInitInv, PoolStepInv, <1>1, PTL DEF PoolSpec

(* Operation o can go on to a phase. *)
CanGoOn(o, to) ==
  \/ phase[o] = "new" /\ to = "get" /\ Busy < WorkerThreads
  \/ phase[o] = "get" /\ to = IF FreeConnection(o) THEN "use" ELSE "failed"
  \/ phase[o] = "use" /\ to = IF o \in Queries THEN "done"
                              ELSE IF o \in RecordRuns THEN "get2" ELSE "away"
  \/ phase[o] = "get2" /\ to = IF FreeConnection(o) THEN "use2" ELSE "failed"
  \/ phase[o] = "use2" /\ to = "done"
  \/ phase[o] = "away" /\ to = "answered"
  \/ phase[o] = "answered" /\ to = "done" /\ Busy < WorkerThreads

(* That it can is meant: to go there is a step of the operation. *)
LEMMA GoingOnIsAStep ==
  ASSUME NEW o \in PoolOps, NEW to, CanGoOn(o, to), phase' = [phase EXCEPT ![o] = to]
  PROVE  PoolStep(o)
  <1> USE DEF CanGoOn, Move
  <1>1. CASE phase[o] \in {"new", "answered"}
    BY <1>1 DEF PoolStep, StartOp, EndEmbedding
  <1>2. CASE phase[o] \in {"get", "get2"}
    BY <1>2 DEF PoolStep, GetConnection, GetSecond, GetTimesOut
  <1>3. CASE phase[o] = "use"
    BY <1>3 DEF PoolStep, PoolOps, EndQuery, RecordRunReads, AwaitEmbedding
  <1>4. CASE phase[o] \in {"use2", "away"}
    BY <1>4 DEF PoolStep, EndRecordRun, ModelServerAnswers
  <1> QED BY <1>1, <1>2, <1>3, <1>4

(* The daemon does not stop for want of connections or workers: as long as *)
(* an operation has not ended, some operation can go on.  What waits for a *)
(* worker does so behind others that work, and what works waits for get at *)
(* most, which gives up.                                                   *)
PoolsNeverStuck ==
  \/ \A o \in PoolOps : phase[o] \in Ended
  \/ \E o \in PoolOps, to \in PoolPhases : CanGoOn(o, to)

THEOREM PoolsGoOn == PoolSpec => []PoolsNeverStuck
  <1>1. ASSUME PoolInv PROVE PoolsNeverStuck
    <2>1. ASSUME NEW o \in PoolOps, phase[o] \in OnWorker \cup {"away"}
          PROVE  \E to \in PoolPhases : CanGoOn(o, to)
      <3> USE DEF CanGoOn, PoolPhases
      <3>1. CASE phase[o] = "get"
        BY <3>1
      <3>2. CASE phase[o] = "use"
        BY <3>2
      <3>3. CASE phase[o] = "get2"
        BY <3>3
      <3>4. CASE phase[o] = "use2"
        BY <3>4
      <3>5. CASE phase[o] = "away"
        BY <3>5
      <3> QED BY <2>1, <3>1, <3>2, <3>3, <3>4, <3>5 DEF OnWorker
    <2>2. ASSUME AtWork = {}, NEW o \in PoolOps, phase[o] \in {"new", "answered"}
          PROVE  \E to \in PoolPhases : CanGoOn(o, to)
      <3>1. Busy = 0
        BY <2>2, FS_EmptySet DEF Busy, AtWork
      <3> QED BY <2>2, <3>1, PoolAssumption DEF CanGoOn, PoolPhases
    <2>3. ASSUME NEW o \in PoolOps, phase[o] \notin Ended
          PROVE  phase[o] \in OnWorker \cup {"away"} \/ phase[o] \in {"new", "answered"}
      <3>1. phase[o] \in PoolPhases
        BY <1>1 DEF PoolInv, PoolTypeOK
      <3> QED BY <2>3, <3>1 DEF PoolPhases, OnWorker, Ended
    <2> QED BY <2>1, <2>2, <2>3 DEF PoolsNeverStuck, AtWork
  <1> QED BY PoolInitInv, PoolStepInv, <1>1, PTL DEF PoolSpec

(* Operations never go back: each step takes one of them to a later phase  *)
(* and leaves the others where they are, so that there are at most five    *)
(* steps for each of them.                                                 *)
OneGoesForward ==
  \E o \in PoolOps :
    /\ Stage[phase'[o]] > Stage[phase[o]]
    /\ \A q \in PoolOps \ {o} : phase'[q] = phase[q]

THEOREM OperationsGoForward == PoolSpec => [][OneGoesForward]_poolVars
  <1>1. PoolInv /\ [PoolNext]_poolVars => [OneGoesForward]_poolVars
    <2> SUFFICES ASSUME PoolInv, NEW o \in PoolOps, PoolStep(o) PROVE OneGoesForward
      BY DEF PoolNext
    <2>1. PICK to \in PoolPhases : Move(o, phase[o], to) /\ Stage[to] > Stage[phase[o]]
      BY PoolMoves DEF PoolInv
    <2>2. phase'[o] = to /\ \A q \in PoolOps \ {o} : phase'[q] = phase[q]
      BY <2>1 DEF PoolInv, PoolTypeOK, Move
    <2> QED BY <2>1, <2>2 DEF OneGoesForward
  <1> QED BY PoolInitInv, PoolStepInv, <1>1, PTL DEF PoolSpec
=============================================================================
