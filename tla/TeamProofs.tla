----------------------------- MODULE TeamProofs -----------------------------
(***************************************************************************)
(* Theorems about Team for teams of any size, any agents and dependencies, *)
(* and any limit on concurrent tasks.                                      *)
(***************************************************************************)
EXTENDS Team, FiniteSetTheorems, TLAPS

USE SizeAssumption, AgentsAssumption

(* A level is given to an agent after all it depends on. *)
LevelInv ==
  /\ \A x \in Agents : level[x] <= rounds
  /\ \A x \in Agents : level[x] # 0 =>
       \A d \in DepsOf(x) : d \in Ids /\ level[d] # 0 /\ level[d] < level[x]

(* A fan-out team is done with the levels below at, has not begun those    *)
(* above, and has spawned nothing of what is still in the chunk.           *)
FanInv ==
  pattern = "fan_out" =>
    /\ phase \in {"sorting", "circular"} =>
         chunk = {} /\ handles = <<>> /\ \A m \in Members : task[m] = "none"
    /\ phase = "sorting" => at = 1
    /\ phase # "lost"
    /\ \A m \in Members : LevelOf(m) # 0 /\ LevelOf(m) < at => ended[m] # "no"
    /\ \A m \in Members : task[m] # "none" \/ m \in chunk => LevelOf(m) # 0
    /\ \A m \in Members : task[m] # "none" \/ m \in chunk => LevelOf(m) <= at

(* A sequential team has one run at a time. *)
SequenceInv ==
  pattern = "sequential" =>
    /\ phase \notin {"sorting", "circular"} /\ chunk = {} /\ handles = <<>>
    /\ \A m \in Members : at < m => task[m] = "none"
    /\ \A m \in Members : at <= m => ended[m] = "no"
    /\ \A m \in Members : m < at => task[m] # "running"
    /\ \A m \in Members : m < at => ended[m] # "no"
    /\ phase = "ok" => N < at
    /\ phase = "lost" => at \in Members /\ task[at] # "running"

(* What a member was counted as, and the output it left. *)
EndedInv ==
  \A m \in Members :
    /\ m \in chunk => task[m] = "none" /\ ended[m] = "no"
    /\ ended[m] = "completed" => task[m] = "done" /\ m \in outputs
    /\ ended[m] = "failed" =>
         \/ task[m] = "panicked"
         \/ /\ task[m] = "none" /\ policy # "suspend"
            /\ pattern = "fan_out" => m \in outputs

(* The tasks that run are those behind the handles, but after a suspension. *)
HandlesInv ==
  /\ \A i, j \in DOMAIN handles : handles[i] = handles[j] => i = j
  /\ pattern = "fan_out" /\ phase # "error" =>
       \A m \in Members : task[m] # "none" /\ ended[m] = "no" =>
         \E i \in DOMAIN handles : handles[i] = m
  /\ phase = "ok" => handles = <<>> /\ chunk = {}
  /\ phase = "ok" /\ pattern = "fan_out" =>
       \A m \in Members : LevelOf(m) # 0 => ended[m] # "no"
  /\ phase = "error" => policy = "suspend"

(* The tasks that run or are about to be spawned. *)
InFlight == chunk \cup {m \in Members : task[m] = "running"}
LimitInv == Cardinality(InFlight) <= MaxConcurrent

IInv == TypeOK /\ LevelInv /\ FanInv /\ SequenceInv /\ EndedInv /\ HandlesInv /\ LimitInv

USE DEF team, sorting, counts

(* What taking the head off a sequence leaves. *)
LEMMA TailFacts ==
  ASSUME NEW S, NEW s \in Seq(S), s # <<>>
  PROVE  /\ Tail(s) \in Seq(S)
         /\ Head(s) \in S /\ 1 \in DOMAIN s /\ Head(s) = s[1]
         /\ \A i \in DOMAIN Tail(s) : i + 1 \in DOMAIN s /\ Tail(s)[i] = s[i + 1] /\ i + 1 # 1
         /\ \A i \in DOMAIN s : i # 1 => i - 1 \in DOMAIN Tail(s) /\ Tail(s)[i - 1] = s[i]
  OBVIOUS

(* What appending to a sequence adds. *)
LEMMA AppendFacts ==
  ASSUME NEW S, NEW s \in Seq(S), NEW e \in S
  PROVE  /\ Append(s, e) \in Seq(S)
         /\ DOMAIN Append(s, e) = DOMAIN s \cup {Len(s) + 1}
         /\ Len(s) + 1 \notin DOMAIN s
         /\ \A i \in DOMAIN s : Append(s, e)[i] = s[i]
         /\ Append(s, e)[Len(s) + 1] = e
  OBVIOUS

(* Nothing has begun. *)
LEMMA InitInductive == Init => IInv
  <1> SUFFICES ASSUME Init PROVE IInv
    OBVIOUS
  <1> USE DEF Init
  <1>1. TypeOK
    BY DEF TypeOK, Members
  <1>2. LevelInv /\ FanInv /\ SequenceInv /\ EndedInv
    BY DEF LevelInv, FanInv, SequenceInv, EndedInv, Members, LevelOf, Ids
  <1>3. HandlesInv
    BY DEF HandlesInv
  <1>4. LimitInv
    <2>1. InFlight = {}
      BY DEF InFlight
    <2> QED BY <2>1, FS_EmptySet DEF LimitInv
  <1> QED BY <1>1, <1>2, <1>3, <1>4 DEF IInv

(* The limit on tasks holds on where none is added. *)
LEMMA LimitKept ==
  ASSUME TypeOK, LimitInv, InFlight' \subseteq InFlight
  PROVE  LimitInv'
  <1>1. IsFiniteSet(1 .. N)
    BY FS_Interval
  <1>2. IsFiniteSet(InFlight)
    <2>1. InFlight \subseteq 1 .. N
      BY DEF InFlight, TypeOK, Members
    <2> QED BY <1>1, <2>1, FS_Subset
  <1>3. /\ Cardinality(InFlight') <= Cardinality(InFlight)
        /\ Cardinality(InFlight) \in Nat /\ Cardinality(InFlight') \in Nat
    BY <1>2, FS_Subset, FS_CardinalityType
  <1> QED BY <1>3 DEF LimitInv

(* The levels stay as they are once the agents are sorted. *)
LEMMA LevelKept ==
  ASSUME LevelInv, UNCHANGED <<team, sorting>>
  PROVE  LevelInv'
  BY DEF LevelInv, DepsOf, Ids, Members

(* A step of the sort gives the next level to agents whose dependencies    *)
(* have a lower one.                                                       *)
LEMMA SortLevelInductive == IInv /\ SortLevel => IInv'
  <1> SUFFICES ASSUME IInv, SortLevel PROVE IInv'
    OBVIOUS
  <1> USE DEF IInv, SortLevel
  <1>1. TypeOK'
    BY DEF TypeOK, Members
  <1>2. LevelInv'
    <2>1. Ids' = Ids /\ Ids \subseteq Agents /\ \A x : DepsOf(x)' = DepsOf(x)
      BY DEF Ids, DepsOf, Members, TypeOK
    <2>2. \A x \in Agents : DepsOf(x) \subseteq Agents
      BY DEF DepsOf, TypeOK
    <2>3. \A x \in Agents : level'[x] <= rounds'
      BY DEF TypeOK, LevelInv
    <2>4. ASSUME NEW x \in Agents, level'[x] # 0, NEW d \in DepsOf(x)
          PROVE  d \in Ids /\ level'[d] # 0 /\ level'[d] < level'[x]
      <3>1. CASE x \in Ready
        BY <2>2, <2>4, <3>1 DEF Ready, TypeOK, LevelInv
      <3>2. CASE x \notin Ready
        BY <2>2, <2>4, <3>2 DEF Ready, TypeOK, LevelInv
      <3> QED BY <3>1, <3>2
    <2> QED BY <2>1, <2>3, <2>4 DEF LevelInv
  <1>3. FanInv'
    BY DEF FanInv, TypeOK, LevelOf, Members
  <1>4. SequenceInv' /\ EndedInv'
    BY DEF SequenceInv, EndedInv, Members
  <1>5. HandlesInv'
    BY DEF HandlesInv, Members
  <1>6. LimitInv'
    BY LimitKept DEF InFlight, Members
  <1> QED BY <1>1, <1>2, <1>3, <1>4, <1>5, <1>6

(* The end of the sort begins the first level. *)
LEMMA SortEndsInductive == IInv /\ SortEnds => IInv'
  <1> SUFFICES ASSUME IInv, SortEnds PROVE IInv'
    OBVIOUS
  <1> USE DEF IInv, SortEnds
  <1>1. TypeOK'
    BY DEF TypeOK, Members
  <1>2. LevelInv'
    BY LevelKept
  <1>3. FanInv'
    BY DEF FanInv, TypeOK, LevelOf, Members
  <1>4. SequenceInv' /\ EndedInv'
    BY DEF SequenceInv, EndedInv, Members
  <1>5. HandlesInv'
    BY DEF HandlesInv, Members
  <1>6. LimitInv'
    BY LimitKept DEF InFlight, Members
  <1> QED BY <1>1, <1>2, <1>3, <1>4, <1>5, <1>6

(* When a chunk is taken no task runs, and the chunk is within the limit. *)
LEMMA TakeChunkInductive == IInv /\ TakeChunk => IInv'
  <1> SUFFICES ASSUME IInv, TakeChunk PROVE IInv'
    OBVIOUS
  <1> USE DEF IInv, TakeChunk, FanningOut
  <1>0. \A m \in Left : task[m] = "none"
    BY DEF Left, HandlesInv, EndedInv
  <1>1. TypeOK'
    BY DEF TypeOK, Members, Left
  <1>2. LevelInv'
    BY LevelKept
  <1>3. FanInv'
    BY DEF FanInv, TypeOK, LevelOf, Members, Left
  <1>4. SequenceInv' /\ EndedInv'
    BY <1>0 DEF SequenceInv, EndedInv, Members, Left
  <1>5. HandlesInv'
    BY DEF HandlesInv, Members
  <1>6. LimitInv'
    <2>1. \A m \in Members : task[m] # "running"
      BY DEF HandlesInv, EndedInv, TypeOK
    <2>2. InFlight' = chunk'
      BY <2>1 DEF InFlight, Members
    <2> QED BY <2>2 DEF LimitInv
  <1> QED BY <1>1, <1>2, <1>3, <1>4, <1>5, <1>6

(* A member that is spawned goes from the chunk behind the handles. *)
LEMMA SpawnInductive == \A m \in Members : IInv /\ Spawn(m) => IInv'
  <1> SUFFICES ASSUME NEW m \in Members, IInv, Spawn(m) PROVE IInv'
    OBVIOUS
  <1> USE DEF IInv, Spawn, FanningOut
  <1>0. /\ handles' \in Seq(Members)
        /\ DOMAIN handles' = DOMAIN handles \cup {Len(handles) + 1}
        /\ Len(handles) + 1 \notin DOMAIN handles
        /\ \A i \in DOMAIN handles : handles'[i] = handles[i] /\ handles[i] \in Members
        /\ handles'[Len(handles) + 1] = m
    BY AppendFacts DEF TypeOK
  <1>7. \A i \in DOMAIN handles : handles[i] # m
    BY DEF TypeOK, EndedInv
  <1>1. TypeOK'
    BY <1>0 DEF TypeOK, Members, EndedInv
  <1>2. LevelInv'
    BY LevelKept
  <1>3. FanInv'
    BY DEF FanInv, TypeOK, LevelOf, Members
  <1>4. SequenceInv' /\ EndedInv'
    BY DEF SequenceInv, EndedInv, TypeOK, Members
  <1>5. HandlesInv'
    <2>1. \A i, j \in DOMAIN handles' : handles'[i] = handles'[j] => i = j
      BY <1>0, <1>7 DEF HandlesInv
    <2>2. ASSUME NEW k \in Members, task'[k] # "none", ended'[k] = "no"
          PROVE  \E i \in DOMAIN handles' : handles'[i] = k
      <3>1. CASE k = m
        BY <1>0, <3>1
      <3>2. CASE k # m
        <4>1. task[k] # "none" /\ ended[k] = "no"
          BY <2>2, <3>2 DEF TypeOK
        <4>2. PICK i \in DOMAIN handles : handles[i] = k
          BY <4>1 DEF HandlesInv
        <4> QED BY <1>0, <4>2
      <3> QED BY <3>1, <3>2
    <2> QED BY <2>1, <2>2 DEF HandlesInv, Members
  <1>6. LimitInv'
    BY LimitKept DEF InFlight, TypeOK, Members
  <1> QED BY <1>1, <1>2, <1>3, <1>4, <1>5, <1>6

(* The members are numbers, and at is one of them until the end. *)
LEMMA MemberNumbers ==
  ASSUME TypeOK
  PROVE  (\A m \in Members : m \in Nat) /\ (at <= N => at \in Members)
  BY DEF Members, TypeOK

(* A team that is suspended drops its chunk and its handles. *)
LEMMA SuspendInductive == IInv /\ phase = "running" /\ Suspend => IInv'
  <1> SUFFICES ASSUME IInv, phase = "running", Suspend PROVE IInv'
    OBVIOUS
  <1> USE DEF IInv, Suspend
  <1>0. handles' = <<>> /\ handles' \in Seq(Members) /\ DOMAIN handles' = {}
    OBVIOUS
  <1>1. TypeOK'
    BY <1>0 DEF TypeOK, Members
  <1>2. LevelInv'
    BY LevelKept
  <1>3. FanInv'
    BY DEF FanInv, TypeOK, LevelOf, Members
  <1>4. SequenceInv' /\ EndedInv'
    BY DEF SequenceInv, EndedInv, TypeOK, Members
  <1>5. HandlesInv'
    BY <1>0 DEF HandlesInv
  <1>6. LimitInv'
    BY LimitKept DEF InFlight, TypeOK, Members
  <1> QED BY <1>1, <1>2, <1>3, <1>4, <1>5, <1>6

(* Counting a member changes what it was counted as, and nothing else. *)
LEMMA CountFacts ==
  ASSUME TypeOK, NEW m \in Members, NEW as \in {"completed", "failed"}, Count(m, as)
  PROVE  /\ completed' \in Nat /\ failed' \in Nat
         /\ ended' \in [Members -> {"no", "completed", "failed"}]
         /\ ended'[m] = as
         /\ \A k \in Members : k # m => ended'[k] = ended[k]
  <1>1. completed' \in Nat /\ failed' \in Nat
    <2>1. completed \in Nat /\ failed \in Nat
      BY DEF TypeOK
    <2>2. completed' \in {completed, completed + 1} /\ failed' \in {failed, failed + 1}
      BY Zenon DEF Count
    <2> QED BY <2>1, <2>2
  <1>2. ended' = [ended EXCEPT ![m] = as]
    BY DEF Count
  <1>3. ended \in [Members -> {"no", "completed", "failed"}]
    BY DEF TypeOK
  <1> QED BY <1>1, <1>2, <1>3

(* A member that is not found suspends the team or is counted as failed. *)
LEMMA NotFoundInductive == \A m \in Members : IInv /\ NotFound(m) => IInv'
  <1> SUFFICES ASSUME NEW m \in Members, IInv, NotFound(m), ~Suspend PROVE IInv'
    BY SuspendInductive DEF NotFound, FanningOut
  <1> USE DEF IInv, NotFound, FanningOut, Count
  <1>0. /\ handles' = handles
        /\ \A i \in DOMAIN handles : handles[i] \in Members /\ handles[i] # m
    BY DEF TypeOK, EndedInv
  <1>1. TypeOK'
    <2>1. /\ completed' \in Nat /\ failed' \in Nat /\ outputs' \subseteq Members
          /\ chunk' \subseteq Members
      BY DEF TypeOK
    <2>2. ended' \in [Members -> {"no", "completed", "failed"}]
      BY DEF TypeOK
    <2>3. \A i \in DOMAIN handles' : task'[handles'[i]] # "none" /\ ended'[handles'[i]] = "no"
      BY <1>0 DEF TypeOK
    <2> QED BY <2>1, <2>2, <2>3 DEF TypeOK, Members
  <1>2. LevelInv'
    BY LevelKept
  <1>3. FanInv'
    BY DEF FanInv, TypeOK, LevelOf, Members
  <1>4. SequenceInv' /\ EndedInv'
    BY DEF SequenceInv, EndedInv, TypeOK, Members
  <1>5. HandlesInv'
    BY <1>0 DEF HandlesInv, TypeOK, Members
  <1>6. LimitInv'
    BY LimitKept DEF InFlight, TypeOK, Members
  <1> QED BY <1>1, <1>2, <1>3, <1>4, <1>5, <1>6

(* The member behind the first handle, and no other, is counted. *)
LEMMA JoinInductive == \A m \in Members : IInv /\ Join(m) => IInv'
  <1> SUFFICES ASSUME NEW m \in Members, IInv, Join(m) PROVE IInv'
    OBVIOUS
  <1> USE DEF IInv, Join, FanningOut
  <1>0. /\ handles' \in Seq(Members)
        /\ 1 \in DOMAIN handles /\ m = handles[1]
        /\ \A i \in DOMAIN handles' :
             i + 1 \in DOMAIN handles /\ handles'[i] = handles[i + 1] /\ i + 1 # 1
        /\ \A i \in DOMAIN handles :
             i # 1 => i - 1 \in DOMAIN handles' /\ handles'[i - 1] = handles[i]
    BY TailFacts DEF TypeOK
  <1>7. \A i \in DOMAIN handles' : i \in Nat /\ handles'[i] \in Members /\ handles'[i] # m
    BY <1>0 DEF HandlesInv, TypeOK
  <1>1. TypeOK'
    <2>1. /\ completed' \in Nat /\ failed' \in Nat /\ outputs' \subseteq Members
          /\ ended' \in [Members -> {"no", "completed", "failed"}]
          /\ \A k \in Members : k # m => ended'[k] = ended[k]
      BY CountFacts DEF TypeOK
    <2>2. \A i \in DOMAIN handles' : task'[handles'[i]] # "none" /\ ended'[handles'[i]] = "no"
      BY <1>0, <1>7, <2>1 DEF TypeOK
    <2> QED BY <1>0, <2>1, <2>2 DEF TypeOK, Members
  <1>2. LevelInv'
    BY LevelKept
  <1>3. FanInv'
    <2>1. \A k \in Members : ended[k] # "no" => ended'[k] # "no"
      BY CountFacts
    <2> QED BY <2>1 DEF FanInv, TypeOK, LevelOf, Members
  <1>4. SequenceInv' /\ EndedInv'
    BY CountFacts DEF SequenceInv, EndedInv, TypeOK, Members
  <1>5. HandlesInv'
    <2>1. \A i, j \in DOMAIN handles' : handles'[i] = handles'[j] => i = j
      BY <1>0, <1>7 DEF HandlesInv
    <2>2. ASSUME NEW k \in Members, task'[k] # "none", ended'[k] = "no"
          PROVE  \E i \in DOMAIN handles' : handles'[i] = k
      <3>1. k # m /\ ended[k] = "no"
        BY <2>2, CountFacts DEF TypeOK
      <3>2. PICK i \in DOMAIN handles : handles[i] = k
        BY <2>2, <3>1 DEF HandlesInv
      <3> QED BY <1>0, <3>1, <3>2
    <2> QED BY <2>1, <2>2 DEF HandlesInv, Members
  <1>6. LimitInv'
    BY LimitKept DEF InFlight, TypeOK, Members
  <1> QED BY <1>1, <1>2, <1>3, <1>4, <1>5, <1>6

(* A level is left when all of its members have been counted. *)
LEMMA NextLevelInductive == IInv /\ NextLevel => IInv'
  <1> SUFFICES ASSUME IInv, NextLevel PROVE IInv'
    OBVIOUS
  <1> USE DEF IInv, NextLevel, FanningOut
  <1>0. \A m \in Members : LevelOf(m) \in Nat /\ LevelOf(m) <= rounds
    BY DEF LevelOf, LevelInv, TypeOK
  <1>7. \A m \in Members : LevelOf(m) # 0 /\ LevelOf(m) <= at => ended[m] # "no"
    BY <1>0 DEF FanInv, Left, TypeOK
  <1>1. TypeOK'
    BY DEF TypeOK, Members
  <1>2. LevelInv'
    BY LevelKept
  <1>3. FanInv'
    <2>1. \A m \in Members : LevelOf(m)' = LevelOf(m)
      BY DEF LevelOf
    <2> QED BY <1>0, <1>7, <2>1 DEF FanInv, TypeOK, Members
  <1>4. SequenceInv' /\ EndedInv'
    BY DEF SequenceInv, EndedInv, TypeOK, Members
  <1>5. HandlesInv'
    <2>1. \A m \in Members : LevelOf(m)' = LevelOf(m)
      BY DEF LevelOf
    <2>2. phase' = "ok" => \A m \in Members : LevelOf(m) # 0 => ended[m] # "no"
      BY <1>0, <1>7 DEF TypeOK
    <2> QED BY <2>1, <2>2 DEF HandlesInv, Members
  <1>6. LimitInv'
    BY LimitKept DEF InFlight, TypeOK, Members
  <1> QED BY <1>1, <1>2, <1>3, <1>4, <1>5, <1>6

(* The next member of a sequential team is the only one that runs. *)
LEMMA RunNextInductive == IInv /\ RunNext => IInv'
  <1> SUFFICES ASSUME IInv, RunNext PROVE IInv'
    OBVIOUS
  <1> USE DEF IInv, RunNext, Sequential
  <1>0. at \in Members /\ \A m \in Members : m \in Nat
    BY MemberNumbers
  <1>1. TypeOK'
    BY DEF TypeOK, Members
  <1>2. LevelInv'
    BY LevelKept
  <1>3. FanInv'
    BY DEF FanInv, TypeOK, LevelOf, Members
  <1>4. SequenceInv' /\ EndedInv'
    BY <1>0 DEF SequenceInv, EndedInv, TypeOK, Members
  <1>5. HandlesInv'
    BY DEF HandlesInv, TypeOK, Members
  <1>6. LimitInv'
    <2>1. InFlight' = {at}
      <3>1. \A m \in Members : task[m] # "running"
        BY <1>0 DEF SequenceInv, TypeOK
      <3>2. {m \in Members : task'[m] = "running"} = {at}
        BY <1>0, <3>1 DEF TypeOK
      <3> QED BY <3>2 DEF InFlight, SequenceInv, Members
    <2> QED BY <2>1, FS_Singleton DEF LimitInv
  <1> QED BY <1>1, <1>2, <1>3, <1>4, <1>5, <1>6

(* A sequential team goes on after a member that is not found. *)
LEMMA NextNotFoundInductive == IInv /\ NextNotFound => IInv'
  <1> SUFFICES ASSUME IInv, NextNotFound, ~Suspend PROVE IInv'
    BY SuspendInductive DEF NextNotFound, Sequential
  <1> USE DEF IInv, NextNotFound, Sequential
  <1>0. at \in Members /\ \A m \in Members : m \in Nat
    BY MemberNumbers
  <1>7. /\ completed' \in Nat /\ failed' \in Nat
        /\ ended' \in [Members -> {"no", "completed", "failed"}] /\ ended'[at] = "failed"
        /\ \A k \in Members : k # at => ended'[k] = ended[k]
    BY <1>0, CountFacts
  <1>8. outputs' \subseteq Members
    BY <1>0 DEF TypeOK
  <1>9. at' = at + 1 /\ at \in Nat /\ at' \in Nat \ {0}
    BY <1>0
  <1>1. TypeOK'
    <2>0. handles' = <<>>
      BY DEF SequenceInv
    <2>1. handles' \in Seq(Members) /\ DOMAIN handles' = {}
      BY <2>0
    <2> QED BY <1>7, <1>8, <1>9, <2>1 DEF TypeOK, Members
  <1>2. LevelInv'
    BY LevelKept
  <1>3. FanInv'
    BY DEF FanInv, TypeOK, LevelOf, Members
  <1>4. SequenceInv' /\ EndedInv'
    <2>1. SequenceInv'
      <3>1. \A k \in Members : k < at + 1 => k < at \/ k = at
        BY <1>0, <1>9
      <3>2. \A k \in Members : at + 1 <= k => at <= k /\ k # at
        BY <1>0, <1>9
      <3>3. \A k \in Members : at + 1 < k => at < k
        BY <1>0, <1>9
      <3> QED BY <1>0, <1>7, <1>9, <3>1, <3>2, <3>3 DEF SequenceInv, Members
    <2>2. EndedInv'
      BY <1>0, <1>7 DEF EndedInv, SequenceInv, TypeOK, Members
    <2> QED BY <2>1, <2>2
  <1>5. HandlesInv'
    BY DEF HandlesInv, TypeOK, Members
  <1>6. LimitInv'
    BY LimitKept DEF InFlight, TypeOK, Members
  <1> QED BY <1>1, <1>2, <1>3, <1>4, <1>5, <1>6

(* A sequential team goes on after a run that has returned. *)
LEMMA RunReturnsInductive == IInv /\ RunReturns => IInv'
  <1> SUFFICES ASSUME IInv, RunReturns PROVE IInv'
    OBVIOUS
  <1> USE DEF IInv, RunReturns, Sequential
  <1>0. at \in Members /\ \A m \in Members : m \in Nat
    BY MemberNumbers
  <1>7. /\ completed' \in Nat /\ failed' \in Nat
        /\ ended' \in [Members -> {"no", "completed", "failed"}] /\ ended'[at] = "completed"
        /\ \A k \in Members : k # at => ended'[k] = ended[k]
    BY <1>0, CountFacts
  <1>8. outputs' \subseteq Members
    BY <1>0 DEF TypeOK
  <1>9. at' = at + 1 /\ at \in Nat /\ at' \in Nat \ {0}
    BY <1>0
  <1>1. TypeOK'
    <2>0. handles' = <<>>
      BY DEF SequenceInv
    <2>1. handles' \in Seq(Members) /\ DOMAIN handles' = {}
      BY <2>0
    <2> QED BY <1>7, <1>8, <1>9, <2>1 DEF TypeOK, Members
  <1>2. LevelInv'
    BY LevelKept
  <1>3. FanInv'
    BY DEF FanInv, TypeOK, LevelOf, Members
  <1>4. SequenceInv' /\ EndedInv'
    <2>1. SequenceInv'
      <3>1. \A k \in Members : k < at + 1 => k < at \/ k = at
        BY <1>0, <1>9
      <3>2. \A k \in Members : at + 1 <= k => at <= k /\ k # at
        BY <1>0, <1>9
      <3>3. \A k \in Members : at + 1 < k => at < k
        BY <1>0, <1>9
      <3> QED BY <1>0, <1>7, <1>9, <3>1, <3>2, <3>3 DEF SequenceInv, Members
    <2>2. EndedInv'
      BY <1>0, <1>7 DEF EndedInv, SequenceInv, TypeOK, Members
    <2> QED BY <2>1, <2>2
  <1>5. HandlesInv'
    BY DEF HandlesInv, TypeOK, Members
  <1>6. LimitInv'
    BY LimitKept DEF InFlight, TypeOK, Members
  <1> QED BY <1>1, <1>2, <1>3, <1>4, <1>5, <1>6

(* A panic ends a sequential team. *)
LEMMA RunPanicsInductive == IInv /\ RunPanics => IInv'
  <1> SUFFICES ASSUME IInv, RunPanics PROVE IInv'
    OBVIOUS
  <1> USE DEF IInv, RunPanics, Sequential
  <1>1. TypeOK'
    BY DEF TypeOK, Members
  <1>2. LevelInv'
    BY LevelKept
  <1>3. FanInv'
    BY DEF FanInv, TypeOK, LevelOf, Members
  <1>4. SequenceInv' /\ EndedInv'
    BY DEF SequenceInv, EndedInv, TypeOK, Members
  <1>5. HandlesInv'
    BY DEF HandlesInv, SequenceInv, TypeOK, Members
  <1>6. LimitInv'
    BY LimitKept DEF InFlight, TypeOK, Members
  <1> QED BY <1>1, <1>2, <1>3, <1>4, <1>5, <1>6

(* A sequential team ends after its last member. *)
LEMMA SequenceEndsInductive == IInv /\ SequenceEnds => IInv'
  <1> SUFFICES ASSUME IInv, SequenceEnds PROVE IInv'
    OBVIOUS
  <1> USE DEF IInv, SequenceEnds, Sequential
  <1>1. TypeOK'
    BY DEF TypeOK, Members
  <1>2. LevelInv'
    BY LevelKept
  <1>3. FanInv'
    BY DEF FanInv, TypeOK, LevelOf, Members
  <1>4. SequenceInv' /\ EndedInv'
    BY DEF SequenceInv, EndedInv, TypeOK, Members
  <1>5. HandlesInv'
    BY DEF HandlesInv, SequenceInv, TypeOK, Members
  <1>6. LimitInv'
    BY LimitKept DEF InFlight, TypeOK, Members
  <1> QED BY <1>1, <1>2, <1>3, <1>4, <1>5, <1>6

(* A run that ends leaves the team as it is. *)
LEMMA TaskEndsInductive == \A m \in Members : IInv /\ TaskEnds(m) => IInv'
  <1> SUFFICES ASSUME NEW m \in Members, IInv, TaskEnds(m) PROVE IInv'
    OBVIOUS
  <1> USE DEF IInv, TaskEnds
  <1>1. TypeOK'
    BY DEF TypeOK, Members
  <1>2. LevelInv'
    BY LevelKept
  <1>3. FanInv'
    BY DEF FanInv, TypeOK, LevelOf, Members
  <1>4. SequenceInv' /\ EndedInv'
    BY DEF SequenceInv, EndedInv, TypeOK, Members
  <1>5. HandlesInv'
    <2>1. \A k \in Members : task'[k] # "none" => task[k] # "none"
      BY DEF TypeOK
    <2> QED BY <2>1 DEF HandlesInv, LevelOf, Members
  <1>6. LimitInv'
    BY LimitKept DEF InFlight, TypeOK, Members
  <1> QED BY <1>1, <1>2, <1>3, <1>4, <1>5, <1>6

(* Every step keeps the invariant. *)
LEMMA NextInductive == IInv /\ [Next]_vars => IInv'
  <1> SUFFICES ASSUME IInv, [Next]_vars PROVE IInv'
    OBVIOUS
  <1>1. CASE SortLevel
    BY <1>1, SortLevelInductive
  <1>2. CASE SortEnds
    BY <1>2, SortEndsInductive
  <1>3. CASE TakeChunk
    BY <1>3, TakeChunkInductive
  <1>4. CASE NextLevel
    BY <1>4, NextLevelInductive
  <1>5. CASE \E m \in Members : Spawn(m)
    BY <1>5, SpawnInductive
  <1>6. CASE \E m \in Members : NotFound(m)
    BY <1>6, NotFoundInductive
  <1>7. CASE \E m \in Members : Join(m)
    BY <1>7, JoinInductive
  <1>8. CASE RunNext
    BY <1>8, RunNextInductive
  <1>9. CASE NextNotFound
    BY <1>9, NextNotFoundInductive
  <1>10. CASE RunReturns
    BY <1>10, RunReturnsInductive
  <1>11. CASE RunPanics
    BY <1>11, RunPanicsInductive
  <1>12. CASE SequenceEnds
    BY <1>12, SequenceEndsInductive
  <1>13. CASE \E m \in Members : TaskEnds(m)
    BY <1>13, TaskEndsInductive
  <1>14. CASE UNCHANGED vars
    <2> USE <1>14 DEF vars, IInv
    <2>1. TypeOK' /\ LevelInv'
      BY LevelKept DEF TypeOK, Members
    <2>2. FanInv'
      BY DEF FanInv, Members, LevelOf
    <2>3. SequenceInv' /\ EndedInv'
      BY DEF SequenceInv, EndedInv, Members
    <2>4. HandlesInv'
      BY DEF HandlesInv, Members, LevelOf
    <2>5. LimitInv'
      BY DEF LimitInv, InFlight, Members
    <2> QED BY <2>1, <2>2, <2>3, <2>4, <2>5
  <1> QED BY <1>1, <1>2, <1>3, <1>4, <1>5, <1>6, <1>7, <1>8, <1>9, <1>10, <1>11, <1>12, <1>13,
             <1>14 DEF Next, TeamStep

(* The invariant holds throughout. *)
THEOREM Invariance == Spec => []IInv
  BY InitInductive, NextInductive, PTL DEF Spec

(* The types of run_team's state, and the handles' members are uncounted. *)
THEOREM TypeCorrect == Spec => []TypeOK
  <1>1. IInv => TypeOK
    BY DEF IInv
  <1> QED BY <1>1, Invariance, PTL

(* A member of a fan-out team is started only when all it depends on has   *)
(* been counted, however the dependencies are laid out.                    *)
THEOREM DependenciesComeFirst == Spec => []DependenciesFirst
  <1>1. IInv => DependenciesFirst
    <2> SUFFICES ASSUME IInv PROVE DependenciesFirst
      OBVIOUS
    <2> SUFFICES ASSUME pattern = "fan_out", NEW m \in Members, task[m] # "none",
                        NEW d \in deps[m]
                 PROVE  \E k \in Members :
                          agent[k] = d /\ ended[k] # "no" /\ (k \in outputs \/ task[k] = "panicked")
      BY DEF DependenciesFirst
    <2> USE DEF IInv
    <2>1. LevelOf(m) # 0 /\ LevelOf(m) <= at /\ agent[m] \in Agents
      BY DEF FanInv, TypeOK
    <2>2. d \in DepsOf(agent[m]) /\ d \in Agents
      BY DEF DepsOf, TypeOK
    <2>3. d \in Ids /\ level[d] # 0 /\ level[d] < LevelOf(m)
      BY <2>1, <2>2 DEF LevelInv, LevelOf
    <2>4. PICK k \in Members : agent[k] = d
      BY <2>3 DEF Ids
    <2>5. level[d] \in Nat /\ LevelOf(m) \in Nat /\ at \in Nat
      BY <2>1, <2>2 DEF TypeOK, LevelOf
    <2>6. LevelOf(k) # 0 /\ LevelOf(k) < at
      BY <2>1, <2>3, <2>4, <2>5 DEF LevelOf
    <2>7. ended[k] # "no"
      BY <2>6 DEF FanInv
    <2> QED BY <2>4, <2>7 DEF EndedInv, TypeOK
  <1> QED BY <1>1, Invariance, PTL

(* No more tasks of a team run at a time than the limit, also when it has  *)
(* been suspended.                                                         *)
THEOREM ConcurrencyIsLimited == Spec => []AtMostConcurrent
  <1>1. IInv => AtMostConcurrent
    <2> SUFFICES ASSUME IInv PROVE AtMostConcurrent
      OBVIOUS
    <2> DEFINE Running == {m \in Members : task[m] = "running"}
    <2>1. IsFiniteSet(1 .. N)
      BY FS_Interval
    <2>2. InFlight \subseteq 1 .. N /\ Running \subseteq InFlight
      BY DEF IInv, InFlight, TypeOK, Members
    <2>3. IsFiniteSet(InFlight)
      BY <2>1, <2>2, FS_Subset
    <2>4. /\ Cardinality(Running) <= Cardinality(InFlight)
          /\ Cardinality(Running) \in Nat /\ Cardinality(InFlight) \in Nat
      BY <2>2, <2>3, FS_Subset, FS_CardinalityType
    <2> QED BY <2>4 DEF IInv, LimitInv, AtMostConcurrent
  <1> QED BY <1>1, Invariance, PTL

(* A result of run_team, but the error of a suspension, leaves no task of  *)
(* the team running.                                                       *)
THEOREM ResultIsLast == Spec => []NothingOutlivesResult
  <1>1. IInv => NothingOutlivesResult
    <2> SUFFICES ASSUME IInv PROVE NothingOutlivesResult
      OBVIOUS
    <2> SUFFICES ASSUME phase \in {"ok", "circular", "lost"}, NEW m \in Members
                 PROVE  task[m] # "running"
      BY DEF NothingOutlivesResult, IInv, HandlesInv
    <2> USE DEF IInv
    <2>1. CASE pattern = "fan_out"
      <3>1. CASE phase = "circular"
        BY <2>1, <3>1 DEF FanInv
      <3>2. CASE phase = "ok"
        BY <2>1, <3>2 DEF HandlesInv, EndedInv, TypeOK
      <3> QED BY <2>1, <3>1, <3>2 DEF FanInv
    <2>2. CASE pattern = "sequential"
      <3>1. m \in Nat /\ m <= N /\ at \in Nat
        BY DEF Members, TypeOK
      <3>2. CASE phase = "ok"
        BY <2>2, <3>1, <3>2, SizeAssumption DEF SequenceInv
      <3>3. CASE phase = "lost"
        BY <2>2, <3>1, <3>3 DEF SequenceInv
      <3> QED BY <2>2, <3>2, <3>3 DEF SequenceInv
    <2> QED BY <2>1, <2>2 DEF TypeOK
  <1> QED BY <1>1, Invariance, PTL

-----------------------------------------------------------------------------
(* What fairness is not needed for in TeamEnds.  How far the team is, and  *)
(* how far a member: left, in the chunk, running, ended, counted.          *)
PhaseRank(p) == CASE p = "sorting" -> 0 [] p = "running" -> 1 [] OTHER -> 2

StageOf(m) ==
  CASE ended[m] # "no" -> 4
    [] ended[m] = "no" /\ task[m] \in {"done", "panicked"} -> 3
    [] ended[m] = "no" /\ task[m] = "running" -> 2
    [] ended[m] = "no" /\ task[m] = "none" /\ m \in chunk -> 1
    [] OTHER -> 0

NoneGoesBack ==
  /\ at' \in {at, at + 1}
  /\ \A a \in Agents : level[a] # 0 => level'[a] = level[a]
  /\ \A m \in Members : StageOf(m)' >= StageOf(m)

(* Every step of a team, whatever fails or panics, brings its phase        *)
(* forward; or it gives an agent a level, goes on to the next level or     *)
(* member, or brings a member forward, and nothing goes back.  None of     *)
(* this can be done without end.                                           *)
GoesForward ==
  \/ PhaseRank(phase') > PhaseRank(phase)
  \/ /\ phase' = phase /\ NoneGoesBack
     /\ \/ at' = at + 1
        \/ \E a \in Agents : level[a] = 0 /\ level'[a] # 0
        \/ \E m \in Members : StageOf(m)' > StageOf(m)

(* No more levels than the sort has found are run, and no more members     *)
(* than there are.                                                         *)
AtInv == at <= rounds \/ at <= N + 1

LEMMA StageType ==
  ASSUME NEW m \in Members PROVE StageOf(m) \in 0 .. 4
  BY DEF StageOf

(* One member is brought forward. *)
LEMMA MemberGoesOn ==
  ASSUME NEW m \in Members, phase' = phase, StageOf(m)' > StageOf(m),
         at' \in {at, at + 1}, UNCHANGED sorting,
         \A k \in Members \ {m} : StageOf(k)' = StageOf(k)
  PROVE  GoesForward
  <1>1. ASSUME NEW k \in Members PROVE StageOf(k)' >= StageOf(k)
    <2>1. StageOf(k) \in Nat /\ StageOf(m) \in Nat
      BY StageType
    <2>2. StageOf(m)' \in Nat
      BY DEF StageOf
    <2>3. CASE k = m
      BY <2>1, <2>2, <2>3
    <2>4. CASE k # m
      BY <2>1, <2>4
    <2> QED BY <2>3, <2>4
  <1> QED BY <1>1 DEF GoesForward, NoneGoesBack

(* Each of the steps is forward. *)
LEMMA NextGoesForward == IInv /\ Next => GoesForward
  <1> SUFFICES ASSUME IInv, Next PROVE GoesForward
    OBVIOUS
  <1>t. /\ task \in [Members -> {"none", "running", "done", "panicked"}]
        /\ ended \in [Members -> {"no", "completed", "failed"}]
        /\ at \in Nat /\ rounds \in Nat /\ level \in [Agents -> Nat] /\ chunk \subseteq Members
        /\ agent \in [Members -> Agents]
        /\ phase \in {"sorting", "running", "ok", "error", "circular", "lost"}
    BY DEF IInv, TypeOK
  <1>s. \A k \in Members : StageOf(k) \in Nat /\ StageOf(k) >= StageOf(k)
    BY StageType
  <1>1. CASE SortLevel
    <2>1. PICK a \in Agents : a \in Ready
      BY <1>t, <1>1 DEF SortLevel, Ready, Ids
    <2>2. level[a] = 0 /\ level'[a] = rounds + 1 /\ level'[a] # 0
      BY <1>t, <1>1, <2>1 DEF SortLevel, Ready
    <2>3. \A b \in Agents : level[b] # 0 => level'[b] = level[b]
      BY <1>t, <1>1 DEF SortLevel, Ready
    <2>4. \A k \in Members : StageOf(k)' = StageOf(k)
      BY <1>1 DEF SortLevel, StageOf
    <2>5. at' = at /\ phase' = phase
      BY <1>1 DEF SortLevel
    <2> QED BY <1>s, <2>2, <2>3, <2>4, <2>5 DEF GoesForward, NoneGoesBack
  <1>2. CASE SortEnds \/ RunPanics \/ SequenceEnds
    BY <1>2 DEF SortEnds, RunPanics, SequenceEnds, Sequential, GoesForward, PhaseRank
  <1>3. ASSUME phase = "running", Suspend PROVE GoesForward
    BY <1>3 DEF Suspend, GoesForward, PhaseRank
  <1>4. CASE TakeChunk
    <2>1. PICK S \in SUBSET Left : chunk' = S /\ S # {}
      <3>1. PICK S \in SUBSET Left :
              /\ Cardinality(S) = MaxConcurrent \/ (S = Left /\ Cardinality(S) <= MaxConcurrent)
              /\ chunk' = S
        BY <1>4 DEF TakeChunk
      <3>2. Cardinality(S) = MaxConcurrent => S # {}
        BY SizeAssumption, FS_EmptySet
      <3>3. Left # {}
        BY <1>4 DEF TakeChunk
      <3> QED BY <3>1, <3>2, <3>3
    <2>2. chunk = {} /\ handles = <<>> /\ pattern = "fan_out" /\ phase = "running"
      BY <1>4 DEF TakeChunk, FanningOut
    <2>3. \A k \in Left : k \in Members /\ ended[k] = "no" /\ task[k] = "none"
      BY <2>2 DEF Left, IInv, HandlesInv
    <2>4. \A k \in Members : StageOf(k)' = IF k \in S THEN 1 ELSE StageOf(k)
      BY <1>4, <2>1, <2>2, <2>3 DEF TakeChunk, StageOf
    <2>5. \A k \in S : k \in Members /\ StageOf(k) = 0
      BY <2>1, <2>2, <2>3 DEF StageOf
    <2>6. UNCHANGED <<phase, at, level>>
      BY <1>4 DEF TakeChunk
    <2>7. \A k \in Members : StageOf(k)' >= StageOf(k)
      BY <1>s, <2>4, <2>5
    <2>8. PICK k \in S : TRUE
      BY <2>1
    <2>9. k \in Members /\ StageOf(k)' > StageOf(k)
      BY <2>4, <2>5, <2>8
    <2> QED BY <2>6, <2>7, <2>9 DEF GoesForward, NoneGoesBack
  <1>5. CASE NextLevel
    <2>1. \A k \in Members : StageOf(k)' = StageOf(k)
      BY <1>5 DEF NextLevel, StageOf
    <2>2. CASE at < rounds
      <3>1. at' = at + 1 /\ UNCHANGED <<phase, level>>
        BY <1>5, <2>2 DEF NextLevel
      <3> QED BY <1>s, <2>1, <3>1 DEF GoesForward, NoneGoesBack
    <2>3. CASE ~(at < rounds)
      BY <1>5, <2>3 DEF NextLevel, FanningOut, GoesForward, PhaseRank
    <2> QED BY <2>2, <2>3
  <1>6. ASSUME NEW m \in Members, Spawn(m) PROVE GoesForward
    <2>1. task[m] = "none" /\ ended[m] = "no" /\ m \in chunk
      BY <1>6 DEF Spawn, IInv, EndedInv
    <2>2. StageOf(m) = 1 /\ StageOf(m)' = 2
      BY <1>t, <1>6, <2>1 DEF Spawn, StageOf
    <2>3. \A k \in Members \ {m} : StageOf(k)' = StageOf(k)
      BY <1>t, <1>6 DEF Spawn, StageOf
    <2> QED BY <1>6, <2>2, <2>3, MemberGoesOn DEF Spawn
  <1>7. ASSUME NEW m \in Members, ended[m] = "no", NEW as \in {"completed", "failed"},
               Count(m, as), phase' = phase, at' \in {at, at + 1}, UNCHANGED <<sorting, task>>,
               \A k \in Members \ {m} : (k \in chunk') = (k \in chunk)
        PROVE  GoesForward
    <2>1. ended'[m] # "no" /\ \A k \in Members \ {m} : ended'[k] = ended[k]
      BY <1>t, <1>7 DEF Count
    <2>2. StageOf(m) \in 0 .. 3 /\ StageOf(m)' = 4
      BY <1>7, <2>1 DEF StageOf
    <2>3. \A k \in Members \ {m} : StageOf(k)' = StageOf(k)
      BY <1>7, <2>1 DEF StageOf
    <2>4. StageOf(m)' > StageOf(m)
      BY <2>2
    <2> QED BY <1>7, <2>3, <2>4, MemberGoesOn
  <1>8. ASSUME NEW m \in Members, NotFound(m) PROVE GoesForward
    <2>1. CASE Suspend
      BY <1>3, <1>8, <2>1 DEF NotFound, FanningOut
    <2>2. CASE ~Suspend
      <3>1. ended[m] = "no"
        BY <1>8 DEF NotFound, IInv, EndedInv
      <3>2. /\ Count(m, "failed") /\ chunk' = chunk \ {m}
            /\ UNCHANGED <<phase, sorting, at, task>>
        BY <1>8, <2>2 DEF NotFound
      <3> QED BY <1>7, <3>1, <3>2
    <2> QED BY <2>1, <2>2
  <1>9. ASSUME NEW m \in Members, Join(m) PROVE GoesForward
    <2>1. ended[m] = "no"
      <3>1. 1 \in DOMAIN handles /\ m = handles[1]
        BY <1>9, TailFacts DEF Join, IInv, TypeOK
      <3> QED BY <3>1 DEF IInv, TypeOK
    <2>2. \E as \in {"completed", "failed"} : Count(m, as)
      BY <1>9 DEF Join
    <2>3. UNCHANGED <<phase, sorting, at, chunk, task>>
      BY <1>9 DEF Join
    <2> QED BY <1>7, <2>1, <2>2, <2>3
  <1>10. CASE RunNext
    <2>1. at \in Members /\ task[at] = "none" /\ chunk = {} /\ ended[at] = "no"
      BY <1>t, <1>10, MemberNumbers DEF RunNext, Sequential, IInv, SequenceInv
    <2>2. StageOf(at) = 0
      BY <2>1 DEF StageOf
    <2>3. \A k \in Members : StageOf(k)' = IF k = at THEN 2 ELSE StageOf(k)
      BY <1>t, <1>10, <2>1 DEF RunNext, StageOf
    <2>4. PICK m \in Members : m = at
      BY <2>1
    <2>5. StageOf(m)' > StageOf(m) /\ \A k \in Members \ {m} : StageOf(k)' = StageOf(k)
      BY <2>2, <2>3, <2>4
    <2> QED BY <1>10, <2>5, MemberGoesOn DEF RunNext
  <1>11. CASE NextNotFound \/ RunReturns
    <2>1. CASE Suspend
      BY <1>3, <1>11, <2>1 DEF NextNotFound, RunReturns, Sequential
    <2>2. CASE ~Suspend
      <3>1. at \in Members /\ ended[at] = "no"
        BY <1>t, <1>11, MemberNumbers DEF NextNotFound, RunReturns, Sequential, IInv, SequenceInv
      <3>2. PICK m \in Members : m = at
        BY <3>1
      <3>3. /\ \E as \in {"completed", "failed"} : Count(m, as)
            /\ at' = at + 1 /\ UNCHANGED <<phase, sorting, chunk, task>>
        BY <1>11, <2>2, <3>2 DEF NextNotFound, RunReturns
      <3> QED BY <1>7, <3>1, <3>2, <3>3
    <2> QED BY <2>1, <2>2
  <1>12. ASSUME NEW m \in Members, TaskEnds(m) PROVE GoesForward
    <2>1. task[m] = "running" /\ ended[m] = "no"
      BY <1>t, <1>12 DEF TaskEnds, IInv, EndedInv
    <2>2. StageOf(m) = 2 /\ StageOf(m)' = 3
      BY <1>t, <1>12, <2>1 DEF TaskEnds, StageOf
    <2>3. \A k \in Members \ {m} : StageOf(k)' = StageOf(k)
      BY <1>t, <1>12 DEF TaskEnds, StageOf
    <2> QED BY <1>12, <2>2, <2>3, MemberGoesOn DEF TaskEnds
  <1> QED BY <1>1, <1>2, <1>4, <1>5, <1>6, <1>8, <1>9, <1>10, <1>11, <1>12 DEF Next, TeamStep

LEMMA AtStep == IInv /\ AtInv /\ [Next]_vars => AtInv'
  <1> SUFFICES ASSUME IInv, AtInv, [Next]_vars PROVE AtInv'
    OBVIOUS
  <1>t. at \in Nat /\ rounds \in Nat /\ N \in Nat
    BY SizeAssumption DEF IInv, TypeOK
  <1>1. CASE SortLevel
    BY <1>t, <1>1 DEF SortLevel, AtInv
  <1>2. CASE NextLevel
    BY <1>t, <1>2 DEF NextLevel, AtInv
  <1>3. CASE NextNotFound \/ RunReturns
    BY <1>t, <1>3 DEF NextNotFound, RunReturns, Suspend, AtInv
  <1>4. CASE UNCHANGED <<at, rounds>>
    BY <1>4 DEF AtInv
  <1>5. CASE \E m \in Members : Spawn(m) \/ NotFound(m) \/ Join(m) \/ TaskEnds(m)
    BY <1>4, <1>5 DEF Spawn, NotFound, Suspend, Join, TaskEnds
  <1>6. CASE SortEnds \/ TakeChunk \/ RunNext \/ RunPanics \/ SequenceEnds \/ UNCHANGED vars
    BY <1>4, <1>6 DEF SortEnds, TakeChunk, RunNext, RunPanics, SequenceEnds, vars
  <1> QED BY <1>1, <1>2, <1>3, <1>5, <1>6 DEF Next, TeamStep

(* Every step of a team goes forward (GoesForward), and the levels and     *)
(* members it goes through are limited: TeamEnds needs no more than that   *)
(* steps are taken.                                                        *)
THEOREM TeamsRunOut == Spec => []AtInv /\ [][GoesForward]_vars
  <1>1. Init => AtInv
    BY SizeAssumption DEF Init, AtInv
  <1>2. IInv /\ [Next]_vars => [GoesForward]_vars
    BY NextGoesForward
  <1> QED BY <1>1, <1>2, AtStep, InitInductive, NextInductive, PTL DEF Spec
=============================================================================
