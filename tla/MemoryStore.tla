---------------------------- MODULE MemoryStore ----------------------------
(***************************************************************************)
(* The memory store: what agents learn is kept in the table "memories",    *)
(* one row per distinct content, and is searched by text and by embedding. *)
(* store looks for a duplicate, awaits the embedding of the content from a *)
(* model server and only then inserts; retrieve_full awaits the embedding  *)
(* of the query between its two searches and loads the rows it found one   *)
(* by one.  Calls of different agent runs interleave at every statement.   *)
(* The dashboard also lists the table page by page, without a search and   *)
(* without the access policy.                                              *)
(*                                                                         *)
(* A content is a member of Facts, its hash the content itself; a rank is  *)
(* left out, so that any TopK of the rows found may be the best ones;      *)
(* importance is kept in tenths, rounded down; and the age of a row, since *)
(* its last access or else its creation, is a number of months.            *)
(* Nothing in the program stores a private memory, touches one or lets     *)
(* them decay yet: those are operations that the store offers.             *)
(***************************************************************************)
EXTENDS Naturals, FiniteSets

CONSTANTS
  Facts,         \* the contents that are stored
  Substantial,   \* those of 20 bytes and more, which are embedded
  Agents,        \* the agents that store and search
  Dashboard,     \* the caller that is no agent: agent_id is None
  NewMemories,   \* what is given to store
  MemCalls,      \* the calls of store and retrieve_full that may overlap
  TopK,          \* how many results a search asks for
  MaxMemories,   \* bound: rows ever inserted
  MaxMonths      \* bound: months that pass, and decays

Callers == Agents \cup {Dashboard}
MemoryType == {"session", "semantic", "pinned"}
AccessPolicy == {"private", "workspace"}
Importance == 1 .. 10
MinImportance == 3          \* what agents ask for: min_importance 0.3
Age == 0 .. 2               \* 2: sixty days and more

MemoryId == 1 .. MaxMemories
Memory == [id : MemoryId, fact : Facts, type : MemoryType, agent : Callers,
           access : AccessPolicy, importance : Importance, embedded : BOOLEAN,
           age : Age]
NewMemory == [fact : Facts, type : MemoryType, agent : Callers,
              access : AccessPolicy, importance : Importance]

ASSUME MemoryStoreAssumption ==
  /\ Substantial \subseteq Facts
  /\ Dashboard \notin Agents
  /\ NewMemories \subseteq NewMemory
  /\ TopK \in Nat /\ MaxMemories \in Nat /\ MaxMonths \in Nat

VARIABLES
  memories,  \* the rows of the table
  nextId,    \* ULIDs grow
  months,    \* how many months have passed
  decays,    \* how often decay_importance has run
  memPc,     \* memPc[c]: where the call is
  wanted,    \* wanted[c]: what store is to keep
  embedding, \* embedding[c]: has store got an embedding?
  asker,     \* asker[c]: who searches or lists
  found,     \* found[c]: the ids a search has found and not loaded yet
  loaded,    \* loaded[c]: of the rows it is shown, and the age each had before
  kept       \* kept[c]: was the wanted fact in the table since the call began?

memVars == <<memories, nextId, months, decays, memPc, wanted, embedding, asker, found,
             loaded, kept>>

(* What an idle call holds. *)
Nothing == CHOOSE m \in NewMemory : TRUE

MemInit ==
  /\ memories = {}
  /\ nextId = 1
  /\ months = 0
  /\ decays = 0
  /\ memPc = [c \in MemCalls |-> "idle"]
  /\ wanted = [c \in MemCalls |-> Nothing]
  /\ embedding = [c \in MemCalls |-> FALSE]
  /\ asker = [c \in MemCalls |-> Dashboard]
  /\ found = [c \in MemCalls |-> {}]
  /\ loaded = [c \in MemCalls |-> {}]
  /\ kept = [c \in MemCalls |-> FALSE]

-----------------------------------------------------------------------------
(* store.                                                                  *)

RowsOf(fact) == {m \in memories : m.fact = fact}

(* Slip: any row that was embedded counts as a duplicate. *)
SimilarRows(fact) == {m \in memories : m.fact = fact \/ m.embedded}

(* SELECT id ... WHERE workspace_id = ?1 AND content_hash = ?2 *)
Duplicates(fact) == RowsOf(fact)

(* compute_embedding is awaited for these. *)
Embeds(m) == m.type \in {"semantic", "pinned"} /\ m.fact \in Substantial

(* The duplicate is looked for; if there is one its id is the answer, and  *)
(* nothing of the new memory is kept.                                      *)
BeginStore(c, new) ==
  /\ memPc[c] = "idle"
  /\ kept' = [kept EXCEPT ![c] = RowsOf(new.fact) # {}]
  /\ \/ /\ Duplicates(new.fact) # {}
        /\ memPc' = [memPc EXCEPT ![c] = "stored"]
        /\ UNCHANGED wanted
     \/ /\ Duplicates(new.fact) = {}
        /\ wanted' = [wanted EXCEPT ![c] = new]
        /\ memPc' = [memPc EXCEPT ![c] = IF Embeds(new) THEN "embed" ELSE "insert"]
  /\ UNCHANGED <<memories, nextId, months, decays, embedding, asker, found, loaded>>

(* memory_write; what extract_facts finds in the conversation of a run     *)
(* that is over; the dashboard.                                            *)
WriteMemory(c, new) ==
  /\ new.agent \in Agents /\ new.access = "workspace"
  /\ BeginStore(c, new)

LearnFact(c, new) ==
  /\ new.agent \in Agents /\ new.access = "workspace"
  /\ new.type = "semantic" /\ new.importance = 6
  /\ BeginStore(c, new)

CreateMemory(c, new) ==
  /\ new.agent = Dashboard /\ new.access = "workspace"
  /\ BeginStore(c, new)

StorePrivate(c, new) ==
  /\ new.agent \in Agents /\ new.access = "private"
  /\ BeginStore(c, new)

(* The model server answers, or no provider can embed: then the memory is  *)
(* stored without an embedding.                                            *)
Embed(c, ok) ==
  /\ memPc[c] = "embed"
  /\ embedding' = [embedding EXCEPT ![c] = ok]
  /\ memPc' = [memPc EXCEPT ![c] = "insert"]
  /\ UNCHANGED <<memories, nextId, months, decays, wanted, asker, found, loaded, kept>>

(* INSERT; the unique index on the content hash rejects a row whose        *)
(* content another call inserted in the meantime.                          *)
InsertMemory(c) ==
  /\ memPc[c] = "insert"
  /\ LET new == wanted[c] IN
     \/ /\ RowsOf(new.fact) # {}
        /\ UNCHANGED <<memories, nextId, kept>>
     \/ /\ RowsOf(new.fact) = {}
        /\ nextId \in MemoryId
        /\ memories' = memories \cup
             {[id |-> nextId, fact |-> new.fact, type |-> new.type, agent |-> new.agent,
               access |-> new.access, importance |-> new.importance,
               embedded |-> embedding[c], age |-> 0]}
        /\ nextId' = nextId + 1
        /\ kept' = [d \in MemCalls |->
                      kept[d] \/ (memPc[d] \in {"embed", "insert"} /\ wanted[d].fact = new.fact)]
  /\ memPc' = [memPc EXCEPT ![c] = "stored"]
  /\ wanted' = [wanted EXCEPT ![c] = Nothing]
  /\ embedding' = [embedding EXCEPT ![c] = FALSE]
  /\ UNCHANGED <<months, decays, asker, found, loaded>>

-----------------------------------------------------------------------------
(* retrieve_full, as memory_read and build_memory_context call it.         *)

(* What an agent asks for; the dashboard and /memory search ask for all. *)
AskedFor(who) ==
  {m \in memories : who \in Agents => /\ m.type \in {"semantic", "pinned"}
                                     /\ m.importance >= MinImportance}

(* Slip: the access policy is not part of the filter. *)
RelevantToAnyone(who) == AskedFor(who)

(* The filters of both searches: type, importance, access policy. *)
Relevant(who) ==
  {m \in AskedFor(who) :
     m.access # "private" \/ (who \in Agents /\ m.agent = who)}

Ids(rows) == {m.id : m \in rows}

(* The text search; a query that is no FTS5 expression finds nothing. *)
TextSearch(c, who) ==
  /\ memPc[c] = "idle"
  /\ asker' = [asker EXCEPT ![c] = who]
  /\ \E hits \in SUBSET Relevant(who) : found' = [found EXCEPT ![c] = Ids(hits)]
  /\ memPc' = [memPc EXCEPT ![c] = "vector"]
  /\ UNCHANGED <<memories, nextId, months, decays, wanted, embedding, loaded, kept>>

(* rrf_merge: TopK of the ids that either search found. *)
Merged(ids) ==
  {best \in SUBSET ids :
     Cardinality(best) = IF Cardinality(ids) < TopK THEN Cardinality(ids) ELSE TopK}

(* The vector search, when the query is long enough and could be embedded. *)
VectorSearch(c) ==
  /\ memPc[c] = "vector"
  /\ \E similar \in {{}, Ids({m \in Relevant(asker[c]) : m.embedded})} :
       \E best \in Merged(found[c] \cup similar) : found' = [found EXCEPT ![c] = best]
  /\ memPc' = [memPc EXCEPT ![c] = "load"]
  /\ UNCHANGED <<memories, nextId, months, decays, wanted, embedding, asker, loaded, kept>>

(* load_memory_by_id marks the row as accessed and reads it, in this       *)
(* order; a row that was deleted meanwhile is skipped.  The age penalty of *)
(* its score is computed from the row as it was read.                      *)
LoadMemory(c, id) ==
  /\ memPc[c] = "load"
  /\ id \in found[c]
  /\ found' = [found EXCEPT ![c] = @ \ {id}]
  /\ memories' = {IF m.id = id THEN [m EXCEPT !.age = 0] ELSE m : m \in memories}
  /\ loaded' = [loaded EXCEPT ![c] =
       @ \cup {[id |-> id, agent |-> m.agent, access |-> m.access, age |-> 0,
                  ageBefore |-> m.age] : m \in {n \in memories : n.id = id}}]
  /\ UNCHANGED <<nextId, months, decays, memPc, wanted, embedding, asker, kept>>

(* list, which the dashboard calls when it has no query: a page of the     *)
(* rows, whatever their access policy.  No row is touched.                 *)
ListMemories(c) ==
  /\ memPc[c] = "idle"
  /\ asker' = [asker EXCEPT ![c] = Dashboard]
  /\ \E page \in SUBSET memories :
       loaded' = [loaded EXCEPT ![c] =
         {[id |-> m.id, agent |-> m.agent, access |-> m.access, age |-> m.age,
           ageBefore |-> m.age] : m \in page}]
  /\ memPc' = [memPc EXCEPT ![c] = "listed"]
  /\ UNCHANGED <<memories, nextId, months, decays, wanted, embedding, found, kept>>

(* store has returned, the page is read, or all rows are loaded and sorted *)
(* by their scores: the caller has its result and the slot is free for the *)
(* next call.                                                              *)
EndCall(c) ==
  /\ memPc[c] \in {"stored", "listed"} \/ (memPc[c] = "load" /\ found[c] = {})
  /\ memPc' = [memPc EXCEPT ![c] = "idle"]
  /\ asker' = [asker EXCEPT ![c] = Dashboard]
  /\ loaded' = [loaded EXCEPT ![c] = {}]
  /\ kept' = [kept EXCEPT ![c] = FALSE]
  /\ UNCHANGED <<memories, nextId, months, decays, wanted, embedding, found>>

-----------------------------------------------------------------------------
(* The operations of one statement, and time.                              *)

Becomes(rows) ==
  /\ memories' = rows
  /\ UNCHANGED <<nextId, memPc, wanted, embedding, asker, found, loaded, kept>>

Pin(id) ==
  /\ Becomes({IF m.id = id THEN [m EXCEPT !.type = "pinned", !.importance = 10] ELSE m :
               m \in memories})
  /\ UNCHANGED <<months, decays>>

Unpin(id) ==
  /\ Becomes({IF m.id = id /\ m.type = "pinned" THEN [m EXCEPT !.type = "semantic"] ELSE m :
               m \in memories})
  /\ UNCHANGED <<months, decays>>

Delete(id) ==
  /\ Becomes({m \in memories : m.id # id})
  /\ UNCHANGED <<months, decays>>

(* The dashboard's buttons. *)
Manage(id) == Pin(id) \/ Unpin(id) \/ Delete(id)

Touch(id) ==
  /\ Becomes({IF m.id = id THEN [m EXCEPT !.age = 0] ELSE m : m \in memories})
  /\ UNCHANGED <<months, decays>>

(* MAX(0.1, importance * 0.6) after sixty days, * 0.8 after thirty. *)
Decayed(importance, age) ==
  LET lower == IF age = 2 THEN (importance * 6) \div 10
               ELSE IF age = 1 THEN (importance * 8) \div 10 ELSE importance
  IN IF lower < 1 THEN 1 ELSE lower

DecayImportance ==
  /\ decays < MaxMonths
  /\ decays' = decays + 1
  /\ Becomes({IF m.type = "pinned" THEN m
              ELSE [m EXCEPT !.importance = Decayed(m.importance, m.age)] : m \in memories})
  /\ UNCHANGED months

MonthPasses ==
  /\ months < MaxMonths
  /\ months' = months + 1
  /\ UNCHANGED decays
  /\ Becomes({[m EXCEPT !.age = IF @ = 2 THEN 2 ELSE @ + 1] : m \in memories})

MemNext ==
  \/ \E c \in MemCalls :
       \/ \E new \in NewMemories :
            WriteMemory(c, new) \/ LearnFact(c, new) \/ CreateMemory(c, new)
              \/ StorePrivate(c, new)
       \/ \E ok \in BOOLEAN : Embed(c, ok)
       \/ InsertMemory(c)
       \/ \E who \in Callers : TextSearch(c, who)
       \/ VectorSearch(c)
       \/ \E id \in MemoryId : LoadMemory(c, id)
       \/ ListMemories(c)
       \/ EndCall(c)
  \/ \E id \in MemoryId : Manage(id) \/ Touch(id)
  \/ DecayImportance
  \/ MonthPasses

MemSpec == MemInit /\ [][MemNext]_memVars

-----------------------------------------------------------------------------
(* The types, and the unique index: no two rows have an id or a content in *)
(* common, however many calls looked for the duplicate at the same time.   *)
MemTypeOK ==
  /\ memories \subseteq Memory
  /\ \A m, n \in memories : m.id = n.id \/ m.fact = n.fact => m = n
  /\ nextId \in 1 .. MaxMemories + 1
  /\ \A m \in memories : m.id < nextId
  /\ months \in 0 .. MaxMonths /\ decays \in 0 .. MaxMonths
  /\ memPc \in [MemCalls ->
       {"idle", "embed", "insert", "stored", "vector", "load", "listed"}]
  /\ wanted \in [MemCalls -> NewMemory \cup {Nothing}]
  /\ embedding \in [MemCalls -> BOOLEAN]
  /\ asker \in [MemCalls -> Callers]
  /\ found \in [MemCalls -> SUBSET MemoryId]
  /\ loaded \in [MemCalls ->
       SUBSET [id : MemoryId, agent : Callers, access : AccessPolicy, age : Age,
               ageBefore : Age]]
  /\ kept \in [MemCalls -> BOOLEAN]

(* A fact that was given to store is not lost, whether the call returned   *)
(* an id or the error of the unique index: the fact was in the table at    *)
(* some time between the call's begin and its end, and stays there until   *)
(* someone deletes it.                                                     *)
LearntFactKept == \A c \in MemCalls : memPc[c] = "stored" => kept[c]

(* A search shows an agent's private memories to no other caller, although *)
(* the rows are loaded by id, after the search that applied the access     *)
(* policy and after whatever other calls did in between.  Only the list of *)
(* the dashboard shows them, which applies no policy: no agent gets it.    *)
PrivateStaysPrivate ==
  \A c \in MemCalls : \A l \in loaded[c] :
    l.access = "private" =>
      IF memPc[c] = "listed" THEN asker[c] = Dashboard
      ELSE asker[c] \in Agents /\ l.agent = asker[c]

(* "agent2 should NOT see agent1's private memory"                         *)
(* (core/memory/src/store.rs:1032), said of everyone: no caller but its    *)
(* agent is shown a private memory.  The dashboard is, in its list.        *)
PrivateShownToItsAgentOnly ==
  \A c \in MemCalls : \A l \in loaded[c] : l.access = "private" => l.agent = asker[c]

(* Both: what the store promises to those who store and to those who read. *)
MemoryPromises == LearntFactKept /\ PrivateStaysPrivate

(* "memories not accessed for 30+ days get score reduced by 20%"           *)
(* (core/memory/src/store.rs:808): the age that the score of a loaded row  *)
(* is computed from is the age it had when it was searched for.            *)
StaleScoresReduced ==
  \A c \in MemCalls : \A l \in loaded[c] : l.age = l.ageBefore
=============================================================================
