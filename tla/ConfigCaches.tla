---------------------------- MODULE ConfigCaches ----------------------------
(***************************************************************************)
(* What a multi-tenant engine keeps in memory of its configuration tables: *)
(* the clients of the models (llm/model_cache.go), the settings of BYOK    *)
(* (app/byok_resolver.go), the schemas of knowledge-graph bundles          *)
(* (kgtools) and the agents with the names of their tools (agentregistry), *)
(* which Load derives from the tables of agents and from the cached        *)
(* bundles.  One entry of each; a table is known by the number of its last *)
(* change, and 0 is no entry.                                              *)
(*                                                                         *)
(* A reader that misses reads the table and inserts what it read, in two   *)
(* steps.  A writer commits a change and then drops the entry, or is one   *)
(* of those that never do (CommitSilently).                                *)
(***************************************************************************)
EXTENDS Nil, Naturals

CONSTANTS
  Readers, Writers,  \* requests under way that use or change the configuration
  CacheTTL,          \* byokCacheTTL, 30 s, in ticks
  LoadTicks,         \* bound: how long reading a table takes
  MaxChanges         \* bound: changes of each table

ASSUME CacheAssumption ==
  /\ None \notin Readers
  /\ CacheTTL \in Nat \ {0} /\ LoadTicks \in Nat /\ MaxChanges \in Nat \ {0}

Data == {"model", "byok", "bundle", "agents"}
Simple == {"model", "byok"}  \* what one reader inserts as it read it

VARIABLES
  table,       \* per datum, the number of its last change
  cached,      \* per datum, the change its entry shows, 0 if there is no entry
  tools,       \* the change of the bundle in the agents' DerivedTools
  entryAge,    \* age of the BYOK entry
  changeAge,   \* age of the last change of the BYOK settings (history)
  registryMu,  \* agentregistry.Manager.mu: the reader that holds it for writing
  reader,      \* per reader, where it is and what it has read
  writer,      \* per writer, the datum it has changed and still has to drop
  overlapped,   \* entries that were not the table's when they were inserted (history)
  undropped     \* data with a silent change that its entry may not show (history)

cacheVars == <<table, cached, tools, entryAge, changeAge, registryMu, reader, writer,
               overlapped, undropped>>

Change == 0..MaxChanges

\* The configured BYOK settings, which stand for a row that could not be read.
Configured == MaxChanges + 1
Entry == 0..Configured
IdleReader == [pc |-> "idle", datum |-> "none", agents |-> 0, read |-> 0, age |-> 0]

CacheTypeOK ==
  /\ table \in [Data -> 1..MaxChanges]
  /\ cached \in [Data -> Entry] /\ tools \in Change
  /\ \A d \in Data : cached[d] = Configured => d = "byok"
  /\ entryAge \in 0..CacheTTL /\ changeAge \in 0..CacheTTL + LoadTicks
  /\ registryMu \in Readers \cup {None}
  /\ reader \in [Readers -> [pc : {"idle", "read", "insert", "recheck", "agents", "bundle",
                                   "readBundle", "setBundle", "tools"},
                             datum : Simple \cup {"agents", "none"},
                             agents : Change, read : Entry, age : 0..LoadTicks]]
  /\ writer \in [Writers -> Data \cup {"idle"}]
  /\ overlapped \subseteq Data /\ undropped \subseteq Data

CacheInit ==
  /\ table = [d \in Data |-> 1]
  /\ cached = [d \in Data |-> 0] /\ tools = 0
  /\ entryAge = CacheTTL /\ changeAge = CacheTTL + LoadTicks
  /\ registryMu = None
  /\ reader = [q \in Readers |-> IdleReader]
  /\ writer = [w \in Writers |-> "idle"]
  /\ overlapped = {} /\ undropped = {}

ReaderAt(q, step) == reader[q].pc = step
ReaderGoto(q, step) == reader' = [reader EXCEPT ![q].pc = step]
ReaderDone(q) == reader' = [reader EXCEPT ![q] = IdleReader]

-----------------------------------------------------------------------------
(* Writers                                                                 *)

\* A change of the table is committed.
ChangeTable(d) ==
  /\ table[d] < MaxChanges
  /\ table' = [table EXCEPT ![d] = @ + 1]
  /\ changeAge' = IF d = "byok" THEN 0 ELSE changeAge
  /\ UNCHANGED <<cached, tools, entryAge, registryMu, reader, overlapped>>

\* The writer goes on to the drop, as UpdateModel and the mutations of a bundle do.
Commit(w, d) ==
  /\ writer[w] = "idle"
  /\ ChangeTable(d)
  /\ writer' = [writer EXCEPT ![w] = d]
  /\ UNCHANGED undropped

\* The change is never followed by a drop.  Of a model: the admin tools and an import
\* reload the agents only.  Of an agent: backfillTenantAgentsToDefault gives it a model,
\* and an import that fails at its graphs returns before the reload.  Of the settings:
\* UpdateSetting returns before the drop if it cannot read the row back.
CommitSilently(d) ==
  /\ d # "bundle"
  /\ ChangeTable(d)
  /\ undropped' = undropped \cup {d}
  /\ UNCHANGED writer

\* Variant: the registry is dropped without Manager.mu.
DropUnlocked(w) ==
  LET d == writer[w] IN
  /\ d # "idle"
  /\ cached' = [cached EXCEPT ![d] = 0]
  /\ overlapped' = overlapped \ {d} /\ undropped' = undropped \ {d}
  /\ writer' = [writer EXCEPT ![w] = "idle"]
  /\ UNCHANGED <<table, tools, entryAge, changeAge, registryMu, reader>>

\* Variant: a writer of settings forgets the cache.
DropForgotten(w) ==
  LET d == writer[w] IN
  /\ d # "idle" /\ (d = "agents" => registryMu = None)
  /\ cached' = IF d = "byok" THEN cached ELSE [cached EXCEPT ![d] = 0]
  /\ overlapped' = overlapped \ {d} /\ undropped' = undropped \ {d}
  /\ writer' = [writer EXCEPT ![w] = "idle"]
  /\ UNCHANGED <<table, tools, entryAge, changeAge, registryMu, reader>>

\* Invalidate of the model, InvalidateTenant of BYOK and of the agents,
\* InvalidateBundle: only the registry of agents is locked while it is loaded.
Drop(w) ==
  LET d == writer[w] IN
  /\ d # "idle" /\ (d = "agents" => registryMu = None)
  /\ cached' = [cached EXCEPT ![d] = 0]
  /\ overlapped' = overlapped \ {d} /\ undropped' = undropped \ {d}
  /\ writer' = [writer EXCEPT ![w] = "idle"]
  /\ UNCHANGED <<table, tools, entryAge, changeAge, registryMu, reader>>

-----------------------------------------------------------------------------
(* Readers of a model or of BYOK settings                                  *)

\* Variant: an entry is served however old it is.
FreshForever == cached["byok"] # 0

\* Resolve of BYOK serves its entry for CacheTTL.
Fresh == cached["byok"] # 0 /\ entryAge < CacheTTL

Hit(d) == IF d = "byok" THEN Fresh ELSE cached[d] # 0

\* Resolve finds no entry; a hit changes nothing.
Miss(q, d) ==
  /\ ReaderAt(q, "idle") /\ ~Hit(d)
  /\ reader' = [reader EXCEPT ![q] = [IdleReader EXCEPT !.pc = "read", !.datum = d]]
  /\ UNCHANGED <<table, cached, tools, entryAge, changeAge, registryMu, writer, overlapped, undropped>>

\* Resolve reads the table, without a lock.  It fails with the row of a model; what of
\* the BYOK settings cannot be read, loadBYOKConfig takes from the configuration.
ReadTable(q) ==
  LET d == reader[q].datum IN
  /\ ReaderAt(q, "read")
  /\ \/ \E entry \in {table[d]} \cup (IF d = "byok" THEN {Configured} ELSE {}) :
          reader' = [reader EXCEPT ![q].pc = "insert", ![q].read = entry]
     \/ d = "model" /\ ReaderDone(q)
  /\ UNCHANGED <<table, cached, tools, entryAge, changeAge, registryMu, writer, overlapped, undropped>>

\* An entry is put, over another one or after the invalidation it should have seen.
Put(d, entry) ==
  /\ cached' = [cached EXCEPT ![d] = entry]
  /\ overlapped' = IF entry = table[d] THEN overlapped \ {d} ELSE overlapped \cup {d}
  /\ undropped' = IF entry = table[d] THEN undropped \ {d} ELSE undropped

InsertEntry(q) ==
  LET d == reader[q].datum IN
  /\ ReaderAt(q, "insert")
  /\ Put(d, reader[q].read)
  /\ entryAge' = IF d = "byok" THEN 0 ELSE entryAge
  /\ ReaderDone(q)
  /\ UNCHANGED <<table, tools, changeAge, registryMu, writer>>

-----------------------------------------------------------------------------
(* Readers of the agents: GetForContext and AgentRegistry.Load             *)

GetRegistry(q) ==
  /\ ReaderAt(q, "idle") /\ cached["agents"] = 0
  /\ reader' = [reader EXCEPT ![q].pc = "recheck", ![q].datum = "agents"]
  /\ UNCHANGED <<table, cached, tools, entryAge, changeAge, registryMu, writer, overlapped, undropped>>

\* The second look under the write lock, which Load keeps.
Recheck(q) ==
  /\ ReaderAt(q, "recheck") /\ registryMu = None
  /\ IF cached["agents"] # 0
       THEN ReaderDone(q) /\ UNCHANGED registryMu
       ELSE ReaderGoto(q, "agents") /\ registryMu' = q
  /\ UNCHANGED <<table, cached, tools, entryAge, changeAge, writer, overlapped, undropped>>

\* AgentReader.List and CapabilityReader.ListAll.
ListAgents(q) ==
  /\ ReaderAt(q, "agents")
  /\ reader' = [reader EXCEPT ![q].pc = "bundle", ![q].agents = table["agents"]]
  /\ UNCHANGED <<table, cached, tools, entryAge, changeAge, registryMu, writer, overlapped, undropped>>

\* ensureBundleLoaded.
LookupBundle(q) ==
  /\ ReaderAt(q, "bundle")
  /\ ReaderGoto(q, IF cached["bundle"] # 0 THEN "tools" ELSE "readBundle")
  /\ UNCHANGED <<table, cached, tools, entryAge, changeAge, registryMu, writer, overlapped, undropped>>

ListByBundle(q) ==
  /\ ReaderAt(q, "readBundle")
  /\ reader' = [reader EXCEPT ![q].pc = "setBundle", ![q].read = table["bundle"]]
  /\ UNCHANGED <<table, cached, tools, entryAge, changeAge, registryMu, writer, overlapped, undropped>>

SetBundle(q) ==
  /\ ReaderAt(q, "setBundle")
  /\ Put("bundle", reader[q].read)
  /\ ReaderGoto(q, "tools")
  /\ UNCHANGED <<table, tools, entryAge, changeAge, registryMu, writer>>

\* ToolsForBundles takes what is cached now, nothing if that has just been dropped;
\* then the registry is stored and Manager.mu released.
StoreRegistry(q) ==
  /\ ReaderAt(q, "tools")
  /\ tools' = cached["bundle"]
  /\ Put("agents", reader[q].agents)
  /\ registryMu' = None
  /\ ReaderDone(q)
  /\ UNCHANGED <<table, entryAge, changeAge, writer>>

\* A table cannot be read: nothing is stored.
LoadFails(q) ==
  /\ reader[q].pc \in {"agents", "readBundle"}
  /\ registryMu' = None
  /\ ReaderDone(q)
  /\ UNCHANGED <<table, cached, tools, entryAge, changeAge, writer, overlapped, undropped>>

-----------------------------------------------------------------------------

UpTo(age, limit) == IF age < limit THEN age + 1 ELSE age

\* Time; a BYOK table that was read is inserted within LoadTicks.
TickCaches ==
  /\ \A q \in Readers : ReaderAt(q, "insert") => reader[q].age < LoadTicks
  /\ entryAge' = UpTo(entryAge, CacheTTL)
  /\ changeAge' = UpTo(changeAge, CacheTTL + LoadTicks)
  /\ reader' = [q \in Readers |-> IF ReaderAt(q, "insert") THEN [reader[q] EXCEPT !.age = @ + 1]
                                                           ELSE reader[q]]
  /\ UNCHANGED <<table, cached, tools, registryMu, writer, overlapped, undropped>>

CacheNext ==
  \/ \E w \in Writers : Drop(w) \/ \E d \in Data : Commit(w, d)
  \/ \E d \in Data : CommitSilently(d)
  \/ \E q \in Readers :
       \/ \E d \in Simple : Miss(q, d)
       \/ ReadTable(q) \/ InsertEntry(q)
       \/ GetRegistry(q) \/ Recheck(q) \/ ListAgents(q)
       \/ LookupBundle(q) \/ ListByBundle(q) \/ SetBundle(q) \/ StoreRegistry(q) \/ LoadFails(q)
  \/ TickCaches

CacheSpec == CacheInit /\ [][CacheNext]_cacheVars

-----------------------------------------------------------------------------
(* Properties                                                              *)

Dropped(d) == \A w \in Writers : writer[w] # d

\* Once a change of the agents is committed and the registry dropped, no request sees
\* the agents of before, although a load may have read them: it keeps Manager.mu, and
\* InvalidateTenant waits for it.  Only a writer that never drops leaves them stale.
AgentsFresh ==
  Dropped("agents") /\ cached["agents"] # 0 /\ "agents" \notin undropped
    => cached["agents"] = table["agents"]

\* Another entry is outdated only where the drop fell between the read of a miss and its
\* insert, where a writer never dropped it, or where the read failed (BYOK); a model's
\* then stays so, and there is no other way.
StaleOnlyByOverlap ==
  \A d \in Data \ (overlapped \cup undropped) :
    Dropped(d) /\ cached[d] # 0 => cached[d] = table[d]

\* Disabling BYOK is a kill switch: however drops and loads overlap, and even if nobody
\* drops the entry, settings of before a change are not served later than CacheTTL and
\* the time of one load ("an entry that survived a missed invalidation must still
\* expire").  The configured ones are, after every read that fails.
ByokExpires ==
  Fresh /\ cached["byok"] \notin {table["byok"], Configured} => changeAge < CacheTTL + LoadTicks

\* A cache is stale only where an invalidation met a load or was never sent, the agents
\* only in the second case, and the settings of BYOK no longer than they may be
\* (agentregistry, kgtools, llm/model_cache.go, app/byok_resolver.go).
CachesFollow == AgentsFresh /\ StaleOnlyByOverlap /\ ByokExpires
=============================================================================
