---------------------------- MODULE ConfigProofs ----------------------------
(***************************************************************************)
(* For any readers, writers, changes and ages: a cached table is outdated  *)
(* only where an invalidation met a load or was never sent.  For any       *)
(* configurations and files: what exports and imports leave of the tables. *)
(*                                                                         *)
(* The agents have a lock that a load keeps while it reads and stores, so  *)
(* the invariant says of each load that holds it: what it has read is the  *)
(* table's, or the writer that changed the table still waits to drop it,   *)
(* or never will.                                                          *)
(* For the settings of BYOK it follows the age of the last change from the *)
(* read of the table to the entry.                                         *)
(***************************************************************************)
EXTENDS ConfigCaches, ConfigTransfer, FiniteSetTheorems, TLAPS

Loading == {"agents", "bundle", "readBundle", "setBundle", "tools"}

\* Only a miss of a model or of BYOK settings reads a table of its own choice, and only
\* that of the settings ends with those of the configuration.
WellRead(call) ==
  /\ call.pc \in {"read", "insert"} => call.datum \in Simple
  /\ call.pc = "insert" /\ call.datum # "byok" => call.read \in Change
  /\ call.pc = "setBundle" => call.read \in Change
DatumKnown == \A q \in Readers : WellRead(reader[q])

\* A load of the agents holds Manager.mu until it has stored them.
LoaderLocks == \A q \in Readers : reader[q].pc \in Loading => registryMu = q

\* Agents that a load has read are those of the table, or their writer waits for the lock
\* or never asks for it.
Awaited(agents) ==
  agents # table["agents"] => ~Dropped("agents") \/ "agents" \in undropped
LoadersAwaited ==
  \A q \in Readers : reader[q].pc \in Loading \ {"agents"} => Awaited(reader[q].agents)

\* The settings on the way to the cache, and those in it, were the table's shortly before.
JustRead ==
  \A q \in Readers :
    reader[q].pc = "insert" /\ reader[q].datum = "byok"
    /\ reader[q].read \notin {table["byok"], Configured}
      => changeAge <= reader[q].age
JustInserted ==
  cached["byok"] \notin {0, table["byok"], Configured} => changeAge <= entryAge + LoadTicks

CacheInv ==
  /\ CacheTypeOK /\ DatumKnown /\ LoaderLocks /\ LoadersAwaited
  /\ JustRead /\ JustInserted /\ AgentsFresh /\ StaleOnlyByOverlap

LEMMA CacheInitInv == CacheInit => CacheInv
<1>1. CacheInit => CacheTypeOK
  BY CacheAssumption
  DEF CacheInit, CacheTypeOK, IdleReader, Change, Entry, Configured, Data, Simple
<1>2. QED
  BY <1>1
  DEF CacheInit, CacheInv, DatumKnown, WellRead, LoaderLocks, LoadersAwaited, JustRead, JustInserted,
      AgentsFresh, StaleOnlyByOverlap, IdleReader, Loading, Data

\* A change ages the settings anew, and only the agents may now be behind.
LEMMA ChangeKeeps ==
  ASSUME CacheInv, NEW d \in Data, ChangeTable(d), undropped \subseteq undropped',
         undropped' \subseteq Data, writer' \in [Writers -> Data \cup {"idle"}],
         \A e \in Data : Dropped(e)' => Dropped(e),
         ~Dropped(d)' \/ d \in undropped'
  PROVE  CacheInv'
<1> USE CacheAssumption DEF CacheInv
<1>1. CacheTypeOK'
  BY DEF CacheTypeOK, ChangeTable, Change, Entry, Configured
<1>2. \A e \in Data : e # d => table'[e] = table[e]
  BY DEF ChangeTable, CacheTypeOK
<1>3. \A q \in Readers : reader[q].age >= 0
  BY DEF CacheTypeOK
<1>4. UNCHANGED <<cached, tools, entryAge, registryMu, reader, overlapped>>
  BY DEF ChangeTable
<1>5. DatumKnown' /\ LoaderLocks'
  BY <1>4 DEF DatumKnown, LoaderLocks
<1>6. LoadersAwaited'
  BY <1>2, <1>4 DEF LoadersAwaited, Awaited, Data
<1>7. JustRead'
  <2>1. CASE d = "byok"
    BY <2>1, <1>3 DEF JustRead, ChangeTable
  <2>2. CASE d # "byok"
    BY <2>2, <1>2 DEF JustRead, ChangeTable, Data
  <2>3. QED
    BY <2>1, <2>2
<1>8. JustInserted'
  <2>1. CASE d = "byok"
    BY <2>1 DEF JustInserted, ChangeTable, CacheTypeOK
  <2>2. CASE d # "byok"
    BY <2>2, <1>2 DEF JustInserted, ChangeTable, Data
  <2>3. QED
    BY <2>1, <2>2
<1>9. AgentsFresh' /\ StaleOnlyByOverlap'
  BY <1>2, <1>4 DEF AgentsFresh, StaleOnlyByOverlap, Data
<1>10. QED
  BY <1>1, <1>5, <1>6, <1>7, <1>8, <1>9

LEMMA CommitInv ==
  ASSUME CacheInv, NEW w \in Writers, NEW d \in Data, Commit(w, d)
  PROVE  CacheInv'
<1>1. writer' = [writer EXCEPT ![w] = d] /\ writer \in [Writers -> Data \cup {"idle"}]
      /\ writer[w] = "idle" /\ undropped' = undropped /\ undropped \subseteq Data
  BY DEF CacheInv, CacheTypeOK, Commit
<1>2. \A e \in Data : Dropped(e)' => Dropped(e) /\ e # d
  BY <1>1 DEF Dropped, Data
<1>3. ChangeTable(d) /\ writer' \in [Writers -> Data \cup {"idle"}]
  BY <1>1 DEF Commit
<1>4. QED
  BY <1>1, <1>2, <1>3, ChangeKeeps

LEMMA CommitSilentlyInv ==
  ASSUME CacheInv, NEW d \in Data, CommitSilently(d)
  PROVE  CacheInv'
<1>1. UNCHANGED writer /\ undropped' = undropped \cup {d} /\ ChangeTable(d)
  BY DEF CommitSilently
<1>2. writer' \in [Writers -> Data \cup {"idle"}] /\ undropped' \subseteq Data
  BY <1>1 DEF CacheInv, CacheTypeOK
<1>3. \A e \in Data : Dropped(e)' => Dropped(e)
  BY <1>1 DEF Dropped
<1>4. QED
  BY <1>1, <1>2, <1>3, ChangeKeeps

LEMMA DropInv ==
  ASSUME CacheInv, NEW w \in Writers, Drop(w)
  PROVE  CacheInv'
<1> USE CacheAssumption DEF CacheInv
<1>1. PICK d \in Data : d = writer[w]
  BY DEF CacheTypeOK, Drop
<1>2. CacheTypeOK'
  BY <1>1 DEF CacheTypeOK, Drop, Change, Entry, Configured
<1>3. \A e \in Data : e # d /\ Dropped(e)' => Dropped(e)
  BY <1>1 DEF Dropped, Drop, CacheTypeOK, Data
<1>4. cached'[d] = 0 /\ \A e \in Data : e # d => cached'[e] = cached[e]
  BY <1>1 DEF Drop, CacheTypeOK
<1>5. UNCHANGED <<table, tools, entryAge, changeAge, registryMu, reader>>
  BY DEF Drop
<1>6. DatumKnown' /\ LoaderLocks' /\ JustRead'
  BY <1>5 DEF DatumKnown, LoaderLocks, JustRead
<1>7. LoadersAwaited'
  <2>1. CASE d = "agents"
    BY <2>1, <1>1, <1>5 DEF Drop, LoadersAwaited, LoaderLocks, Loading
  <2>2. CASE d # "agents"
    BY <2>2, <1>1, <1>3, <1>5 DEF LoadersAwaited, Awaited, Drop, Data
  <2>3. QED
    BY <2>1, <2>2
<1>8. JustInserted'
  BY <1>4, <1>5 DEF JustInserted, Data
<1>9. AgentsFresh'
  BY <1>1, <1>3, <1>4, <1>5 DEF AgentsFresh, Drop, Data
<1>10. StaleOnlyByOverlap'
  BY <1>1, <1>3, <1>4, <1>5 DEF StaleOnlyByOverlap, Drop
<1>11. QED
  BY <1>2, <1>6, <1>7, <1>8, <1>9, <1>10

ReaderCalls ==
  [pc : {"idle", "read", "insert", "recheck", "agents", "bundle", "readBundle", "setBundle", "tools"},
   datum : Simple \cup {"agents", "none"},
   agents : Change, read : Entry, age : 0..LoadTicks]

LEMMA ReaderTypes ==
  ASSUME CacheTypeOK
  PROVE  reader \in [Readers -> ReaderCalls]
BY DEF CacheTypeOK, ReaderCalls

\* What the invariant asks of a reader that goes on while the tables and entries stay.
Fitting(q, call) ==
  /\ call \in ReaderCalls
  /\ WellRead(call)
  /\ call.pc \in Loading => registryMu' = q
  /\ call.pc \in Loading \ {"agents"} => Awaited(call.agents)
  /\ call.pc = "insert" /\ call.datum = "byok" /\ call.read \notin {table["byok"], Configured}
       => changeAge <= call.age

\* A reader goes on, no other one under the lock if that changes hands.
LEMMA ReaderGoesOn ==
  ASSUME CacheInv, NEW q \in Readers, NEW call, Fitting(q, call),
         reader' = [reader EXCEPT ![q] = call],
         UNCHANGED <<table, cached, tools, entryAge, changeAge, writer, overlapped, undropped>>,
         registryMu' \in Readers \cup {None},
         registryMu' = registryMu \/ registryMu \in {q, None}
  PROVE  CacheInv'
<1> USE CacheAssumption DEF CacheInv
<1>1. reader \in [Readers -> ReaderCalls]
  BY ReaderTypes
<1>2. \A p \in Readers : reader'[p] = IF p = q THEN call ELSE reader[p]
  BY <1>1
<1>3. reader' \in [Readers -> ReaderCalls]
  BY <1>1 DEF Fitting
<1>4. CacheTypeOK'
  BY <1>3 DEF CacheTypeOK, ReaderCalls
<1>5. DatumKnown'
  BY <1>2 DEF Fitting, DatumKnown
<1>6. LoaderLocks'
  BY <1>2 DEF Fitting, LoaderLocks, Loading
<1>7. LoadersAwaited'
  BY <1>2 DEF Fitting, LoadersAwaited, Awaited, Dropped
<1>8. JustRead'
  BY <1>2 DEF Fitting, JustRead
<1>9. JustInserted' /\ AgentsFresh' /\ StaleOnlyByOverlap'
  BY DEF JustInserted, AgentsFresh, StaleOnlyByOverlap, Dropped
<1>10. QED
  BY <1>4, <1>5, <1>6, <1>7, <1>8, <1>9

LEMMA IdleFits ==
  ASSUME CacheInv, NEW q \in Readers
  PROVE  Fitting(q, IdleReader)
BY CacheAssumption DEF Fitting, WellRead, IdleReader, ReaderCalls, Loading, Change, Entry, Configured

LEMMA MissInv ==
  ASSUME CacheInv, NEW q \in Readers, NEW d \in Simple, Miss(q, d)
  PROVE  CacheInv'
<1>1. PICK call : call = [IdleReader EXCEPT !.pc = "read", !.datum = d]
  OBVIOUS
<1>2. IdleReader \in ReaderCalls
  BY CacheAssumption DEF IdleReader, ReaderCalls, Change, Entry, Configured
<1>3. call \in ReaderCalls /\ call.pc = "read" /\ call.datum = d
  BY <1>1, <1>2 DEF ReaderCalls
<1>4. Fitting(q, call)
  BY <1>3 DEF Fitting, WellRead, Loading
<1>5. QED
  BY <1>1, <1>4, ReaderGoesOn DEF Miss, CacheInv, CacheTypeOK

LEMMA ReadTableInv ==
  ASSUME CacheInv, NEW q \in Readers, ReadTable(q)
  PROVE  CacheInv'
<1>1. reader \in [Readers -> ReaderCalls]
  BY ReaderTypes DEF CacheInv
<1>2. registryMu' \in Readers \cup {None} /\ registryMu' = registryMu
  BY DEF ReadTable, CacheInv, CacheTypeOK
<1>3. reader[q].datum \in Simple
  BY DEF CacheInv, DatumKnown, WellRead, ReadTable, ReaderAt
<1>4. ASSUME NEW entry,
             \/ entry = table[reader[q].datum]
             \/ entry = Configured /\ reader[q].datum = "byok",
             reader' = [reader EXCEPT ![q].pc = "insert", ![q].read = entry]
      PROVE  CacheInv'
  <2>1. PICK call : call = [reader[q] EXCEPT !.pc = "insert", !.read = entry]
    OBVIOUS
  <2>2. reader' = [reader EXCEPT ![q] = call]
    BY <1>1, <1>4, <2>1 DEF ReaderCalls
  <2>3. entry \in Entry
    BY <1>3, <1>4, CacheAssumption DEF CacheInv, CacheTypeOK, Entry, Configured, Simple, Data
  <2>4. call \in ReaderCalls /\ call.pc = "insert" /\ call.datum = reader[q].datum
        /\ call.read = entry
    BY <1>1, <2>1, <2>3 DEF ReaderCalls
  <2>5. call.datum # "byok" => call.read \in Change
    BY <1>3, <1>4, <2>4, CacheAssumption
    DEF CacheInv, CacheTypeOK, Change, Simple, Data
  <2>6. Fitting(q, call)
    BY <1>3, <1>4, <2>4, <2>5 DEF Fitting, WellRead, Loading
  <2>7. QED
    BY <1>2, <2>2, <2>6, ReaderGoesOn DEF ReadTable
<1>5. CASE ReaderDone(q)
  BY <1>2, <1>5, IdleFits, ReaderGoesOn DEF ReadTable, ReaderDone
<1>6. QED
  BY <1>4, <1>5 DEF ReadTable

LEMMA GetRegistryInv ==
  ASSUME CacheInv, NEW q \in Readers, GetRegistry(q)
  PROVE  CacheInv'
<1>1. reader \in [Readers -> ReaderCalls]
  BY ReaderTypes DEF CacheInv
<1>2. PICK call : call = [reader[q] EXCEPT !.pc = "recheck", !.datum = "agents"]
  OBVIOUS
<1>3. reader' = [reader EXCEPT ![q] = call]
  BY <1>1, <1>2 DEF ReaderCalls, GetRegistry
<1>4. Fitting(q, call)
  BY <1>1, <1>2 DEF ReaderCalls, Fitting, WellRead, Loading
<1>5. QED
  BY <1>3, <1>4, ReaderGoesOn DEF GetRegistry, CacheInv, CacheTypeOK

LEMMA RecheckInv ==
  ASSUME CacheInv, NEW q \in Readers, Recheck(q)
  PROVE  CacheInv'
<1>1. reader \in [Readers -> ReaderCalls]
  BY ReaderTypes DEF CacheInv
<1>2. CASE cached["agents"] # 0
  BY <1>2, IdleFits, ReaderGoesOn DEF Recheck, ReaderDone, CacheInv, CacheTypeOK
<1>3. CASE cached["agents"] = 0
  <2>1. PICK call : call = [reader[q] EXCEPT !.pc = "agents"]
    OBVIOUS
  <2>2. reader' = [reader EXCEPT ![q] = call] /\ registryMu' = q /\ registryMu = None
    BY <1>1, <1>3, <2>1 DEF ReaderCalls, Recheck, ReaderGoto
  <2>3. Fitting(q, call)
    BY <1>1, <2>1, <2>2 DEF ReaderCalls, Fitting, WellRead, Loading
  <2>4. QED
    BY <2>2, <2>3, ReaderGoesOn DEF Recheck
<1>4. QED
  BY <1>2, <1>3

LEMMA ListAgentsInv ==
  ASSUME CacheInv, NEW q \in Readers, ListAgents(q)
  PROVE  CacheInv'
<1>1. reader \in [Readers -> ReaderCalls]
  BY ReaderTypes DEF CacheInv
<1>2. PICK call : call = [reader[q] EXCEPT !.pc = "bundle", !.agents = table["agents"]]
  OBVIOUS
<1>3. reader' = [reader EXCEPT ![q] = call]
  BY <1>1, <1>2 DEF ReaderCalls, ListAgents
<1>4. registryMu = q /\ registryMu' = q
  BY DEF ListAgents, CacheInv, LoaderLocks, Loading, ReaderAt
<1>5. table["agents"] \in Change
  BY CacheAssumption DEF CacheInv, CacheTypeOK, Change, Data
<1>6. Fitting(q, call)
  BY <1>1, <1>2, <1>4, <1>5 DEF ReaderCalls, Fitting, WellRead, Loading, Awaited
<1>7. QED
  BY <1>3, <1>4, <1>6, ReaderGoesOn DEF ListAgents

LEMMA LookupBundleInv ==
  ASSUME CacheInv, NEW q \in Readers, LookupBundle(q)
  PROVE  CacheInv'
<1>1. reader \in [Readers -> ReaderCalls]
  BY ReaderTypes DEF CacheInv
<1>2. PICK pc \in {"tools", "readBundle"} : pc = IF cached["bundle"] # 0 THEN "tools" ELSE "readBundle"
  OBVIOUS
<1>3. PICK call : call = [reader[q] EXCEPT !.pc = pc]
  OBVIOUS
<1>4. reader' = [reader EXCEPT ![q] = call]
  BY <1>1, <1>2, <1>3 DEF ReaderCalls, LookupBundle, ReaderGoto
<1>5. registryMu = q /\ registryMu' = q
  BY DEF LookupBundle, CacheInv, LoaderLocks, Loading, ReaderAt
<1>6. Awaited(reader[q].agents)
  BY DEF LookupBundle, CacheInv, LoadersAwaited, Loading, ReaderAt
<1>7. Fitting(q, call)
  BY <1>1, <1>2, <1>3, <1>5, <1>6 DEF ReaderCalls, Fitting, WellRead, Loading
<1>8. QED
  BY <1>4, <1>5, <1>7, ReaderGoesOn DEF LookupBundle

LEMMA ListByBundleInv ==
  ASSUME CacheInv, NEW q \in Readers, ListByBundle(q)
  PROVE  CacheInv'
<1>1. reader \in [Readers -> ReaderCalls]
  BY ReaderTypes DEF CacheInv
<1>2. PICK call : call = [reader[q] EXCEPT !.pc = "setBundle", !.read = table["bundle"]]
  OBVIOUS
<1>3. reader' = [reader EXCEPT ![q] = call]
  BY <1>1, <1>2 DEF ReaderCalls, ListByBundle
<1>4. registryMu = q /\ registryMu' = q
  BY DEF ListByBundle, CacheInv, LoaderLocks, Loading, ReaderAt
<1>5. table["bundle"] \in Change /\ table["bundle"] \in Entry
  BY CacheAssumption DEF CacheInv, CacheTypeOK, Change, Entry, Configured, Data
<1>6. Awaited(reader[q].agents)
  BY DEF ListByBundle, CacheInv, LoadersAwaited, Loading, ReaderAt
<1>7. Fitting(q, call)
  BY <1>1, <1>2, <1>4, <1>5, <1>6 DEF ReaderCalls, Fitting, WellRead, Loading
<1>8. QED
  BY <1>3, <1>4, <1>7, ReaderGoesOn DEF ListByBundle

LEMMA LoadFailsInv ==
  ASSUME CacheInv, NEW q \in Readers, LoadFails(q)
  PROVE  CacheInv'
<1>1. registryMu = q
  BY DEF LoadFails, CacheInv, LoaderLocks, Loading
<1>2. QED
  BY <1>1, IdleFits, ReaderGoesOn DEF LoadFails, ReaderDone

-----------------------------------------------------------------------------
\* An entry is put, and the reader goes on or ends.
LEMMA PutInv ==
  ASSUME CacheInv, NEW q \in Readers, NEW d \in Data, NEW change \in Entry,
         Put(d, change), change = Configured => d = "byok", NEW call, Fitting(q, call),
         reader' = [reader EXCEPT ![q] = call],
         UNCHANGED <<table, changeAge, writer>>,
         registryMu' \in Readers \cup {None}, registryMu' = registryMu \/ registryMu = q,
         tools' \in Change,
         d = "agents" => registryMu = q /\ Awaited(change) /\ call.pc \notin Loading,
         entryAge' = (IF d = "byok" THEN 0 ELSE entryAge),
         d = "byok" /\ change \notin {table["byok"], Configured} => changeAge <= LoadTicks
  PROVE  CacheInv'
<1> USE CacheAssumption DEF CacheInv
<1>1. reader \in [Readers -> ReaderCalls]
  BY ReaderTypes
<1>2. \A p \in Readers : reader'[p] = IF p = q THEN call ELSE reader[p]
  BY <1>1
<1>3. reader' \in [Readers -> ReaderCalls]
  BY <1>1 DEF Fitting
<1>4. \A e \in Data : cached'[e] = IF e = d THEN change ELSE cached[e]
  BY DEF Put, CacheTypeOK
<1>5. \A e \in Data : Dropped(e)' <=> Dropped(e)
  BY DEF Dropped
<1>6. CacheTypeOK'
  <2>1. cached' \in [Data -> Entry] /\ \A e \in Data : cached'[e] = Configured => e = "byok"
    BY <1>4 DEF Put, CacheTypeOK
  <2>2. overlapped' \subseteq Data /\ undropped' \subseteq Data
    BY DEF Put, CacheTypeOK
  <2>3. entryAge' \in 0..CacheTTL
    BY DEF CacheTypeOK
  <2>4. QED
    BY <1>3, <2>1, <2>2, <2>3 DEF CacheTypeOK, ReaderCalls
<1>7. DatumKnown'
  BY <1>2 DEF Fitting, DatumKnown
<1>8. LoaderLocks'
  BY <1>2 DEF Fitting, LoaderLocks
<1>9. LoadersAwaited'
  <2>1. CASE d = "agents"
    BY <2>1, <1>2 DEF Fitting, LoadersAwaited, LoaderLocks, Awaited, Dropped
  <2>2. CASE d # "agents"
    <3>1. "agents" \in undropped <=> "agents" \in undropped'
      BY <2>2 DEF Put
    <3>2. QED
      BY <3>1, <1>2, <1>5 DEF Fitting, LoadersAwaited, Awaited, Data
  <2>3. QED
    BY <2>1, <2>2
<1>10. JustRead'
  BY <1>2 DEF Fitting, JustRead
<1>11. JustInserted'
  BY <1>4 DEF JustInserted, Data, CacheTypeOK
<1>12. AgentsFresh'
  BY <1>4, <1>5 DEF AgentsFresh, Awaited, Put, Data
<1>13. StaleOnlyByOverlap'
  BY <1>4, <1>5 DEF StaleOnlyByOverlap, Put
<1>14. QED
  BY <1>6, <1>7, <1>8, <1>9, <1>10, <1>11, <1>12, <1>13

LEMMA InsertEntryInv ==
  ASSUME CacheInv, NEW q \in Readers, InsertEntry(q)
  PROVE  CacheInv'
<1>1. reader[q] \in ReaderCalls /\ reader[q].pc = "insert" /\ reader[q].datum \in Simple
  BY ReaderTypes DEF CacheInv, DatumKnown, WellRead, InsertEntry, ReaderAt
<1>2. PICK d \in Simple : d = reader[q].datum
  BY <1>1
<1>3. PICK change \in Entry : change = reader[q].read
  BY <1>1 DEF ReaderCalls
<1>4. d = "byok" /\ change \notin {table["byok"], Configured} => changeAge <= LoadTicks
  <2>1. d = "byok" /\ change \notin {table["byok"], Configured} => changeAge <= reader[q].age
    BY <1>1, <1>2, <1>3 DEF CacheInv, JustRead
  <2>2. reader[q].age \in 0..LoadTicks /\ changeAge \in Nat
    BY <1>1, CacheAssumption DEF ReaderCalls, CacheInv, CacheTypeOK
  <2>3. QED
    BY <2>1, <2>2, CacheAssumption
<1>5. d \in Data /\ d # "agents" /\ (change = Configured => d = "byok")
  BY <1>1, <1>2, <1>3, CacheAssumption
  DEF CacheInv, DatumKnown, WellRead, Simple, Data, Change, Configured
<1>6. Put(d, change) /\ entryAge' = (IF d = "byok" THEN 0 ELSE entryAge)
  BY <1>2, <1>3 DEF InsertEntry
<1>7. UNCHANGED <<table, changeAge, writer, registryMu, tools>>
      /\ reader' = [reader EXCEPT ![q] = IdleReader]
  BY DEF InsertEntry, ReaderDone
<1>8. registryMu \in Readers \cup {None} /\ tools \in Change
  BY DEF CacheInv, CacheTypeOK
<1>9. QED
  BY <1>4, <1>5, <1>6, <1>7, <1>8, IdleFits, PutInv

LEMMA SetBundleInv ==
  ASSUME CacheInv, NEW q \in Readers, SetBundle(q)
  PROVE  CacheInv'
<1>1. reader \in [Readers -> ReaderCalls] /\ reader[q].pc = "setBundle"
  BY ReaderTypes DEF CacheInv, SetBundle, ReaderAt
<1>2. PICK call : call = [reader[q] EXCEPT !.pc = "tools"]
  OBVIOUS
<1>3. reader' = [reader EXCEPT ![q] = call]
  BY <1>1, <1>2 DEF ReaderCalls, SetBundle, ReaderGoto
<1>4. registryMu = q /\ registryMu' = q
  BY <1>1 DEF SetBundle, CacheInv, LoaderLocks, Loading
<1>5. Awaited(reader[q].agents)
  BY <1>1 DEF CacheInv, LoadersAwaited, Loading
<1>6. Fitting(q, call)
  BY <1>1, <1>2, <1>4, <1>5 DEF ReaderCalls, Fitting, WellRead, Loading
<1>7. PICK change \in Entry : change = reader[q].read /\ change # Configured
  BY <1>1, CacheAssumption DEF CacheInv, DatumKnown, WellRead, Change, Entry, Configured
<1>8. Put("bundle", change) /\ UNCHANGED <<table, tools, entryAge, changeAge, writer>>
  BY <1>7 DEF SetBundle
<1>9. tools' \in Change
  BY <1>8 DEF CacheInv, CacheTypeOK
<1>10. "bundle" \in Data
  BY DEF Data
<1>11. QED
  BY <1>3, <1>4, <1>6, <1>7, <1>8, <1>9, <1>10, PutInv

LEMMA StoreRegistryInv ==
  ASSUME CacheInv, NEW q \in Readers, StoreRegistry(q)
  PROVE  CacheInv'
<1>1. reader[q] \in ReaderCalls /\ reader[q].pc = "tools"
  BY ReaderTypes DEF CacheInv, StoreRegistry, ReaderAt
<1>2. registryMu = q
  BY <1>1 DEF CacheInv, LoaderLocks, Loading
<1>3. Awaited(reader[q].agents)
  BY <1>1 DEF CacheInv, LoadersAwaited, Loading
<1>4. PICK change \in Entry : change = reader[q].agents /\ change # Configured
  BY <1>1, CacheAssumption DEF ReaderCalls, Change, Entry, Configured
<1>5. Put("agents", change) /\ registryMu' = None /\ reader' = [reader EXCEPT ![q] = IdleReader]
      /\ UNCHANGED <<table, entryAge, changeAge, writer>>
  BY <1>4 DEF StoreRegistry, ReaderDone
<1>6. tools' \in Change
  BY CacheAssumption DEF StoreRegistry, CacheInv, CacheTypeOK, Data, Change, Entry, Configured
<1>7. "agents" \in Data /\ IdleReader.pc \notin Loading
  BY DEF Data, IdleReader, Loading
<1>8. QED
  BY <1>2, <1>3, <1>4, <1>5, <1>6, <1>7, IdleFits, PutInv

-----------------------------------------------------------------------------
\* Time passes: an entry grows old with the change it may not show.
LEMMA TickInv ==
  ASSUME CacheInv, TickCaches
  PROVE  CacheInv'
<1> USE CacheAssumption DEF CacheInv
<1>1. UNCHANGED <<table, cached, tools, registryMu, writer, overlapped, undropped>>
  BY DEF TickCaches
<1>2. reader \in [Readers -> ReaderCalls]
  BY ReaderTypes
<1>3. \A q \in Readers :
        /\ reader'[q].pc = reader[q].pc /\ reader'[q].datum = reader[q].datum
        /\ reader'[q].agents = reader[q].agents /\ reader'[q].read = reader[q].read
        /\ reader[q].pc = "insert" => reader'[q].age = reader[q].age + 1
  BY <1>2 DEF TickCaches, ReaderAt, ReaderCalls
<1>4. reader' \in [Readers -> ReaderCalls]
  <2>1. ASSUME NEW q \in Readers, ReaderAt(q, "insert")
        PROVE  [reader[q] EXCEPT !.age = @ + 1] \in ReaderCalls
    <3>1. reader[q].age < LoadTicks
      BY <2>1 DEF TickCaches
    <3>2. reader[q] \in ReaderCalls
      BY <1>2
    <3>3. reader[q].age + 1 \in 0..LoadTicks
      BY <3>1, <3>2 DEF ReaderCalls
    <3>4. QED
      BY <3>2, <3>3 DEF ReaderCalls
  <2>2. QED
    BY <1>2, <2>1 DEF TickCaches
<1>5. changeAge \in Nat /\ entryAge \in Nat /\ changeAge' <= changeAge + 1
  BY DEF CacheTypeOK, TickCaches, UpTo
<1>6. CacheTypeOK'
  <2>1. entryAge' \in 0..CacheTTL /\ changeAge' \in 0..CacheTTL + LoadTicks
    BY DEF CacheTypeOK, TickCaches, UpTo
  <2>2. QED
    BY <1>1, <1>4, <2>1 DEF CacheTypeOK, ReaderCalls
<1>7. DatumKnown' /\ LoaderLocks' /\ LoadersAwaited'
  BY <1>1, <1>3 DEF DatumKnown, WellRead, LoaderLocks, LoadersAwaited, Awaited, Dropped
<1>8. JustRead'
  <2> SUFFICES ASSUME NEW q \in Readers, reader'[q].pc = "insert", reader'[q].datum = "byok",
                      reader'[q].read \notin {table'["byok"], Configured}
               PROVE  changeAge' <= reader'[q].age
    BY DEF JustRead
  <2>1. changeAge <= reader[q].age /\ reader'[q].age = reader[q].age + 1
    BY <1>1, <1>3 DEF JustRead
  <2>2. reader[q].age \in Nat /\ changeAge' \in Nat
    BY <1>2, <1>6 DEF ReaderCalls, CacheTypeOK
  <2>3. QED
    BY <1>5, <2>1, <2>2
<1>9. JustInserted'
  BY <1>1 DEF JustInserted, TickCaches, UpTo, CacheTypeOK
<1>10. AgentsFresh' /\ StaleOnlyByOverlap'
  BY <1>1 DEF AgentsFresh, StaleOnlyByOverlap, Dropped
<1>11. QED
  BY <1>6, <1>7, <1>8, <1>9, <1>10

LEMMA CacheStepInv == CacheInv /\ [CacheNext]_cacheVars => CacheInv'
<1> SUFFICES ASSUME CacheInv, [CacheNext]_cacheVars
             PROVE  CacheInv'
  OBVIOUS
<1>1. CASE UNCHANGED cacheVars
  BY <1>1
  DEF cacheVars, CacheInv, CacheTypeOK, DatumKnown, WellRead, LoaderLocks, LoadersAwaited, Awaited,
      JustRead, JustInserted, AgentsFresh, StaleOnlyByOverlap, Dropped
<1>2. CASE CacheNext
  BY <1>2, CommitInv, CommitSilentlyInv, DropInv, MissInv, ReadTableInv, InsertEntryInv, GetRegistryInv,
     RecheckInv, ListAgentsInv, LookupBundleInv, ListByBundleInv, SetBundleInv,
     StoreRegistryInv, LoadFailsInv, TickInv
  DEF CacheNext
<1>3. QED
  BY <1>1, <1>2

\* A cache is stale only where an invalidation met a load or was never sent, the agents in
\* the second case alone, and BYOK settings of before a change no longer than their entry
\* may live (agentregistry, kgtools, llm, app).
THEOREM CachesStayFresh == CacheSpec => []CachesFollow
<1>1. CacheInv => ByokExpires
  BY CacheAssumption DEF CacheInv, JustInserted, ByokExpires, Fresh, CacheTypeOK
<1>2. CacheInv => CachesFollow
  BY <1>1 DEF CacheInv, CachesFollow
<1>3. QED
  BY <1>2, CacheInitInv, CacheStepInv, PTL DEF CacheSpec

\* Tables, entries, ages, readers and writers keep their types (agentregistry, kgtools, llm).
THEOREM CachesWellFormed == CacheSpec => []CacheTypeOK
<1>1. CacheInv => CacheTypeOK
  BY DEF CacheInv
<1>2. QED
  BY <1>1, CacheInitInv, CacheStepInv, PTL DEF CacheSpec

-----------------------------------------------------------------------------
(***************************************************************************)
(* Export and import.  The sections of an undisturbed export are those of  *)
(* the tables, an import that reached the graphs has brought what its file *)
(* says of the tables, and while a file is all that anybody imported, the  *)
(* tables are near those it was exported from.                             *)
(***************************************************************************)

\* The tables hold what the file says, of the graphs those of done.
Holds(c, f, done) ==
  /\ \A section \in {"models", "servers", "agents", "schemas"} :
       DOMAIN f[section] \subseteq DOMAIN c[section]
  /\ \A m \in DOMAIN f.models : c.models[m].settings = f.models[m].settings
  /\ \A v \in DOMAIN f.servers : ServerHolds(c.servers[v], f.servers[v])
  /\ \A a \in DOMAIN f.agents : AgentHolds(c.agents[a], f.agents[a])
  /\ \A s \in DOMAIN f.schemas : SchemaHolds(c.schemas[s], f.schemas[s])
  /\ done \subseteq DOMAIN c.graphs
  /\ \A g \in done : GraphHolds(c.graphs[g], f.graphs[g])

ExportOf(f, c) == \A section \in SectionNames : f[section] = Exported(c, section)

ExporterFits ==
  /\ DOMAIN exporter = {"active", "sections", "draft", "quiet"}
  /\ exporter.sections \in 0..4 /\ FileFits(exporter.draft)
  /\ exporter.quiet =>
       \A i \in 1..exporter.sections :
         exporter.draft[Sections[i]] = Exported(config, Sections[i])

ImporterFits ==
  /\ DOMAIN importer = {"step", "file", "todo", "quiet"}
  /\ FileFits(importer.file) /\ importer.todo \subseteq DOMAIN importer.file.graphs
  /\ importer.step = "tables" => importer.todo = DOMAIN importer.file.graphs
  /\ importer.step = "graphs" /\ importer.quiet =>
       Holds(config, importer.file, (DOMAIN importer.file.graphs) \ importer.todo)

ImportedHolds ==
  imported # None =>
    /\ Holds(config, imported.file, DOMAIN imported.file.graphs)
    /\ loaded = config.agents

OriginNear ==
  origin # None => TablesFit(origin) /\ ExportOf(file, origin) /\ Near(config, origin)

TransferInv ==
  /\ TablesFit(config) /\ FileFits(file) /\ ExporterFits /\ ImporterFits
  /\ ImportedHolds /\ OriginNear

-----------------------------------------------------------------------------
(* Tables and files                                                        *)

IsRow(row, columns) == row = [x \in columns |-> row[x]]

LEMMA TableRow ==
  ASSUME NEW rows, NEW columns, IsTable(rows, columns), NEW n \in DOMAIN rows
  PROVE  IsRow(rows[n], columns)
BY DEF IsTable, IsRow

LEMMA RowsMakeTable ==
  ASSUME NEW rows, NEW columns, rows = [n \in DOMAIN rows |-> rows[n]],
         \A n \in DOMAIN rows : IsRow(rows[n], columns)
  PROVE  IsTable(rows, columns)
BY DEF IsTable, IsRow

\* Rows that are upserted make a table of a table.
LEMMA UpsertedTable ==
  ASSUME NEW rows, NEW new, NEW columns, IsTable(rows, columns),
         \A n \in DOMAIN new : IsRow(new[n], columns)
  PROVE  IsTable(Upserted(rows, new), columns)
<1>1. \A n \in DOMAIN rows : IsRow(rows[n], columns)
  BY TableRow
<1>2. PICK up : up = Upserted(rows, new)
  OBVIOUS
<1>3. /\ up = [n \in DOMAIN up |-> up[n]] /\ DOMAIN up = (DOMAIN rows) \cup (DOMAIN new)
      /\ \A n \in DOMAIN up : up[n] = IF n \in DOMAIN new THEN new[n] ELSE rows[n]
  BY <1>2 DEF Upserted
<1>4. \A n \in DOMAIN up : IsRow(up[n], columns)
  BY <1>1, <1>3
<1>5. QED
  BY <1>2, <1>3, <1>4, RowsMakeTable

\* Rows that are there already change nothing.
LEMMA UpsertedSame ==
  ASSUME NEW rows, NEW new, rows = [n \in DOMAIN rows |-> rows[n]],
         DOMAIN new \subseteq DOMAIN rows, \A n \in DOMAIN new : new[n] = rows[n]
  PROVE  Upserted(rows, new) = rows
<1>1. \A n \in DOMAIN rows : (IF n \in DOMAIN new THEN new[n] ELSE rows[n]) = rows[n]
  OBVIOUS
<1>2. (DOMAIN rows) \cup (DOMAIN new) = DOMAIN rows
  OBVIOUS
<1>3. Upserted(rows, new) = [n \in DOMAIN rows |-> rows[n]]
  BY <1>1, <1>2 DEF Upserted
<1>4. QED
  BY <1>3

LEMMA WithTablesSections ==
  ASSUME NEW c, DOMAIN c = SectionNames, NEW f
  PROVE  LET d == WithTables(c, f)
         IN  /\ DOMAIN d = SectionNames
             /\ d.models = ImportedModels(c, f) /\ d.servers = ImportedServers(c, f)
             /\ d.agents = ImportedAgents(c, f) /\ d.schemas = ImportedSchemas(c, f)
             /\ d.graphs = c.graphs
BY DEF WithTables, SectionNames

LEMMA EmptyTable == \A columns : IsTable(NoRows, columns)
BY DEF IsTable, NoRows

LEMMA NoFileFits == FileFits(NoFile)
<1>1. /\ DOMAIN NoFile = SectionNames /\ NoFile.agents = NoRows /\ NoFile.graphs = NoRows
  BY DEF NoFile, SectionNames
<1>2. DOMAIN NoRows = {}
  BY DEF NoRows
<1>3. QED
  BY <1>1, <1>2, EmptyTable DEF FileFits, GraphRows

\* The rows an import writes, and those it leaves.
ModelFrom(row, new, rows, m) ==
  /\ IsRow(row, {"settings", "key"}) /\ row.settings = new.settings
  /\ m \in DOMAIN rows => row.key = rows[m].key
SchemaFrom(row, new) ==
  /\ IsRow(row, {"system", "entry", "relations"})
  /\ row.system = FALSE /\ row.entry = new.entry /\ row.relations = Arrows(new.relations)

ImportedFrom(c, f) ==
  /\ DOMAIN ImportedModels(c, f) = (DOMAIN c.models) \cup (DOMAIN f.models)
  /\ DOMAIN ImportedServers(c, f) = (DOMAIN c.servers) \cup (DOMAIN f.servers)
  /\ DOMAIN ImportedAgents(c, f) = (DOMAIN c.agents) \cup (DOMAIN f.agents)
  /\ DOMAIN ImportedSchemas(c, f) = (DOMAIN c.schemas) \cup (DOMAIN f.schemas)
  /\ \A m \in DOMAIN f.models : ModelFrom(ImportedModels(c, f)[m], f.models[m], c.models, m)
  /\ \A a \in DOMAIN f.agents : ImportedAgents(c, f)[a] = ImportedAgent(f.agents[a])
  /\ \A s \in DOMAIN f.schemas : SchemaFrom(ImportedSchemas(c, f)[s], f.schemas[s])
  /\ \A m \in (DOMAIN c.models) \ (DOMAIN f.models) : ImportedModels(c, f)[m] = c.models[m]
  /\ \A v \in (DOMAIN c.servers) \ (DOMAIN f.servers) : ImportedServers(c, f)[v] = c.servers[v]
  /\ \A a \in (DOMAIN c.agents) \ (DOMAIN f.agents) : ImportedAgents(c, f)[a] = c.agents[a]
  /\ \A s \in (DOMAIN c.schemas) \ (DOMAIN f.schemas) : ImportedSchemas(c, f)[s] = c.schemas[s]

LEMMA ImportedRows == \A c, f : ImportedFrom(c, f)
<1>1. SUFFICES ASSUME NEW c, NEW f PROVE ImportedFrom(c, f)
  OBVIOUS
<1>2. /\ DOMAIN ImportedModels(c, f) = (DOMAIN c.models) \cup (DOMAIN f.models)
      /\ \A m \in (DOMAIN c.models) \ (DOMAIN f.models) : ImportedModels(c, f)[m] = c.models[m]
  BY DEF ImportedModels, Upserted
<1>3. /\ DOMAIN ImportedServers(c, f) = (DOMAIN c.servers) \cup (DOMAIN f.servers)
      /\ \A v \in (DOMAIN c.servers) \ (DOMAIN f.servers) :
           ImportedServers(c, f)[v] = c.servers[v]
  BY DEF ImportedServers, Upserted
<1>4. /\ DOMAIN ImportedAgents(c, f) = (DOMAIN c.agents) \cup (DOMAIN f.agents)
      /\ \A a \in DOMAIN f.agents : ImportedAgents(c, f)[a] = ImportedAgent(f.agents[a])
      /\ \A a \in (DOMAIN c.agents) \ (DOMAIN f.agents) : ImportedAgents(c, f)[a] = c.agents[a]
  BY DEF ImportedAgents, Upserted
<1>5. /\ DOMAIN ImportedSchemas(c, f) = (DOMAIN c.schemas) \cup (DOMAIN f.schemas)
      /\ \A s \in (DOMAIN c.schemas) \ (DOMAIN f.schemas) :
           ImportedSchemas(c, f)[s] = c.schemas[s]
  BY DEF ImportedSchemas, Upserted
<1>6. ASSUME NEW m \in DOMAIN f.models
      PROVE  ModelFrom(ImportedModels(c, f)[m], f.models[m], c.models, m)
  <2>1. PICK key : key = OldRow(c.models, m, [key |-> None]).key
    OBVIOUS
  <2>2. PICK row : row = [settings |-> f.models[m].settings, key |-> key]
    OBVIOUS
  <2>3. m \in DOMAIN c.models => key = c.models[m].key
    BY <2>1 DEF OldRow
  <2>4. /\ IsRow(row, {"settings", "key"}) /\ row.settings = f.models[m].settings
        /\ row.key = key
    BY <2>2 DEF IsRow
  <2>5. ImportedModels(c, f)[m] = row
    BY <2>1, <2>2 DEF ImportedModels, Upserted
  <2>6. QED
    BY <2>3, <2>4, <2>5 DEF ModelFrom
<1>7. ASSUME NEW s \in DOMAIN f.schemas
      PROVE  SchemaFrom(ImportedSchemas(c, f)[s], f.schemas[s])
  <2>1. PICK new : new = f.schemas[s]
    OBVIOUS
  <2>2. PICK row : row = [system |-> FALSE, entry |-> new.entry, relations |-> Arrows(new.relations)]
    OBVIOUS
  <2>3. SchemaFrom(row, new)
    BY <2>2 DEF SchemaFrom, IsRow
  <2>4. ImportedSchemas(c, f)[s] = row
    BY <2>1, <2>2 DEF ImportedSchemas, Upserted
  <2>5. QED
    BY <2>1, <2>3, <2>4
<1>8. QED
  BY <1>2, <1>3, <1>4, <1>5, <1>6, <1>7 DEF ImportedFrom

\* What becomes of a server.
ServerColumns == {"settings", "args", "headers", "env"}

ServerFrom(row, new, rows, v) ==
  /\ IsRow(row, ServerColumns) /\ ServerHolds(row, new)
  /\ v \in DOMAIN rows =>
       /\ \A x \in {"args", "headers"} : new[x] \in {None, rows[v][x]} => row[x] = rows[v][x]
       /\ (\A n \in DOMAIN new.env : new.env[n] = Masked) => row.env = rows[v].env

LEMMA ImportedServerRow ==
  ASSUME NEW c, NEW f, NEW v \in DOMAIN f.servers
  PROVE  ServerFrom(ImportedServers(c, f)[v], f.servers[v], c.servers, v)
<1>1. PICK new : new = f.servers[v]
  OBVIOUS
<1>2. PICK old : old = OldRow(c.servers, v, [args |-> None, headers |-> None, env |-> NoRows])
  OBVIOUS
<1>3. PICK plain : plain = {x \in DOMAIN new.env : new.env[x] # Masked}
  OBVIOUS
<1>4. PICK args : args = Given(new.args, old.args)
  OBVIOUS
<1>5. PICK headers : headers = Given(new.headers, old.headers)
  OBVIOUS
<1>6. PICK env : env = IF plain = {} THEN old.env ELSE [x \in plain |-> new.env[x]]
  OBVIOUS
<1>7. ImportedServers(c, f)[v]
        = [settings |-> new.settings, args |-> args, headers |-> headers, env |-> env]
  BY <1>1, <1>2, <1>3, <1>4, <1>5, <1>6 DEF ImportedServers, Upserted
<1>8. v \in DOMAIN c.servers => old = c.servers[v]
  BY <1>2 DEF OldRow
<1>9. \A x \in DOMAIN new.env : new.env[x] # Masked => env[x] = new.env[x]
  BY <1>3, <1>6
<1>10. (\A x \in DOMAIN new.env : new.env[x] = Masked) => env = old.env
  BY <1>3, <1>6
<1>11. PICK row : row = [settings |-> new.settings, args |-> args, headers |-> headers, env |-> env]
  OBVIOUS
<1>12. /\ IsRow(row, ServerColumns) /\ row.settings = new.settings
       /\ row.args = args /\ row.headers = headers /\ row.env = env
  BY <1>11 DEF IsRow, ServerColumns
<1>13. \A x \in {"args", "headers"} : new[x] # None => row[x] = new[x]
  BY <1>4, <1>5, <1>12 DEF Given
<1>14. \A x \in {"args", "headers"} : new[x] \in {None, old[x]} => row[x] = old[x]
  BY <1>4, <1>5, <1>12 DEF Given
<1>15. ServerHolds(row, new)
  BY <1>9, <1>12, <1>13 DEF ServerHolds
<1>16. ServerFrom(row, new, c.servers, v)
  BY <1>8, <1>10, <1>12, <1>14, <1>15 DEF ServerFrom
<1>17. QED
  BY <1>1, <1>7, <1>11, <1>16

\* An agent of a file, with the defaults of what the file leaves out.
LEMMA ImportedAgentRow ==
  ASSUME NEW new, IsRow(new, AgentColumns)
  PROVE  LET row == ImportedAgent(new)
         IN  /\ IsRow(row, AgentColumns) /\ AgentHolds(row, new)
             /\ row.tools = [t \in new.tools |-> Builtin]
<1>1. PICK options : options = [o \in DOMAIN Defaults |-> Given(new.options[o], Defaults[o])]
  OBVIOUS
<1>2. PICK kinds : kinds = [t \in new.tools |-> Builtin]
  OBVIOUS
<1>3. new = [x \in AgentColumns |-> new[x]] /\ DOMAIN new = AgentColumns
  BY DEF IsRow
<1>4. PICK row : row = [new EXCEPT !.options = options, !.tools = kinds]
  OBVIOUS
<1>5. ImportedAgent(new) = row
  BY <1>1, <1>2, <1>3, <1>4 DEF ImportedAgent, AgentColumns
<1>6. /\ row.options = options /\ row.tools = kinds
      /\ \A x \in AgentColumns \ {"options", "tools"} : row[x] = new[x]
  BY <1>3, <1>4 DEF AgentColumns
<1>7. row = [x \in AgentColumns |-> row[x]]
  BY <1>3, <1>4
<1>8. AgentHolds(row, new)
  BY <1>1, <1>2, <1>6 DEF AgentHolds
<1>9. QED
  BY <1>2, <1>5, <1>6, <1>7, <1>8 DEF IsRow

\* A graph of a file, over one that is there or over none.
LEMMA ImportedGraphRow ==
  ASSUME NEW new, NEW old,
         \A t \in DOMAIN new.items : new.items[t] \subseteq Nat /\ IsFiniteSet(new.items[t])
  PROVE  LET row == ImportedGraph(new, old)
         IN  /\ IsRow(row, {"version", "items"}) /\ GraphHolds(row, new)
             /\ DOMAIN row.items = (DOMAIN old.items) \cup (DOMAIN new.items)
             /\ row.version # None
             /\ \A t \in DOMAIN row.items : row.items[t] \subseteq Nat /\ IsFiniteSet(row.items[t])
<1>1. PICK version : version = Given(new.version, DefaultVersion)
  OBVIOUS
<1>2. PICK items : items = Upserted([t \in DOMAIN old.items |-> {}], new.items)
  OBVIOUS
<1>3. PICK row : row = [version |-> version, items |-> items]
  OBVIOUS
<1>4. ImportedGraph(new, old) = row
  BY <1>1, <1>2, <1>3 DEF ImportedGraph
<1>5. /\ DOMAIN items = (DOMAIN old.items) \cup (DOMAIN new.items)
      /\ \A t \in DOMAIN items :
           items[t] = IF t \in DOMAIN new.items THEN new.items[t] ELSE {}
  BY <1>2 DEF Upserted
<1>6. /\ IsRow(row, {"version", "items"}) /\ row.version = version /\ row.items = items
  BY <1>3 DEF IsRow
<1>7. version # None
  BY <1>1, TransferAssumption DEF Given
<1>8. \A t \in DOMAIN items : items[t] \subseteq Nat /\ IsFiniteSet(items[t])
  BY <1>5, FS_EmptySet
<1>9. GraphHolds(row, new)
  BY <1>1, <1>5, <1>6 DEF GraphHolds
<1>10. QED
  BY <1>4, <1>5, <1>6, <1>7, <1>8, <1>9

\* A graph of no more than a page loses nothing.
LEMMA WholePage ==
  ASSUME NEW entities, entities \subseteq Nat, IsFiniteSet(entities)
  PROVE  /\ FirstPage(entities) \subseteq Nat /\ IsFiniteSet(FirstPage(entities))
         /\ FirstPage(entities) # entities => Cardinality(entities) > PageSize
<1>1. FirstPage(entities) \in SUBSET entities
  BY DEF FirstPage
<1>2. FirstPage(entities) \subseteq Nat /\ IsFiniteSet(FirstPage(entities))
  BY <1>1, FS_Subset
<1>3. ASSUME NEW e \in entities, ~(Cardinality({d \in entities : d < e}) < PageSize)
      PROVE  Cardinality(entities) > PageSize
  <2>1. {d \in entities : d < e} \in SUBSET entities /\ e \notin {d \in entities : d < e}
    OBVIOUS
  <2>2. {d \in entities : d < e} # entities
    BY <2>1
  <2>3. /\ Cardinality({d \in entities : d < e}) <= Cardinality(entities)
        /\ Cardinality({d \in entities : d < e}) # Cardinality(entities)
        /\ IsFiniteSet({d \in entities : d < e})
    BY <2>1, <2>2, FS_Subset
  <2>4. /\ Cardinality({d \in entities : d < e}) \in Nat /\ Cardinality(entities) \in Nat
        /\ PageSize \in Nat
    BY <2>3, FS_CardinalityType, TransferAssumption
  <2>5. QED
    BY <1>3, <2>3, <2>4
<1>4. FirstPage(entities) # entities => Cardinality(entities) > PageSize
  BY <1>3 DEF FirstPage
<1>5. QED
  BY <1>2, <1>4

\* An import leaves tables.
LEMMA ImportedFit ==
  ASSUME NEW c, TablesFit(c), NEW f, FileFits(f)
  PROVE  TablesFit(WithTables(c, f))
<1>1. PICK d : d = WithTables(c, f)
  OBVIOUS
<1>2. /\ DOMAIN d = SectionNames
      /\ d.models = ImportedModels(c, f) /\ d.servers = ImportedServers(c, f)
      /\ d.agents = ImportedAgents(c, f) /\ d.schemas = ImportedSchemas(c, f)
      /\ d.graphs = c.graphs
  BY <1>1, WithTablesSections DEF TablesFit
<1>3. ImportedFrom(c, f)
  BY ImportedRows
<1>4. IsTable(ImportedAgents(c, f), AgentColumns)
  <2>1. \A a \in DOMAIN f.agents : IsRow(f.agents[a], AgentColumns)
    BY TableRow DEF FileFits
  <2>2. \A a \in DOMAIN f.agents : IsRow(ImportedAgents(c, f)[a], AgentColumns)
    <3>1. ASSUME NEW a \in DOMAIN f.agents
          PROVE  IsRow(ImportedAgent(f.agents[a]), AgentColumns)
      BY <2>1, ImportedAgentRow
    <3>2. QED
      BY <1>3, <3>1 DEF ImportedFrom
  <2>3. \A a \in DOMAIN c.agents : IsRow(c.agents[a], AgentColumns)
    BY TableRow DEF TablesFit
  <2>4. \A a \in DOMAIN ImportedAgents(c, f) : IsRow(ImportedAgents(c, f)[a], AgentColumns)
    BY <1>3, <2>2, <2>3 DEF ImportedFrom
  <2>5. ImportedAgents(c, f) = [a \in DOMAIN ImportedAgents(c, f) |-> ImportedAgents(c, f)[a]]
    BY DEF ImportedAgents, Upserted
  <2>6. QED
    BY <2>4, <2>5, RowsMakeTable
<1>5. IsTable(ImportedModels(c, f), {"settings", "key"})
  <2>1. \A m \in DOMAIN c.models : IsRow(c.models[m], {"settings", "key"})
    BY TableRow DEF TablesFit
  <2>2. \A m \in DOMAIN ImportedModels(c, f) :
          IsRow(ImportedModels(c, f)[m], {"settings", "key"})
    BY <1>3, <2>1 DEF ImportedFrom, ModelFrom
  <2>3. ImportedModels(c, f) = [m \in DOMAIN ImportedModels(c, f) |-> ImportedModels(c, f)[m]]
    BY DEF ImportedModels, Upserted
  <2>4. QED
    BY <2>2, <2>3, RowsMakeTable
<1>6. /\ IsTable(ImportedSchemas(c, f), {"system", "entry", "relations"})
      /\ \A s \in DOMAIN ImportedSchemas(c, f) : ImportedSchemas(c, f)[s].system \in BOOLEAN
  <2>1. \A s \in DOMAIN c.schemas : /\ IsRow(c.schemas[s], {"system", "entry", "relations"})
                                    /\ c.schemas[s].system \in BOOLEAN
    BY TableRow DEF TablesFit
  <2>2. \A s \in DOMAIN ImportedSchemas(c, f) :
          /\ IsRow(ImportedSchemas(c, f)[s], {"system", "entry", "relations"})
          /\ ImportedSchemas(c, f)[s].system \in BOOLEAN
    BY <1>3, <2>1 DEF ImportedFrom, SchemaFrom
  <2>3. ImportedSchemas(c, f)
          = [s \in DOMAIN ImportedSchemas(c, f) |-> ImportedSchemas(c, f)[s]]
    BY DEF ImportedSchemas, Upserted
  <2>4. QED
    BY <2>2, <2>3, RowsMakeTable
<1>7. IsTable(ImportedServers(c, f), ServerColumns)
  <2>1. \A v \in DOMAIN f.servers : IsRow(ImportedServers(c, f)[v], ServerColumns)
    BY ImportedServerRow DEF ServerFrom
  <2>2. \A v \in DOMAIN c.servers : IsRow(c.servers[v], ServerColumns)
    BY TableRow DEF TablesFit, ServerColumns
  <2>3. \A v \in DOMAIN ImportedServers(c, f) :
          IsRow(ImportedServers(c, f)[v], ServerColumns)
    BY <1>3, <2>1, <2>2 DEF ImportedFrom
  <2>4. ImportedServers(c, f) = [v \in DOMAIN ImportedServers(c, f) |-> ImportedServers(c, f)[v]]
    BY DEF ImportedServers, Upserted
  <2>5. QED
    BY <2>3, <2>4, RowsMakeTable
<1>8. QED
  BY <1>1, <1>2, <1>4, <1>5, <1>6, <1>7 DEF TablesFit, ServerColumns

\* After the first transaction the tables hold what the file says.
LEMMA ImportHolds ==
  ASSUME NEW c, TablesFit(c), NEW f, FileFits(f)
  PROVE  Holds(WithTables(c, f), f, {})
<1>1. PICK d : d = WithTables(c, f)
  OBVIOUS
<1>2. /\ d.models = ImportedModels(c, f) /\ d.servers = ImportedServers(c, f)
      /\ d.agents = ImportedAgents(c, f) /\ d.schemas = ImportedSchemas(c, f)
  BY <1>1, WithTablesSections DEF TablesFit
<1>3. ImportedFrom(c, f)
  BY ImportedRows
<1>4. \A section \in {"models", "servers", "agents", "schemas"} :
        DOMAIN f[section] \subseteq DOMAIN d[section]
  BY <1>2, <1>3 DEF ImportedFrom
<1>5. \A m \in DOMAIN f.models : d.models[m].settings = f.models[m].settings
  BY <1>2, <1>3 DEF ImportedFrom, ModelFrom
<1>6. \A s \in DOMAIN f.schemas : SchemaHolds(d.schemas[s], f.schemas[s])
  <2>1. ASSUME NEW row, NEW new, SchemaFrom(row, new) PROVE SchemaHolds(row, new)
    BY <2>1 DEF SchemaFrom, SchemaHolds, Arrows
  <2>2. QED
    BY <1>2, <1>3, <2>1 DEF ImportedFrom
<1>7. \A v \in DOMAIN f.servers : ServerHolds(d.servers[v], f.servers[v])
  BY <1>2, ImportedServerRow DEF ServerFrom
<1>8. ASSUME NEW a \in DOMAIN f.agents PROVE AgentHolds(d.agents[a], f.agents[a])
  <2>1. IsRow(f.agents[a], AgentColumns)
    BY TableRow DEF FileFits
  <2>2. d.agents[a] = ImportedAgent(f.agents[a])
    BY <1>2, <1>3 DEF ImportedFrom
  <2>3. QED
    BY <2>1, <2>2, ImportedAgentRow
<1>9. QED
  BY <1>1, <1>4, <1>5, <1>6, <1>7, <1>8 DEF Holds

\* The next graph does not touch the tables.
GraphOnly(c, f, g, d) ==
  /\ DOMAIN d = SectionNames /\ d.agents = c.agents /\ d.models = c.models
  /\ d.servers = c.servers /\ d.schemas = c.schemas
  /\ DOMAIN d.graphs = (DOMAIN c.graphs) \cup {g}
  /\ d.graphs = [h \in DOMAIN d.graphs |-> d.graphs[h]]
  /\ d.graphs[g] = ImportedGraph(f.graphs[g], OldRow(c.graphs, g, [items |-> NoRows]))
  /\ \A h \in (DOMAIN c.graphs) \ {g} : d.graphs[h] = c.graphs[h]

LEMMA GraphAlone ==
  ASSUME NEW c, TablesFit(c), NEW f, NEW g
  PROVE  GraphOnly(c, f, g, WithGraph(c, f, g))
<1>1. DOMAIN c = SectionNames
  BY DEF TablesFit
<1>2. PICK d : d = WithGraph(c, f, g)
  OBVIOUS
<1>3. PICK row : row = ImportedGraph(f.graphs[g], OldRow(c.graphs, g, [items |-> NoRows]))
  OBVIOUS
<1>4. PICK new : new = [h \in {g} |->
                          ImportedGraph(f.graphs[h], OldRow(c.graphs, g, [items |-> NoRows]))]
  OBVIOUS
<1>5. DOMAIN new = {g} /\ new[g] = row
  BY <1>3, <1>4
<1>6. d = [c EXCEPT !.graphs = Upserted(@, new)]
  BY <1>2, <1>4 DEF WithGraph
<1>7. /\ DOMAIN d = SectionNames /\ d.agents = c.agents /\ d.models = c.models
      /\ d.servers = c.servers /\ d.schemas = c.schemas
      /\ d.graphs = Upserted(c.graphs, new)
  BY <1>1, <1>6 DEF SectionNames
<1>8. /\ DOMAIN d.graphs = (DOMAIN c.graphs) \cup {g} /\ d.graphs[g] = row
      /\ d.graphs = [h \in DOMAIN d.graphs |-> d.graphs[h]]
      /\ \A h \in (DOMAIN c.graphs) \ {g} : d.graphs[h] = c.graphs[h]
  BY <1>5, <1>7 DEF Upserted
<1>9. QED
  BY <1>2, <1>3, <1>7, <1>8 DEF GraphOnly

\* The graph a file brings.
LEMMA GraphBrought ==
  ASSUME NEW c, TablesFit(c), NEW f, FileFits(f), NEW g \in DOMAIN f.graphs, NEW d,
         d = WithGraph(c, f, g)
  PROVE  /\ IsRow(d.graphs[g], {"version", "items"}) /\ d.graphs[g].version # None
         /\ \A t \in DOMAIN d.graphs[g].items :
              d.graphs[g].items[t] \subseteq Nat /\ IsFiniteSet(d.graphs[g].items[t])
         /\ GraphHolds(d.graphs[g], f.graphs[g])
<1>1. GraphOnly(c, f, g, d)
  BY GraphAlone
<1>2. PICK new : new = f.graphs[g]
  OBVIOUS
<1>3. PICK old : old = OldRow(c.graphs, g, [items |-> NoRows])
  OBVIOUS
<1>4. d.graphs[g] = ImportedGraph(new, old)
  BY <1>1, <1>2, <1>3 DEF GraphOnly
<1>5. \A t \in DOMAIN new.items : new.items[t] \subseteq Nat /\ IsFiniteSet(new.items[t])
  BY <1>2 DEF FileFits, GraphRows
<1>6. QED
  BY <1>2, <1>4, <1>5, ImportedGraphRow

LEMMA GraphFits ==
  ASSUME NEW c, TablesFit(c), NEW f, FileFits(f), NEW g \in DOMAIN f.graphs, NEW d,
         d = WithGraph(c, f, g)
  PROVE  TablesFit(d)
<1>1. GraphOnly(c, f, g, d)
  BY GraphAlone
<1>2. ASSUME NEW h \in DOMAIN d.graphs
      PROVE  /\ IsRow(d.graphs[h], {"version", "items"}) /\ d.graphs[h].version # None
             /\ \A t \in DOMAIN d.graphs[h].items :
                  d.graphs[h].items[t] \subseteq Nat /\ IsFiniteSet(d.graphs[h].items[t])
  <2>1. CASE h = g
    BY <2>1, GraphBrought
  <2>2. CASE h # g
    <3>1. h \in DOMAIN c.graphs /\ d.graphs[h] = c.graphs[h]
      BY <1>1, <2>2 DEF GraphOnly
    <3>2. QED
      BY <3>1, TableRow DEF TablesFit, GraphRows
  <2>3. QED
    BY <2>1, <2>2
<1>3. IsTable(d.graphs, {"version", "items"})
  BY <1>1, <1>2, RowsMakeTable DEF GraphOnly
<1>4. GraphRows(d.graphs)
  BY <1>2, <1>3 DEF GraphRows
<1>5. QED
  BY <1>1, <1>2, <1>4 DEF GraphOnly, TablesFit

LEMMA NextGraphHolds ==
  ASSUME NEW c, TablesFit(c), NEW f, FileFits(f), NEW done, Holds(c, f, done),
         NEW g \in DOMAIN f.graphs, NEW d, d = WithGraph(c, f, g)
  PROVE  Holds(d, f, done \cup {g})
<1>1. GraphOnly(c, f, g, d)
  BY GraphAlone
<1>2. GraphHolds(d.graphs[g], f.graphs[g])
  BY GraphBrought
<1>3. /\ done \cup {g} \subseteq DOMAIN d.graphs
      /\ \A h \in done \cup {g} : GraphHolds(d.graphs[h], f.graphs[h])
  BY <1>1, <1>2 DEF Holds, GraphOnly
<1>4. \A section \in {"models", "servers", "agents", "schemas"} :
        DOMAIN f[section] \subseteq DOMAIN d[section]
  BY <1>1 DEF Holds, GraphOnly
<1>5. /\ \A m \in DOMAIN f.models : d.models[m].settings = f.models[m].settings
      /\ \A v \in DOMAIN f.servers : ServerHolds(d.servers[v], f.servers[v])
      /\ \A a \in DOMAIN f.agents : AgentHolds(d.agents[a], f.agents[a])
      /\ \A s \in DOMAIN f.schemas : SchemaHolds(d.schemas[s], f.schemas[s])
  BY <1>1 DEF Holds, GraphOnly
<1>6. QED
  BY <1>3, <1>4, <1>5 DEF Holds

\* Rows with the same columns and the same in each are the same.
LEMMA SameRow ==
  ASSUME NEW columns, NEW r, NEW s, IsRow(r, columns), IsRow(s, columns),
         \A x \in columns : r[x] = s[x]
  PROVE  r = s
BY DEF IsRow

\* What an import of f leaves of the tables c.
Kept(c, d, f) ==
  /\ \A section \in SectionNames : DOMAIN c[section] \subseteq DOMAIN d[section]
  /\ \A m \in DOMAIN c.models : d.models[m].key = c.models[m].key
  /\ \A s \in DOMAIN c.schemas : c.schemas[s].system => d.schemas[s] = c.schemas[s]
  /\ \A v \in DOMAIN c.servers : \A x \in {"args", "headers"} :
       (v \in DOMAIN f.servers => f.servers[v][x] = None) => d.servers[v][x] = c.servers[v][x]
  /\ \A v \in DOMAIN c.servers :
       (v \in DOMAIN f.servers =>
          \A x \in DOMAIN f.servers[v].env : f.servers[v].env[x] = Masked)
       => d.servers[v].env = c.servers[v].env

LEMMA UnchangedKept == \A c, f : Kept(c, c, f)
BY DEF Kept

LEMMA ImportKept ==
  ASSUME NEW c, TablesFit(c), NEW f, Accepted(c, f)
  PROVE  Kept(c, WithTables(c, f), f)
<1>1. PICK d : d = WithTables(c, f)
  OBVIOUS
<1>2. /\ d.models = ImportedModels(c, f) /\ d.servers = ImportedServers(c, f)
      /\ d.agents = ImportedAgents(c, f) /\ d.schemas = ImportedSchemas(c, f)
      /\ d.graphs = c.graphs
  BY <1>1, WithTablesSections DEF TablesFit
<1>3. ImportedFrom(c, f)
  BY ImportedRows
<1>4. \A section \in SectionNames : DOMAIN c[section] \subseteq DOMAIN d[section]
  BY <1>2, <1>3 DEF ImportedFrom, SectionNames
<1>5. \A m \in DOMAIN c.models : d.models[m].key = c.models[m].key
  BY <1>2, <1>3 DEF ImportedFrom, ModelFrom
<1>6. \A s \in DOMAIN c.schemas : c.schemas[s].system => d.schemas[s] = c.schemas[s]
  BY <1>2, <1>3 DEF ImportedFrom, Accepted
<1>7. ASSUME NEW v \in DOMAIN c.servers,
             v \in DOMAIN f.servers =>
               \A x \in DOMAIN f.servers[v].env : f.servers[v].env[x] = Masked
      PROVE  d.servers[v].env = c.servers[v].env
  <2>1. CASE v \in DOMAIN f.servers
    BY <1>2, <1>7, <2>1, ImportedServerRow DEF ServerFrom
  <2>2. CASE v \notin DOMAIN f.servers
    BY <1>2, <1>3, <2>2 DEF ImportedFrom
  <2>3. QED
    BY <2>1, <2>2
<1>8. ASSUME NEW v \in DOMAIN c.servers, NEW x \in {"args", "headers"},
             v \in DOMAIN f.servers => f.servers[v][x] = None
      PROVE  d.servers[v][x] = c.servers[v][x]
  <2>1. CASE v \in DOMAIN f.servers
    BY <1>2, <1>8, <2>1, ImportedServerRow DEF ServerFrom
  <2>2. CASE v \notin DOMAIN f.servers
    BY <1>2, <1>3, <2>2 DEF ImportedFrom
  <2>3. QED
    BY <2>1, <2>2
<1>9. QED
  BY <1>1, <1>4, <1>5, <1>6, <1>7, <1>8 DEF Kept

LEMMA GraphKept ==
  ASSUME NEW c, TablesFit(c), NEW f, NEW g, NEW d, d = WithGraph(c, f, g)
  PROVE  Kept(c, d, f)
<1>1. GraphOnly(c, f, g, d)
  BY GraphAlone
<1>2. \A section \in SectionNames : DOMAIN c[section] \subseteq DOMAIN d[section]
  BY <1>1 DEF GraphOnly, SectionNames
<1>3. QED
  BY <1>1, <1>2 DEF GraphOnly, Kept

\* The sections of an export.
LEMMA SectionsOfExport ==
  ASSUME NEW f, NEW o, ExportOf(f, o)
  PROVE  /\ f.agents = ExportedAgents(o) /\ f.models = ExportedModels(o)
         /\ f.servers = ExportedServers(o) /\ f.schemas = ExportedSchemas(o)
         /\ f.graphs = ExportedGraphs(o)
BY DEF ExportOf, Exported, SectionNames

\* An export imported over the tables it came from, or tables near those.
LEMMA Reimported ==
  ASSUME NEW o, TablesFit(o), NEW c, TablesFit(c), Near(c, o),
         NEW f, FileFits(f), ExportOf(f, o)
  PROVE  Near(WithTables(c, f), o)
<1>1. PICK d : d = WithTables(c, f)
  OBVIOUS
<1>2. /\ d.models = ImportedModels(c, f) /\ d.servers = ImportedServers(c, f)
      /\ d.agents = ImportedAgents(c, f) /\ d.schemas = ImportedSchemas(c, f)
      /\ d.graphs = c.graphs
  BY <1>1, WithTablesSections DEF TablesFit
<1>3. ImportedFrom(c, f)
  BY ImportedRows
<1>4. /\ f.agents = ExportedAgents(o) /\ f.models = ExportedModels(o)
      /\ f.servers = ExportedServers(o) /\ f.schemas = ExportedSchemas(o)
  BY SectionsOfExport
<1>5. TablesFit(d)
  BY <1>1, ImportedFit
<1>6. /\ c.models = o.models /\ c.servers = o.servers
      /\ DOMAIN c.schemas = DOMAIN o.schemas /\ DOMAIN c.agents = DOMAIN o.agents
  BY DEF Near, SectionNames
<1>7. d.models = o.models
  <2>1. /\ DOMAIN f.models = DOMAIN o.models
        /\ \A m \in DOMAIN o.models : f.models[m].settings = o.models[m].settings
    BY <1>4 DEF ExportedModels
  <2>2. DOMAIN d.models = DOMAIN o.models
    BY <1>2, <1>3, <1>6, <2>1 DEF ImportedFrom
  <2>3. ASSUME NEW m \in DOMAIN o.models PROVE d.models[m] = o.models[m]
    <3>1. ModelFrom(d.models[m], f.models[m], o.models, m)
      BY <1>2, <1>3, <1>6, <2>1 DEF ImportedFrom
    <3>2. IsRow(o.models[m], {"settings", "key"})
      BY TableRow DEF TablesFit
    <3>3. \A x \in {"settings", "key"} : d.models[m][x] = o.models[m][x]
      BY <2>1, <3>1 DEF ModelFrom
    <3>4. QED
      BY <3>1, <3>2, <3>3, SameRow DEF ModelFrom
  <2>4. IsTable(d.models, {"settings", "key"}) /\ IsTable(o.models, {"settings", "key"})
    BY <1>5 DEF TablesFit
  <2>5. QED
    BY <2>2, <2>3, <2>4 DEF IsTable
<1>8. d.servers = o.servers
  <2>1. /\ DOMAIN f.servers = DOMAIN o.servers
        /\ \A v \in DOMAIN o.servers :
             f.servers[v] = [o.servers[v] EXCEPT !.env = [x \in DOMAIN @ |-> Masked]]
    BY <1>4 DEF ExportedServers
  <2>2. DOMAIN d.servers = DOMAIN o.servers
    BY <1>2, <1>3, <1>6, <2>1 DEF ImportedFrom
  <2>3. ASSUME NEW v \in DOMAIN o.servers PROVE d.servers[v] = o.servers[v]
    <3>1. PICK new : new = f.servers[v]
      OBVIOUS
    <3>2. PICK old : old = o.servers[v]
      OBVIOUS
    <3>3. ServerFrom(d.servers[v], new, o.servers, v)
      BY <1>2, <1>6, <2>1, <3>1, ImportedServerRow
    <3>4. IsRow(old, ServerColumns)
      BY <3>2, TableRow DEF TablesFit, ServerColumns
    <3>5. new = [old EXCEPT !.env = [x \in DOMAIN @ |-> Masked]]
      BY <2>1, <3>1, <3>2
    <3>6. DOMAIN old = ServerColumns
      BY <3>4 DEF IsRow
    <3>7. /\ new.settings = old.settings /\ new.args = old.args /\ new.headers = old.headers
          /\ \A x \in DOMAIN new.env : new.env[x] = Masked
      BY <3>5, <3>6 DEF ServerColumns
    <3>8. d.servers[v].settings = old.settings
      BY <3>3, <3>7 DEF ServerFrom, ServerHolds
    <3>9. d.servers[v].args = old.args /\ d.servers[v].headers = old.headers
      BY <3>2, <3>3, <3>7 DEF ServerFrom
    <3>10. d.servers[v].env = old.env
      BY <3>2, <3>3, <3>7 DEF ServerFrom
    <3>11. \A x \in ServerColumns : d.servers[v][x] = old[x]
      BY <3>8, <3>9, <3>10 DEF ServerColumns
    <3>12. QED
      BY <3>2, <3>3, <3>4, <3>11, SameRow DEF ServerFrom
  <2>4. IsTable(d.servers, ServerColumns) /\ IsTable(o.servers, ServerColumns)
    BY <1>5 DEF TablesFit, ServerColumns
  <2>5. QED
    BY <2>2, <2>3, <2>4 DEF IsTable
<1>9. /\ DOMAIN d.schemas = DOMAIN o.schemas
      /\ \A s \in DOMAIN o.schemas : SchemaStays(d.schemas[s], o.schemas[s])
  <2>1. /\ DOMAIN f.schemas = {s \in DOMAIN o.schemas : ~o.schemas[s].system}
        /\ \A s \in DOMAIN f.schemas : /\ f.schemas[s].entry = o.schemas[s].entry
                                       /\ f.schemas[s].relations = DOMAIN o.schemas[s].relations
    BY <1>4 DEF ExportedSchemas
  <2>2. DOMAIN d.schemas = DOMAIN o.schemas
    BY <1>2, <1>3, <1>6, <2>1 DEF ImportedFrom
  <2>3. ASSUME NEW s \in DOMAIN o.schemas PROVE SchemaStays(d.schemas[s], o.schemas[s])
    <3>1. CASE s \in DOMAIN f.schemas
      <4>1. SchemaFrom(d.schemas[s], f.schemas[s])
        BY <1>2, <1>3, <3>1 DEF ImportedFrom
      <4>2. ~o.schemas[s].system /\ o.schemas[s].system = FALSE
        BY <2>1, <3>1 DEF TablesFit
      <4>3. /\ d.schemas[s].system = FALSE /\ d.schemas[s].entry = o.schemas[s].entry
            /\ d.schemas[s].relations = Arrows(DOMAIN o.schemas[s].relations)
        BY <2>1, <3>1, <4>1 DEF SchemaFrom
      <4>4. QED
        BY <4>2, <4>3 DEF SchemaStays, Arrows
    <3>2. CASE s \notin DOMAIN f.schemas
      <4>1. d.schemas[s] = c.schemas[s]
        BY <1>2, <1>3, <1>6, <3>2 DEF ImportedFrom
      <4>2. QED
        BY <4>1 DEF Near
    <3>3. QED
      BY <3>1, <3>2
  <2>4. QED
    BY <2>2, <2>3
<1>10. /\ DOMAIN d.agents = DOMAIN o.agents
       /\ \A a \in DOMAIN o.agents : AgentStays(d.agents[a], o.agents[a])
  <2>1. /\ DOMAIN f.agents = DOMAIN o.agents
        /\ \A a \in DOMAIN o.agents : f.agents[a] = [o.agents[a] EXCEPT !.tools = DOMAIN @]
    BY <1>4 DEF ExportedAgents
  <2>2. DOMAIN d.agents = DOMAIN o.agents
    BY <1>2, <1>3, <1>6, <2>1 DEF ImportedFrom
  <2>3. ASSUME NEW a \in DOMAIN o.agents PROVE AgentStays(d.agents[a], o.agents[a])
    <3>1. PICK old : old = o.agents[a]
      OBVIOUS
    <3>2. PICK new : new = f.agents[a]
      OBVIOUS
    <3>3. PICK row : row = d.agents[a]
      OBVIOUS
    <3>4. IsRow(old, AgentColumns) /\ IsRow(new, AgentColumns)
      BY <2>1, <3>1, <3>2, TableRow DEF TablesFit, FileFits
    <3>5. row = ImportedAgent(new)
      BY <1>2, <1>3, <2>1, <3>2, <3>3 DEF ImportedFrom
    <3>6. AgentHolds(row, new) /\ row.tools = [t \in new.tools |-> Builtin]
      BY <3>4, <3>5, ImportedAgentRow
    <3>7. new = [old EXCEPT !.tools = DOMAIN @] /\ DOMAIN old = AgentColumns
      BY <2>1, <3>1, <3>2, <3>4 DEF IsRow
    <3>8. /\ new.tools = DOMAIN old.tools
          /\ \A x \in AgentColumns \ {"tools"} : new[x] = old[x]
      BY <3>7 DEF AgentColumns
    <3>9. \A x \in AgentColumns \ {"options", "tools"} : row[x] = old[x]
      BY <3>6, <3>8 DEF AgentHolds
    <3>10. new.options = old.options
      BY <3>8 DEF AgentColumns
    <3>11. \A p \in DOMAIN Defaults : \/ row.options[p] = old.options[p]
                                      \/ old.options[p] = None /\ row.options[p] = Defaults[p]
      BY <3>6, <3>10 DEF AgentHolds, Given
    <3>12. DOMAIN row.tools = DOMAIN old.tools /\ \A t \in DOMAIN old.tools : row.tools[t] = Builtin
      BY <3>6, <3>8
    <3>13. AgentStays(row, old)
      BY <3>9, <3>11, <3>12 DEF AgentStays
    <3>14. QED
      BY <3>1, <3>3, <3>13
  <2>4. QED
    BY <2>2, <2>3
<1>11. /\ DOMAIN d.graphs = DOMAIN o.graphs
       /\ \A g \in DOMAIN o.graphs : GraphStays(d.graphs[g], o.graphs[g])
  BY <1>2 DEF Near, SectionNames
<1>12. QED
  BY <1>1, <1>7, <1>8, <1>9, <1>10, <1>11 DEF Near, SectionNames

\* And the next graph of it.
LEMMA Regraphed ==
  ASSUME NEW o, TablesFit(o), NEW c, TablesFit(c), Near(c, o),
         NEW f, FileFits(f), ExportOf(f, o), NEW g \in DOMAIN f.graphs, NEW d,
         d = WithGraph(c, f, g)
  PROVE  Near(d, o)
<1>1. GraphOnly(c, f, g, d)
  BY GraphAlone
<1>2. f.graphs = ExportedGraphs(o)
  BY SectionsOfExport
<1>3. /\ DOMAIN f.graphs = DOMAIN o.graphs
      /\ f.graphs[g] = [o.graphs[g] EXCEPT !.items = [t \in DOMAIN @ |-> FirstPage(@[t])]]
  BY <1>2 DEF ExportedGraphs
<1>4. DOMAIN c.graphs = DOMAIN o.graphs /\ DOMAIN d.graphs = DOMAIN o.graphs
  BY <1>1, <1>3 DEF GraphOnly, Near, SectionNames
<1>5. GraphStays(d.graphs[g], o.graphs[g])
  <2>1. PICK old : old = o.graphs[g]
    OBVIOUS
  <2>2. PICK new : new = f.graphs[g]
    OBVIOUS
  <2>3. PICK row : row = d.graphs[g]
    OBVIOUS
  <2>4. /\ IsRow(old, {"version", "items"}) /\ old.version # None
        /\ \A t \in DOMAIN old.items : old.items[t] \subseteq Nat /\ IsFiniteSet(old.items[t])
    BY <1>3, <2>1, TableRow DEF TablesFit, GraphRows
  <2>5. PICK items : items = [t \in DOMAIN old.items |-> FirstPage(old.items[t])]
    OBVIOUS
  <2>6. new = [old EXCEPT !.items = items]
    BY <1>3, <2>1, <2>2, <2>5
  <2>7. new.version = old.version /\ new.items = items
    BY <2>4, <2>6 DEF IsRow
  <2>8. row = ImportedGraph(new, c.graphs[g])
    BY <1>1, <1>3, <1>4, <2>2, <2>3 DEF GraphOnly, OldRow
  <2>9. \A t \in DOMAIN new.items : new.items[t] \subseteq Nat /\ IsFiniteSet(new.items[t])
    BY <2>2 DEF FileFits, GraphRows
  <2>10. /\ GraphHolds(row, new)
         /\ DOMAIN row.items = (DOMAIN c.graphs[g].items) \cup (DOMAIN new.items)
    BY <2>8, <2>9, ImportedGraphRow
  <2>11. DOMAIN c.graphs[g].items = DOMAIN old.items
    BY <1>3, <2>1 DEF Near, GraphStays
  <2>12. DOMAIN row.items = DOMAIN old.items
    BY <2>5, <2>7, <2>10, <2>11
  <2>13. row.version = old.version
    BY <2>4, <2>7, <2>10 DEF GraphHolds, Given
  <2>14. \A t \in DOMAIN old.items : row.items[t] = FirstPage(old.items[t])
    BY <2>5, <2>7, <2>10, <2>12 DEF GraphHolds
  <2>15. \A t \in DOMAIN old.items :
           FirstPage(old.items[t]) # old.items[t] => Cardinality(old.items[t]) > PageSize
    BY <2>4, WholePage
  <2>16. GraphStays(row, old)
    BY <2>12, <2>13, <2>14, <2>15 DEF GraphStays
  <2>17. QED
    BY <2>1, <2>3, <2>16
<1>6. ASSUME NEW h \in DOMAIN o.graphs, h # g PROVE GraphStays(d.graphs[h], o.graphs[h])
  BY <1>1, <1>4, <1>6 DEF GraphOnly, Near
<1>7. /\ d.agents = c.agents /\ d.models = c.models /\ d.servers = c.servers
      /\ d.schemas = c.schemas
  BY <1>1 DEF GraphOnly
<1>8. \A section \in SectionNames : DOMAIN d[section] = DOMAIN o[section]
  BY <1>4, <1>7 DEF Near, SectionNames
<1>9. QED
  BY <1>5, <1>6, <1>7, <1>8 DEF Near

-----------------------------------------------------------------------------
(* The invariant                                                           *)

\* The sections of an export make a file.
LEMMA ExportedFits ==
  ASSUME NEW c, TablesFit(c)
  PROVE  IsTable(ExportedAgents(c), AgentColumns) /\ GraphRows(ExportedGraphs(c))
<1>1. IsTable(ExportedAgents(c), AgentColumns)
  <2>1. PICK agents : agents = ExportedAgents(c)
    OBVIOUS
  <2>2. /\ DOMAIN agents = DOMAIN c.agents /\ agents = [a \in DOMAIN agents |-> agents[a]]
        /\ \A a \in DOMAIN agents : agents[a] = [c.agents[a] EXCEPT !.tools = DOMAIN @]
    BY <2>1 DEF ExportedAgents
  <2>3. ASSUME NEW a \in DOMAIN agents PROVE IsRow(agents[a], AgentColumns)
    <3>1. PICK old : old = c.agents[a]
      OBVIOUS
    <3>2. IsRow(old, AgentColumns)
      BY <2>2, <3>1, TableRow DEF TablesFit
    <3>3. agents[a] = [old EXCEPT !.tools = DOMAIN @] /\ DOMAIN old = AgentColumns
      BY <2>2, <3>1, <3>2 DEF IsRow
    <3>4. QED
      BY <3>3 DEF IsRow
  <2>4. QED
    BY <2>1, <2>2, <2>3, RowsMakeTable
<1>2. PICK graphs : graphs = ExportedGraphs(c)
  OBVIOUS
<1>3. /\ DOMAIN graphs = DOMAIN c.graphs /\ graphs = [g \in DOMAIN graphs |-> graphs[g]]
      /\ \A g \in DOMAIN graphs :
           graphs[g] = [c.graphs[g] EXCEPT !.items = [t \in DOMAIN @ |-> FirstPage(@[t])]]
  BY <1>2 DEF ExportedGraphs
<1>4. ASSUME NEW g \in DOMAIN graphs
      PROVE  /\ IsRow(graphs[g], {"version", "items"})
             /\ \A t \in DOMAIN graphs[g].items :
                  graphs[g].items[t] \subseteq Nat /\ IsFiniteSet(graphs[g].items[t])
  <2>1. PICK old : old = c.graphs[g]
    OBVIOUS
  <2>2. /\ IsRow(old, {"version", "items"})
        /\ \A t \in DOMAIN old.items : old.items[t] \subseteq Nat /\ IsFiniteSet(old.items[t])
    BY <1>3, <2>1, TableRow DEF TablesFit, GraphRows
  <2>3. PICK items : items = [t \in DOMAIN old.items |-> FirstPage(old.items[t])]
    OBVIOUS
  <2>4. \A t \in DOMAIN items : items[t] \subseteq Nat /\ IsFiniteSet(items[t])
    BY <2>2, <2>3, WholePage
  <2>5. graphs[g] = [old EXCEPT !.items = items]
    BY <1>3, <2>1, <2>3
  <2>6. DOMAIN old = {"version", "items"}
    BY <2>2 DEF IsRow
  <2>7. QED
    BY <2>4, <2>5, <2>6 DEF IsRow
<1>5. QED
  BY <1>1, <1>2, <1>3, <1>4, RowsMakeTable DEF GraphRows

LEMMA TransferStarts == TransferInit => TransferInv
<1>1. SUFFICES ASSUME TransferInit PROVE TransferInv
  OBVIOUS
<1>2. TablesFit(config) /\ FileFits(file)
  BY <1>1, NoFileFits, TransferAssumption DEF TransferInit
<1>3. ExporterFits
  <2>1. /\ DOMAIN exporter = {"active", "sections", "draft", "quiet"}
        /\ exporter.sections = 0 /\ exporter.draft = NoFile
    BY <1>1 DEF TransferInit, NoExport
  <2>2. QED
    BY <2>1, NoFileFits DEF ExporterFits
<1>4. ImporterFits
  <2>1. /\ DOMAIN importer = {"step", "file", "todo", "quiet"}
        /\ importer.step = "idle" /\ importer.file = NoFile /\ importer.todo = {}
    BY <1>1 DEF TransferInit, NoImport
  <2>2. QED
    BY <2>1, NoFileFits DEF ImporterFits
<1>5. ImportedHolds /\ OriginNear
  BY <1>1 DEF TransferInit, ImportedHolds, OriginNear
<1>6. QED
  BY <1>2, <1>3, <1>4, <1>5 DEF TransferInv

LEMMA SectionExported ==
  ASSUME TransferInv, ExportSection
  PROVE  TransferInv'
<1>1. PICK n : n = exporter.sections + 1
  OBVIOUS
<1>2. n \in 1..5 /\ exporter.sections = n - 1
  BY <1>1 DEF TransferInv, ExporterFits
<1>3. PICK section : section = Sections[n]
  OBVIOUS
<1>4. section \in SectionNames /\ \A i \in 1..n - 1 : Sections[i] # section
  BY <1>2, <1>3 DEF Sections, SectionNames
<1>5. PICK draft : draft = [exporter.draft EXCEPT ![section] = Exported(config, section)]
  OBVIOUS
<1>6. /\ DOMAIN exporter = {"active", "sections", "draft", "quiet"}
      /\ FileFits(exporter.draft) /\ TablesFit(config)
  BY DEF TransferInv, ExporterFits
<1>7. /\ DOMAIN draft = SectionNames /\ draft[section] = Exported(config, section)
      /\ \A s \in SectionNames \ {section} : draft[s] = exporter.draft[s]
  BY <1>4, <1>5, <1>6 DEF FileFits
<1>8. FileFits(draft)
  <2>1. IsTable(draft.agents, AgentColumns)
    <3>1. CASE section = "agents"
      BY <1>6, <1>7, <3>1, ExportedFits DEF Exported
    <3>2. CASE section # "agents"
      BY <1>6, <1>7, <3>2 DEF FileFits, SectionNames
    <3>3. QED
      BY <3>1, <3>2
  <2>2. GraphRows(draft.graphs)
    <3>1. CASE section = "graphs"
      BY <1>6, <1>7, <3>1, ExportedFits DEF Exported
    <3>2. CASE section # "graphs"
      BY <1>6, <1>7, <3>2 DEF FileFits, SectionNames
    <3>3. QED
      BY <3>1, <3>2
  <2>3. QED
    BY <1>7, <2>1, <2>2 DEF FileFits
<1>9. exporter.quiet => \A i \in 1..n : draft[Sections[i]] = Exported(config, Sections[i])
  <2>1. ASSUME exporter.quiet, NEW i \in 1..n
        PROVE  draft[Sections[i]] = Exported(config, Sections[i])
    <3>1. CASE i = n
      BY <1>3, <1>7, <3>1
    <3>2. CASE i # n
      <4>1. i \in 1..exporter.sections
        BY <1>2, <3>2
      <4>2. exporter.draft[Sections[i]] = Exported(config, Sections[i])
        BY <2>1, <4>1 DEF TransferInv, ExporterFits
      <4>3. Sections[i] \in SectionNames \ {section}
        BY <1>2, <1>4, <4>1 DEF Sections, SectionNames
      <4>4. QED
        BY <1>7, <4>2, <4>3
    <3>3. QED
      BY <3>1, <3>2
  <2>2. QED
    BY <2>1
<1>10. UNCHANGED <<config, loaded, importer, imported>>
  BY DEF ExportSection
<1>11. TablesFit(config)' /\ ImporterFits' /\ ImportedHolds'
  BY <1>10 DEF TransferInv, ImporterFits, ImportedHolds
<1>12. Len(Sections) = 5
  BY DEF Sections
<1>13. CASE n < 5
  <2>1. /\ exporter' = [exporter EXCEPT !.sections = n, !.draft = draft]
        /\ UNCHANGED <<file, origin>>
    BY <1>1, <1>3, <1>5, <1>12, <1>13 DEF ExportSection
  <2>2. FileFits(file)' /\ OriginNear'
    BY <1>10, <2>1 DEF TransferInv, OriginNear
  <2>3. /\ DOMAIN exporter' = {"active", "sections", "draft", "quiet"}
        /\ exporter'.sections = n /\ exporter'.draft = draft
        /\ exporter'.quiet = exporter.quiet
    BY <1>6, <2>1
  <2>4. n \in 0..4
    BY <1>2, <1>13
  <2>5. ExporterFits'
    BY <1>8, <1>9, <1>10, <2>3, <2>4 DEF ExporterFits
  <2>6. QED
    BY <1>11, <2>2, <2>5 DEF TransferInv
<1>14. CASE n = 5
  <2>1. /\ exporter' = NoExport /\ file' = draft
        /\ origin' = IF exporter.quiet THEN config ELSE None
    BY <1>1, <1>3, <1>5, <1>12, <1>14 DEF ExportSection
  <2>2. /\ DOMAIN exporter' = {"active", "sections", "draft", "quiet"}
        /\ exporter'.sections = 0 /\ exporter'.draft = NoFile
    BY <2>1 DEF NoExport
  <2>3. ExporterFits'
    BY <2>2, NoFileFits DEF ExporterFits
  <2>4. ASSUME exporter.quiet PROVE ExportOf(draft, config) /\ Near(config, config)
    <3>1. \A i \in 1..5 : draft[Sections[i]] = Exported(config, Sections[i])
      BY <1>9, <1>14, <2>4
    <3>2. \A s \in SectionNames : draft[s] = Exported(config, s)
      BY <3>1 DEF Sections, SectionNames
    <3>3. QED
      BY <3>2 DEF ExportOf, Near, AgentStays, SchemaStays, GraphStays
  <2>5. OriginNear'
    BY <1>6, <1>10, <2>1, <2>4 DEF OriginNear
  <2>6. FileFits(file)'
    BY <1>8, <2>1
  <2>7. QED
    BY <1>11, <2>3, <2>5, <2>6 DEF TransferInv
<1>15. QED
  BY <1>2, <1>13, <1>14

\* An import that writes tables, near the exported ones if those it had were.
LEMMA TablesChanged ==
  ASSUME TransferInv, Changed, TablesFit(config)', UNCHANGED file, ImporterFits',
         ASSUME NEW o, TablesFit(o), ExportOf(importer.file, o), Near(config, o)
         PROVE  Near(config', o)
  PROVE  TransferInv'
<1>1. /\ exporter' = [exporter EXCEPT !.quiet = FALSE]
      /\ DOMAIN exporter = {"active", "sections", "draft", "quiet"}
      /\ exporter.sections \in 0..4 /\ FileFits(exporter.draft)
  BY DEF Changed, TransferInv, ExporterFits
<1>2. /\ DOMAIN exporter' = {"active", "sections", "draft", "quiet"}
      /\ exporter'.sections = exporter.sections /\ exporter'.draft = exporter.draft
      /\ exporter'.quiet = FALSE
  BY <1>1
<1>3. ExporterFits'
  BY <1>1, <1>2 DEF ExporterFits
<1>4. ImportedHolds'
  BY DEF Changed, ImportedHolds
<1>5. OriginNear'
  <2>1. ASSUME origin' # None
        PROVE  TablesFit(origin') /\ ExportOf(file', origin') /\ Near(config', origin')
    <3>1. importer.file = file /\ origin' = origin /\ origin # None
      BY <2>1 DEF Changed
    <3>2. TablesFit(origin) /\ ExportOf(importer.file, origin) /\ Near(config, origin)
      BY <3>1 DEF TransferInv, OriginNear
    <3>3. QED
      BY <3>1, <3>2
  <2>2. QED
    BY <2>1 DEF OriginNear
<1>6. QED
  BY <1>3, <1>4, <1>5 DEF TransferInv

LEMMA TablesImported ==
  ASSUME TransferInv, importer.step = "tables", config' = WithTables(config, importer.file),
         importer' = [importer EXCEPT !.step = "graphs"], Changed, UNCHANGED file
  PROVE  TransferInv'
<1>1. PICK f : f = importer.file
  OBVIOUS
<1>2. /\ TablesFit(config) /\ FileFits(f)
      /\ DOMAIN importer = {"step", "file", "todo", "quiet"} /\ importer.todo = DOMAIN f.graphs
  BY <1>1 DEF TransferInv, ImporterFits
<1>3. TablesFit(config)' /\ Holds(config', f, {})
  BY <1>1, <1>2, ImportedFit, ImportHolds
<1>4. /\ DOMAIN importer' = {"step", "file", "todo", "quiet"}
      /\ importer'.file = f /\ importer'.todo = DOMAIN f.graphs /\ importer'.step = "graphs"
  BY <1>1, <1>2
<1>5. (DOMAIN f.graphs) \ (DOMAIN f.graphs) = {}
  OBVIOUS
<1>6. ImporterFits'
  BY <1>2, <1>3, <1>4, <1>5 DEF ImporterFits
<1>7. ASSUME NEW o, TablesFit(o), ExportOf(importer.file, o), Near(config, o)
      PROVE  Near(config', o)
  BY <1>1, <1>2, <1>7, Reimported
<1>8. QED
  BY <1>3, <1>6, <1>7, TablesChanged

LEMMA GraphImported ==
  ASSUME TransferInv, importer.step = "graphs", NEW g \in importer.todo,
         config' = WithGraph(config, importer.file, g),
         importer' = [importer EXCEPT !.todo = @ \ {g}], Changed, UNCHANGED file
  PROVE  TransferInv'
<1>1. PICK f : f = importer.file
  OBVIOUS
<1>2. PICK done : done = (DOMAIN f.graphs) \ importer.todo
  OBVIOUS
<1>3. /\ TablesFit(config) /\ FileFits(f) /\ g \in DOMAIN f.graphs
      /\ DOMAIN importer = {"step", "file", "todo", "quiet"}
      /\ importer.todo \subseteq DOMAIN f.graphs
      /\ importer.quiet => Holds(config, f, done)
  BY <1>1, <1>2 DEF TransferInv, ImporterFits
<1>4. config' = WithGraph(config, f, g)
  BY <1>1
<1>5. TablesFit(config)'
  BY <1>3, <1>4, GraphFits
<1>6. importer.quiet => Holds(config', f, done \cup {g})
  BY <1>3, <1>4, NextGraphHolds
<1>7. /\ DOMAIN importer' = {"step", "file", "todo", "quiet"} /\ importer'.quiet = importer.quiet
      /\ importer'.file = f /\ importer'.todo = importer.todo \ {g} /\ importer'.step = "graphs"
  BY <1>1, <1>3
<1>8. (DOMAIN f.graphs) \ (importer.todo \ {g}) = done \cup {g}
  BY <1>2, <1>3
<1>9. ImporterFits'
  BY <1>3, <1>6, <1>7, <1>8 DEF ImporterFits
<1>10. ASSUME NEW o, TablesFit(o), ExportOf(importer.file, o), Near(config, o)
       PROVE  Near(config', o)
  BY <1>1, <1>3, <1>4, <1>10, Regraphed
<1>11. QED
  BY <1>5, <1>9, <1>10, TablesChanged

LEMMA TransferStep == TransferInv /\ [TransferNext]_transferVars => TransferInv'
<1>1. SUFFICES ASSUME TransferInv, [TransferNext]_transferVars PROVE TransferInv'
  OBVIOUS
<1>2. CASE StartExport
  <2>1. /\ DOMAIN exporter' = {"active", "sections", "draft", "quiet"}
        /\ exporter'.sections = 0 /\ exporter'.draft = NoFile
    BY <1>2 DEF StartExport, NoExport
  <2>2. ExporterFits'
    BY <2>1, NoFileFits DEF ExporterFits
  <2>3. UNCHANGED <<config, loaded, file, importer, origin, imported>>
    BY <1>2 DEF StartExport
  <2>4. QED
    BY <1>1, <2>2, <2>3 DEF TransferInv, ImporterFits, ImportedHolds, OriginNear
<1>3. CASE ExportSection
  BY <1>1, <1>3, SectionExported
<1>4. CASE Write
  <2>1. FileFits(file)' /\ OriginNear'
    BY <1>4, TransferAssumption DEF Write, OriginNear
  <2>2. UNCHANGED <<config, loaded, exporter, importer, imported>>
    BY <1>4 DEF Write
  <2>3. QED
    BY <1>1, <2>1, <2>2 DEF TransferInv, ExporterFits, ImporterFits, ImportedHolds
<1>5. CASE StartImport
  <2>1. /\ DOMAIN importer' = {"step", "file", "todo", "quiet"}
        /\ importer'.step = "tables" /\ importer'.file = file
        /\ importer'.todo = DOMAIN file.graphs
    BY <1>5 DEF StartImport, NoImport
  <2>2. ImporterFits'
    BY <1>1, <2>1 DEF ImporterFits, TransferInv
  <2>3. UNCHANGED <<config, loaded, exporter, file, origin, imported>>
    BY <1>5 DEF StartImport
  <2>4. QED
    BY <1>1, <2>2, <2>3 DEF TransferInv, ExporterFits, ImportedHolds, OriginNear
<1>6. ASSUME importer' = NoImport PROVE ImporterFits'
  <2>1. /\ DOMAIN importer' = {"step", "file", "todo", "quiet"}
        /\ importer'.step = "idle" /\ importer'.file = NoFile /\ importer'.todo = {}
    BY <1>6 DEF NoImport
  <2>2. QED
    BY <2>1, NoFileFits DEF ImporterFits
<1>7. CASE ImportFails
  <2>1. ImporterFits'
    BY <1>6, <1>7 DEF ImportFails
  <2>2. UNCHANGED <<config, loaded, exporter, file, origin, imported>>
    BY <1>7 DEF ImportFails
  <2>3. QED
    BY <1>1, <2>1, <2>2 DEF TransferInv, ExporterFits, ImportedHolds, OriginNear
<1>8. CASE ImportTables
  BY <1>1, <1>7, <1>8, TablesImported DEF ImportTables
<1>9. CASE ImportGraph
  BY <1>1, <1>7, <1>9, GraphImported DEF ImportGraph
<1>10. CASE ReloadImported
  <2>1. CASE /\ importer.step = "graphs" /\ importer.todo = {}
             /\ loaded' = config.agents /\ importer' = NoImport
             /\ imported' = IF importer.quiet THEN [file |-> importer.file] ELSE None
             /\ UNCHANGED <<config, exporter, file, origin, edits, transfers>>
    <3>1. importer.quiet => Holds(config, importer.file, DOMAIN importer.file.graphs)
      <4>1. (DOMAIN importer.file.graphs) \ importer.todo = DOMAIN importer.file.graphs
        BY <2>1
      <4>2. QED
        BY <1>1, <2>1, <4>1 DEF TransferInv, ImporterFits
    <3>2. ImportedHolds'
      BY <2>1, <3>1 DEF ImportedHolds
    <3>3. ImporterFits'
      BY <1>6, <2>1
    <3>4. QED
      BY <1>1, <2>1, <3>2, <3>3 DEF TransferInv, ExporterFits, OriginNear
  <2>2. QED
    BY <1>7, <1>10, <2>1 DEF ReloadImported
<1>11. CASE Edit
  <2>1. TablesFit(config)' /\ FileFits(file)'
    BY <1>1, <1>11, TransferAssumption DEF Edit, TransferInv
  <2>2. ImportedHolds' /\ OriginNear'
    BY <1>11 DEF Edit, ImportedHolds, OriginNear
  <2>3. ExporterFits'
    <3>1. /\ DOMAIN exporter' = {"active", "sections", "draft", "quiet"}
          /\ exporter'.sections = exporter.sections /\ exporter'.draft = exporter.draft
          /\ exporter'.quiet = FALSE
      BY <1>1, <1>11 DEF Edit, TransferInv, ExporterFits
    <3>2. QED
      BY <1>1, <3>1 DEF TransferInv, ExporterFits
  <2>4. ImporterFits'
    <3>1. /\ DOMAIN importer' = {"step", "file", "todo", "quiet"}
          /\ importer'.step = importer.step /\ importer'.file = importer.file
          /\ importer'.todo = importer.todo /\ importer'.quiet = (importer.step = "idle")
      BY <1>1, <1>11 DEF Edit, TransferInv, ImporterFits
    <3>2. QED
      BY <1>1, <3>1 DEF TransferInv, ImporterFits
  <2>5. QED
    BY <2>1, <2>2, <2>3, <2>4 DEF TransferInv
<1>12. CASE UNCHANGED transferVars
  BY <1>1, <1>12 DEF TransferInv, ExporterFits, ImporterFits, ImportedHolds, OriginNear, transferVars
<1>13. QED
  BY <1>1, <1>2, <1>3, <1>4, <1>5, <1>8, <1>9, <1>10, <1>11, <1>12 DEF TransferNext

\* Changes by other endpoints are counted.
LEMMA EditsCounted == TransferSpec => [](edits \in Nat)
<1>1. TransferInit => edits \in Nat
  BY DEF TransferInit
<1>2. ASSUME edits \in Nat, [TransferNext]_transferVars PROVE (edits \in Nat)'
  <2>1. CASE Edit
    BY <1>2, <2>1 DEF Edit
  <2>2. CASE ImportTables \/ ImportGraph
    BY <1>2, <2>2 DEF ImportTables, ImportGraph, ImportFails
  <2>3. CASE StartExport \/ ExportSection \/ Write
    BY <1>2, <2>3 DEF StartExport, ExportSection, Write
  <2>4. CASE StartImport \/ ReloadImported
    BY <1>2, <2>4 DEF StartImport, ReloadImported, ImportFails
  <2>5. CASE UNCHANGED transferVars
    BY <1>2, <2>5 DEF transferVars
  <2>6. QED
    BY <1>2, <2>1, <2>2, <2>3, <2>4, <2>5 DEF TransferNext
<1>3. QED
  BY <1>1, <1>2, PTL DEF TransferSpec

LEMMA TransferKeeps == TransferSpec => []TransferInv
BY TransferStarts, TransferStep, PTL DEF TransferSpec

-----------------------------------------------------------------------------
(* The theorems                                                            *)

(* Importing one's own export changes nothing but what AgentStays, SchemaStays and         *)
(* GraphStays name (options an agent did not have, kinds of tools, hints of relations and  *)
(* types of more than a page), for all configurations and however often the file is        *)
(* imported, whichever statements fail (ExportYAML, ImportYAML).                           *)
THEOREM KeepsExported == TransferSpec => []RoundTrip
<1>1. TransferInv => RoundTrip
  BY DEF TransferInv, OriginNear, RoundTrip
<1>2. QED
  BY <1>1, TransferKeeps, PTL

(* The tables hold what the last file imported says, with the defaults of what it leaves   *)
(* out, and the agents in memory are theirs, for all files, torn ones too (ImportYAML).    *)
THEOREM HoldsFile == TransferSpec => []FileIsTruth
<1>1. ASSUME TransferInv PROVE FileIsTruth
  <2>1. SUFFICES ASSUME imported # None PROVE FileIsTruth
    BY DEF FileIsTruth
  <2>2. PICK f : f = imported.file
    OBVIOUS
  <2>3. Holds(config, f, DOMAIN f.graphs) /\ loaded = config.agents
    BY <1>1, <2>1, <2>2 DEF TransferInv, ImportedHolds
  <2>4. \A section \in SectionNames : DOMAIN f[section] \subseteq DOMAIN config[section]
    BY <2>3 DEF Holds, SectionNames
  <2>5. QED
    BY <2>2, <2>3, <2>4 DEF FileIsTruth, Holds
<1>2. QED
  BY <1>1, TransferKeeps, PTL

(* An import adds and replaces; it takes away no row, no key, no schema of the engine, no  *)
(* argument or header a file leaves out, no variable it only masks.                        *)
THEOREM KeepsRows == TransferSpec => ImportPreserves
<1>1. ASSUME TransferInv, edits \in Nat, [TransferNext]_transferVars, edits' = edits
      PROVE  Kept(config, config', importer.file)
  <2>1. CASE UNCHANGED config
    BY <2>1, UnchangedKept
  <2>2. CASE ImportTables /\ ~UNCHANGED config
    <3>1. Accepted(config, importer.file) /\ config' = WithTables(config, importer.file)
      BY <2>2 DEF ImportTables, ImportFails
    <3>2. QED
      BY <1>1, <3>1, ImportKept DEF TransferInv
  <2>3. CASE ImportGraph /\ ~UNCHANGED config
    <3>1. PICK g : config' = WithGraph(config, importer.file, g)
      BY <2>3 DEF ImportGraph, ImportFails
    <3>2. QED
      BY <1>1, <3>1, GraphKept DEF TransferInv
  <2>4. ASSUME Edit PROVE FALSE
    BY <1>1, <2>4 DEF Edit
  <2>5. QED
    BY <1>1, <2>1, <2>2, <2>3, <2>4
    DEF TransferNext, StartExport, ExportSection, Write, StartImport, ReloadImported, ImportFails,
        transferVars
<1>2. TransferInv /\ edits \in Nat /\ [TransferNext]_transferVars
      => [edits' = edits => Kept(config, config', importer.file)]_transferVars
  BY <1>1
<1>3. TransferSpec
      => [][edits' = edits => Kept(config, config', importer.file)]_transferVars
  BY <1>2, TransferKeeps, EditsCounted, PTL DEF TransferSpec
<1>4. QED
  BY <1>3 DEF ImportPreserves, Kept

-----------------------------------------------------------------------------
(* Types                                                                   *)

\* What is left to say of the types once TransferInv holds.
LinksInv ==
  /\ LinksResolve(config)
  /\ exporter.active \in BOOLEAN /\ exporter.quiet \in BOOLEAN
  /\ importer.step \in {"idle", "tables", "graphs"} /\ importer.quiet \in BOOLEAN
  /\ edits \in 0..MaxEdits /\ transfers \in 0..MaxTransfers

LEMMA NoneUnderWay ==
  /\ NoExport.active = FALSE /\ NoExport.quiet = TRUE
  /\ NoImport.step = "idle" /\ NoImport.quiet = TRUE
BY DEF NoExport, NoImport

LEMMA LinksStart == TransferInit => LinksInv
<1>1. TransferInit => LinksResolve(config)
  BY TransferAssumption DEF TransferInit
<1>2. 0 \in 0..MaxEdits /\ 0 \in 0..MaxTransfers
  BY TransferAssumption
<1>3. QED
  BY <1>1, <1>2, NoneUnderWay DEF TransferInit, LinksInv

\* The graphs are no row that another refers to.
LEMMA GraphsAside ==
  ASSUME NEW c, NEW d, LinksResolve(c),
         \A section \in {"agents", "models", "servers", "schemas"} : d[section] = c[section]
  PROVE  LinksResolve(d)
<1>1. d.agents = c.agents /\ d.models = c.models /\ d.servers = c.servers /\ d.schemas = c.schemas
  OBVIOUS
<1>2. QED
  BY <1>1 DEF LinksResolve

LEMMA LinksStep ==
  ASSUME LinksInv, TransferInv, [TransferNext]_transferVars
  PROVE  LinksInv'
<1> USE TransferAssumption
<1>1. edits \in Nat /\ transfers \in Nat
  BY DEF LinksInv
<1>2. /\ DOMAIN config = SectionNames
      /\ DOMAIN exporter = {"active", "sections", "draft", "quiet"}
      /\ DOMAIN importer = {"step", "file", "todo", "quiet"}
  BY DEF TransferInv, TablesFit, ExporterFits, ImporterFits
<1>3. CASE StartExport
  <2>1. exporter'.active = TRUE /\ exporter'.quiet = TRUE
    BY <1>3 DEF StartExport, NoExport
  <2>2. transfers' \in 0..MaxTransfers
    BY <1>1, <1>3 DEF StartExport
  <2>3. QED
    BY <1>3, <2>1, <2>2 DEF StartExport, LinksInv
<1>4. CASE ExportSection
  <2>1. exporter'.active \in BOOLEAN /\ exporter'.quiet \in BOOLEAN
    BY <1>2, <1>4, NoneUnderWay DEF ExportSection, LinksInv
  <2>2. QED
    BY <1>4, <2>1 DEF ExportSection, LinksInv
<1>5. CASE Write
  BY <1>5 DEF Write, LinksInv
<1>6. CASE StartImport
  <2>1. importer'.step = "tables" /\ importer'.quiet = TRUE
    BY <1>6 DEF StartImport, NoImport
  <2>2. transfers' \in 0..MaxTransfers
    BY <1>1, <1>6 DEF StartImport
  <2>3. QED
    BY <1>6, <2>1, <2>2 DEF StartImport, LinksInv
<1>7. CASE ImportFails
  BY <1>7, NoneUnderWay DEF ImportFails, LinksInv
<1>8. ASSUME Changed
      PROVE  exporter'.active \in BOOLEAN /\ exporter'.quiet \in BOOLEAN
  BY <1>2, <1>8 DEF Changed, LinksInv
<1>9. CASE ImportTables
  <2>1. CASE ImportFails
    BY <1>7, <2>1
  <2>2. CASE ~ImportFails
    <3>1. LinksResolve(config)'
      BY <1>9, <2>2 DEF ImportTables, Accepted
    <3>2. importer'.step = "graphs" /\ importer'.quiet = importer.quiet
      BY <1>2, <1>9, <2>2 DEF ImportTables
    <3>3. QED
      BY <1>8, <1>9, <2>2, <3>1, <3>2 DEF ImportTables, LinksInv
  <2>3. QED
    BY <2>1, <2>2
<1>10. CASE ImportGraph
  <2>1. CASE ImportFails
    BY <1>7, <2>1
  <2>2. CASE ~ImportFails
    <3>1. PICK g \in importer.todo :
            /\ config' = WithGraph(config, importer.file, g)
            /\ importer' = [importer EXCEPT !.todo = @ \ {g}]
      BY <1>10, <2>2 DEF ImportGraph
    <3>2. \A section \in {"agents", "models", "servers", "schemas"} :
            config'[section] = config[section]
      BY <1>2, <3>1 DEF SectionNames, WithGraph
    <3>3. LinksResolve(config)'
      BY <3>2, GraphsAside DEF LinksInv
    <3>4. importer'.step = importer.step /\ importer'.quiet = importer.quiet
      BY <1>2, <3>1
    <3>5. Changed /\ UNCHANGED <<edits, transfers>>
      BY <1>10, <2>2 DEF ImportGraph
    <3>6. QED
      BY <1>8, <3>3, <3>4, <3>5 DEF LinksInv
  <2>3. QED
    BY <2>1, <2>2
<1>11. CASE ReloadImported
  <2>1. CASE ImportFails
    BY <1>7, <2>1
  <2>2. CASE ~ImportFails
    BY <1>11, <2>2, NoneUnderWay DEF ReloadImported, LinksInv
  <2>3. QED
    BY <2>1, <2>2
<1>12. CASE Edit
  <2>1. LinksResolve(config)'
    BY <1>12 DEF Edit
  <2>2. exporter'.active = exporter.active /\ exporter'.quiet = FALSE
    BY <1>2, <1>12 DEF Edit
  <2>3. importer'.step = importer.step /\ importer'.quiet \in BOOLEAN
    <3>1. PICK quiet \in BOOLEAN : quiet = (importer.step = "idle")
      OBVIOUS
    <3>2. QED
      BY <1>2, <1>12, <3>1 DEF Edit
  <2>4. edits' \in 0..MaxEdits
    BY <1>1, <1>12 DEF Edit
  <2>5. QED
    BY <1>12, <2>1, <2>2, <2>3, <2>4 DEF Edit, LinksInv
<1>13. CASE UNCHANGED transferVars
  BY <1>13 DEF transferVars, LinksInv
<1>14. QED
  BY <1>3, <1>4, <1>5, <1>6, <1>9, <1>10, <1>11, <1>12, <1>13 DEF TransferNext

\* Whatever is imported, edited or fails, the rows of the tables refer to rows that are
\* there, and exports and imports keep their types (importAgents, importSchemas).
THEOREM LinksAlwaysResolve == TransferSpec => []TransferTypeOK
<1>1. ASSUME TransferInv, LinksInv PROVE TransferTypeOK
  <2>1. Len(Sections) - 1 = 4
    BY DEF Sections
  <2>2. /\ DOMAIN config = SectionNames /\ DOMAIN file = SectionNames
        /\ DOMAIN exporter.draft = SectionNames /\ DOMAIN importer.file = SectionNames
        /\ exporter.sections \in 0..4 /\ importer.todo \subseteq DOMAIN importer.file.graphs
    BY <1>1 DEF TransferInv, TablesFit, FileFits, ExporterFits, ImporterFits
  <2>3. QED
    BY <1>1, <2>1, <2>2 DEF LinksInv, TransferTypeOK
<1>2. TransferSpec => []LinksInv
  BY LinksStart, LinksStep, TransferKeeps, PTL DEF TransferSpec
<1>3. QED
  BY <1>1, <1>2, TransferKeeps, PTL
=============================================================================
