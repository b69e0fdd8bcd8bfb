-------------------------- MODULE KnowledgeProofs ---------------------------
(***************************************************************************)
(* For any number of documents, chunks and deletions: the status of a      *)
(* document tells how many chunks a search finds.  For any bundles,        *)
(* entity types and requests: a release lands whole, and without           *)
(* overlapping requests its references resolve and its names are its own.  *)
(*                                                                         *)
(* A status is written from an outcome that the indexing goroutine carries *)
(* over several statements, so the invariant says of each point on its way *)
(* what its outcome and the rows have to do with each other.  It holds of  *)
(* documents no deletion has reached: a deletion takes the chunks before   *)
(* the row and marks the document as wiped when it does.                   *)
(***************************************************************************)
EXTENDS KnowledgeDocs, KnowledgeGraph, TLAPS

\* Until its outcome is written a document is indexing, and it has the chunks of its outcome.
OutcomeFits ==
  \A d \in Documents :
    /\ indexer[d].pc # "over" /\ docRow[d] # None => docRow[d].status = "indexing"
    /\ indexer[d].pc \in {"unborn", "embed", "chunks"} => chunkRows[d] = 0
    /\ indexer[d].pc = "chunks" => indexer[d].outcome.status = "ready"
    /\ indexer[d].pc \in {"find", "save"} =>
         /\ indexer[d].outcome.status = "error" => chunkRows[d] = 0
         /\ indexer[d].outcome.status = "ready" /\ d \notin wiped =>
              chunkRows[d] = indexer[d].outcome.chunks

\* A deletion that is to take rows has marked them.
WipedFirst == \A r \in Removers : remover[r].pc = "rows" => remover[r].docs \subseteq wiped

KnowledgeInv == KnowledgeTypeOK /\ OutcomeFits /\ WipedFirst /\ StatusIsHonest

\* The three outcomes are rows, and None is not.
LEMMA RowTypes ==
  /\ Indexing \in DocRows /\ Failed \in DocRows
  /\ \A n \in 0..MaxChunks : Ready(n) \in DocRows
  /\ None \notin DocRows
BY KnowledgeAssumption DEF Indexing, Failed, Ready, DocRows

\* The rows of a document keep their types and the foreign keys when it gets a row.
LEMMA RowWritten ==
  ASSUME KnowledgeTypeOK, kb, NEW d \in Documents, NEW row \in DocRows,
         docRow' = [docRow EXCEPT ![d] = row], UNCHANGED <<kb, chunkRows>>
  PROVE  /\ docRow' \in [Documents -> DocRows \cup {None}]
         /\ \A e \in Documents : chunkRows'[e] > 0 => docRow'[e] # None
         /\ kb' \in BOOLEAN
         /\ ~kb' => \A e \in Documents : docRow'[e] = None
<1>1. row # None
  BY RowTypes
<1>2. docRow' \in [Documents -> DocRows \cup {None}]
  BY DEF KnowledgeTypeOK
<1>3. \A e \in Documents : docRow'[e] = IF e = d THEN row ELSE docRow[e]
  BY DEF KnowledgeTypeOK
<1>4. QED
  BY <1>1, <1>2, <1>3 DEF KnowledgeTypeOK

\* In the beginning there are no documents.
LEMMA KnowledgeInitInv == KnowledgeInit => KnowledgeInv
BY RowTypes, KnowledgeAssumption
DEF KnowledgeInit, KnowledgeInv, KnowledgeTypeOK, OutcomeFits, WipedFirst, StatusIsHonest,
    Stored, NotStarted, NoRemoval

-----------------------------------------------------------------------------
(* Upload and indexing                                                     *)

LEMMA UploadInv ==
  ASSUME KnowledgeInv, NEW d \in Documents, Upload(d)
  PROVE  KnowledgeInv'
<1>1. KnowledgeTypeOK'
  <2>1. KnowledgeTypeOK /\ kb /\ docRow' = [docRow EXCEPT ![d] = Indexing]
    BY DEF KnowledgeInv, Upload
  <2>2. UNCHANGED <<kb, chunkRows, remover, wiped>> /\ IndexerGoto(d, "embed")
    BY DEF Upload
  <2>3. QED
    BY <2>1, <2>2, RowTypes, RowWritten DEF KnowledgeTypeOK, IndexerGoto
<1>2. OutcomeFits' /\ WipedFirst'
  BY DEF KnowledgeInv, KnowledgeTypeOK, OutcomeFits, WipedFirst, Upload, IndexerGoto, Indexing
<1>3. StatusIsHonest'
  BY DEF KnowledgeInv, KnowledgeTypeOK, StatusIsHonest, Stored, Upload, Indexing
<1>4. QED
  BY <1>1, <1>2, <1>3 DEF KnowledgeInv

\* No chunks are there yet, so every outcome but the one with chunks fits.
LEMMA EmbedInv ==
  ASSUME KnowledgeInv, NEW d \in Documents, Embed(d)
  PROVE  KnowledgeInv'
<1>1. PICK k \in DocRows, step \in {"chunks", "find"} :
        /\ indexer' = [indexer EXCEPT ![d] = [pc |-> step, outcome |-> k]]
        /\ step = "chunks" => k.status = "ready"
        /\ step = "find" => k.chunks = 0
  <2>1. Failed \in DocRows /\ Failed.chunks = 0
    BY RowTypes DEF Failed
  <2>2. Ready(0) \in DocRows /\ Ready(0).chunks = 0
    BY RowTypes, KnowledgeAssumption DEF Ready
  <2>3. \A n \in 1..MaxChunks : Ready(n) \in DocRows /\ Ready(n).status = "ready"
    <3>1. \A n \in 1..MaxChunks : n \in 0..MaxChunks
      BY KnowledgeAssumption
    <3>2. QED
      BY <3>1, RowTypes DEF Ready
  <2>4. QED
    BY <2>1, <2>2, <2>3 DEF Embed, IndexerGoesToWrite
<1>2. UNCHANGED <<kb, docRow, chunkRows, remover, wiped>> /\ indexer[d].pc = "embed"
  BY DEF Embed
<1>3. KnowledgeTypeOK'
  BY <1>1, <1>2 DEF KnowledgeInv, KnowledgeTypeOK
<1>4. OutcomeFits'
  BY <1>1, <1>2 DEF KnowledgeInv, KnowledgeTypeOK, OutcomeFits
<1>5. QED
  BY <1>2, <1>3, <1>4 DEF KnowledgeInv, WipedFirst, StatusIsHonest, Stored

\* All chunks of the outcome are inserted, or none and the outcome is the error.
LEMMA SaveChunksInv ==
  ASSUME KnowledgeInv, NEW d \in Documents, SaveChunks(d)
  PROVE  KnowledgeInv'
<1>1. UNCHANGED <<kb, docRow, remover, wiped>> /\ indexer[d].pc = "chunks"
  BY DEF SaveChunks
<1>2. CASE /\ docRow[d] # None
           /\ chunkRows' = [chunkRows EXCEPT ![d] = indexer[d].outcome.chunks]
           /\ IndexerGoto(d, "find")
  <2>1. indexer[d].outcome.chunks \in 0..MaxChunks
    BY DEF KnowledgeInv, KnowledgeTypeOK, DocRows
  <2>2. KnowledgeTypeOK'
    BY <1>1, <1>2, <2>1 DEF KnowledgeInv, KnowledgeTypeOK, IndexerGoto
  <2>3. OutcomeFits'
    BY <1>1, <1>2 DEF KnowledgeInv, KnowledgeTypeOK, OutcomeFits, IndexerGoto
  <2>4. StatusIsHonest'
    BY <1>1, <1>2 DEF KnowledgeInv, KnowledgeTypeOK, OutcomeFits, StatusIsHonest, Stored
  <2>5. QED
    BY <1>1, <2>2, <2>3, <2>4 DEF KnowledgeInv, WipedFirst
<1>3. CASE IndexerGoesToWrite(d, Failed) /\ UNCHANGED chunkRows
  <2>1. KnowledgeTypeOK'
    BY <1>1, <1>3, RowTypes DEF KnowledgeInv, KnowledgeTypeOK, IndexerGoesToWrite
  <2>2. OutcomeFits'
    BY <1>1, <1>3 DEF KnowledgeInv, KnowledgeTypeOK, OutcomeFits, IndexerGoesToWrite, Failed
  <2>3. QED
    BY <1>1, <1>3, <2>1, <2>2 DEF KnowledgeInv, WipedFirst, StatusIsHonest, Stored
<1>4. QED
  BY <1>2, <1>3 DEF SaveChunks

LEMMA FindDocumentInv ==
  ASSUME KnowledgeInv, NEW d \in Documents, FindDocument(d)
  PROVE  KnowledgeInv'
<1>1. UNCHANGED <<kb, docRow, chunkRows, remover, wiped>> /\ indexer[d].pc = "find"
  BY DEF FindDocument
<1>2. PICK step \in {"save", "over"} : IndexerGoto(d, step)
  BY DEF FindDocument
<1>3. KnowledgeTypeOK'
  BY <1>1, <1>2 DEF KnowledgeInv, KnowledgeTypeOK, IndexerGoto
<1>4. OutcomeFits'
  BY <1>1, <1>2 DEF KnowledgeInv, KnowledgeTypeOK, OutcomeFits, IndexerGoto
<1>5. QED
  BY <1>1, <1>3, <1>4 DEF KnowledgeInv, WipedFirst, StatusIsHonest, Stored

\* The outcome becomes the status, of a row that may have been deleted meanwhile.
LEMMA SaveStatusInv ==
  ASSUME KnowledgeInv, NEW d \in Documents, SaveStatus(d)
  PROVE  KnowledgeInv'
<1>1. KnowledgeTypeOK'
  <2>1. KnowledgeTypeOK /\ indexer[d].outcome \in DocRows
    BY DEF KnowledgeInv, KnowledgeTypeOK
  <2>2. UNCHANGED <<kb, chunkRows, remover, wiped>> /\ IndexerGoto(d, "over")
    BY DEF SaveStatus
  <2>3. CASE kb /\ docRow' = [docRow EXCEPT ![d] = indexer[d].outcome]
    <3>1. indexer' \in [Documents -> [pc : {"unborn", "embed", "chunks", "find", "save", "over"},
                                      outcome : DocRows]]
      BY <2>1, <2>2 DEF KnowledgeTypeOK, IndexerGoto
    <3>2. PICK row \in DocRows : docRow' = [docRow EXCEPT ![d] = row]
      BY <2>1, <2>3
    <3>3. QED
      BY <2>1, <2>2, <2>3, <3>1, <3>2, RowWritten DEF KnowledgeTypeOK
  <2>4. CASE UNCHANGED docRow
    BY <2>1, <2>2, <2>4 DEF KnowledgeTypeOK, IndexerGoto
  <2>5. QED
    BY <2>3, <2>4 DEF SaveStatus
<1>2. OutcomeFits' /\ WipedFirst'
  BY DEF KnowledgeInv, KnowledgeTypeOK, OutcomeFits, WipedFirst, SaveStatus, IndexerGoto
<1>3. StatusIsHonest'
  BY DEF KnowledgeInv, KnowledgeTypeOK, OutcomeFits, StatusIsHonest, Stored, SaveStatus
<1>4. QED
  BY <1>1, <1>2, <1>3 DEF KnowledgeInv

-----------------------------------------------------------------------------
(* Deletion                                                                *)

\* Whatever takes rows and chunks keeps the invariant when it takes no row without its
\* chunks and what it takes of stored documents is marked.
LEMMA TakingInv ==
  ASSUME KnowledgeInv, NEW gone \in SUBSET Documents, NEW empty \in SUBSET Documents,
         gone \subseteq empty,
         docRow' = [d \in Documents |-> IF d \in gone THEN None ELSE docRow[d]],
         chunkRows' = [d \in Documents |-> IF d \in empty THEN 0 ELSE chunkRows[d]],
         wiped \subseteq wiped', wiped' \subseteq Documents,
         \A d \in empty : docRow[d] # None => d \in wiped',
         kb' \in BOOLEAN, kb' # kb => gone = Documents,
         remover' \in [Removers -> [pc : {"idle", "chunks", "rows", "kb"}, docs : SUBSET Documents]],
         WipedFirst',
         UNCHANGED indexer
  PROVE  KnowledgeInv'
<1>1. KnowledgeTypeOK'
  BY KnowledgeAssumption DEF KnowledgeInv, KnowledgeTypeOK
<1>2. OutcomeFits'
  BY DEF KnowledgeInv, KnowledgeTypeOK, OutcomeFits
<1>3. StatusIsHonest'
  BY DEF KnowledgeInv, KnowledgeTypeOK, StatusIsHonest, Stored
<1>4. QED
  BY <1>1, <1>2, <1>3 DEF KnowledgeInv

\* The same for chunks alone.
LEMMA TakingChunksInv ==
  ASSUME KnowledgeInv, NEW empty \in SUBSET Documents,
         chunkRows' = [d \in Documents |-> IF d \in empty THEN 0 ELSE chunkRows[d]],
         wiped \subseteq wiped', wiped' \subseteq Documents,
         \A d \in empty : docRow[d] # None => d \in wiped',
         remover' \in [Removers -> [pc : {"idle", "chunks", "rows", "kb"}, docs : SUBSET Documents]],
         WipedFirst',
         UNCHANGED <<kb, docRow, indexer>>
  PROVE  KnowledgeInv'
<1>1. KnowledgeTypeOK'
  <2>1. chunkRows' \in [Documents -> 0..MaxChunks]
    BY KnowledgeAssumption DEF KnowledgeInv, KnowledgeTypeOK
  <2>2. \A d \in Documents : chunkRows'[d] > 0 => docRow'[d] # None
    BY DEF KnowledgeInv, KnowledgeTypeOK
  <2>3. QED
    BY <2>1, <2>2 DEF KnowledgeInv, KnowledgeTypeOK
<1>2. OutcomeFits'
  BY DEF KnowledgeInv, KnowledgeTypeOK, OutcomeFits
<1>3. StatusIsHonest'
  BY DEF KnowledgeInv, KnowledgeTypeOK, StatusIsHonest, Stored
<1>4. QED
  BY <1>1, <1>2, <1>3 DEF KnowledgeInv

Removal == [pc : {"idle", "chunks", "rows", "kb"}, docs : SUBSET Documents]

\* A request of a deletion that moves on to rows has marked them.
LEMMA RemoverMoves ==
  ASSUME KnowledgeInv, NEW r \in Removers, NEW step \in {"idle", "chunks", "rows", "kb"},
         NEW docs \in SUBSET Documents, RemoverGoto(r, step, docs),
         wiped \subseteq wiped', step = "rows" => docs \subseteq wiped'
  PROVE  remover' \in [Removers -> Removal] /\ WipedFirst'
BY DEF KnowledgeInv, KnowledgeTypeOK, WipedFirst, RemoverGoto, Removal

\* A step of a deletion that touches no rows.
LEMMA RemoverOnlyInv ==
  ASSUME KnowledgeInv, remover' \in [Removers -> Removal], WipedFirst',
         UNCHANGED <<kb, docRow, chunkRows, indexer, wiped>>
  PROVE  KnowledgeInv'
BY DEF KnowledgeInv, KnowledgeTypeOK, OutcomeFits, StatusIsHonest, Stored, Removal

LEMMA DeleteFileInv ==
  ASSUME KnowledgeInv, NEW r \in Removers, DeleteFile(r) \/ RemovalFails(r)
  PROVE  KnowledgeInv'
<1>1. PICK step \in {"idle", "chunks"}, docs \in SUBSET Documents : RemoverGoto(r, step, docs)
  BY DEF DeleteFile, RemovalFails, Stored
<1>2. UNCHANGED <<kb, docRow, chunkRows, indexer, wiped>>
  BY DEF DeleteFile, RemovalFails
<1>3. remover' \in [Removers -> Removal] /\ WipedFirst'
  BY <1>1, <1>2, RemoverMoves
<1>4. QED
  BY <1>2, <1>3, RemoverOnlyInv

LEMMA DeleteChunksInv ==
  ASSUME KnowledgeInv, NEW r \in Removers, DeleteChunks(r)
  PROVE  KnowledgeInv'
<1> DEFINE docs == remover[r].docs
<1>1. docs \in SUBSET Documents
  BY DEF KnowledgeInv, KnowledgeTypeOK
<1>2. /\ chunkRows' = [d \in Documents |-> IF d \in docs THEN 0 ELSE chunkRows[d]]
      /\ wiped' = wiped \cup docs
      /\ RemoverGoto(r, "rows", docs)
      /\ UNCHANGED <<kb, docRow, indexer>>
  BY DEF DeleteChunks
<1>3. remover' \in [Removers -> Removal] /\ WipedFirst'
  BY <1>1, <1>2, RemoverMoves
<1>4. wiped' \subseteq Documents /\ wiped \subseteq wiped' /\ docs \subseteq wiped'
  BY <1>1, <1>2 DEF KnowledgeInv, KnowledgeTypeOK
<1> HIDE DEF docs
<1>5. QED
  BY <1>1, <1>2, <1>3, <1>4, TakingChunksInv DEF Removal

LEMMA DeleteDocumentInv ==
  ASSUME KnowledgeInv, NEW r \in Removers, DeleteDocument(r)
  PROVE  KnowledgeInv'
<1> DEFINE docs == remover[r].docs
<1>1. docs \in SUBSET Documents /\ docs \subseteq wiped
  BY DEF KnowledgeInv, KnowledgeTypeOK, WipedFirst, DeleteDocument
<1>2. DeleteRows(docs) /\ RemoverGoto(r, "idle", {}) /\ UNCHANGED <<kb, indexer, wiped>>
  BY DEF DeleteDocument
<1>3. remover' \in [Removers -> Removal] /\ WipedFirst'
  BY <1>2, RemoverMoves
<1>4. kb' \in BOOLEAN /\ wiped' \subseteq Documents
  BY <1>2 DEF KnowledgeInv, KnowledgeTypeOK
<1> HIDE DEF docs
<1>5. QED
  BY <1>1, <1>2, <1>3, <1>4, TakingInv DEF DeleteRows, Removal

LEMMA DeleteAllChunksInv ==
  ASSUME KnowledgeInv, NEW r \in Removers, DeleteAllChunks(r)
  PROVE  KnowledgeInv'
<1>1. /\ chunkRows' = [d \in Documents |-> IF d \in Documents THEN 0 ELSE chunkRows[d]]
      /\ wiped' = wiped \cup Stored
      /\ RemoverGoto(r, "rows", {})
      /\ UNCHANGED <<kb, docRow, indexer>>
  BY DEF DeleteAllChunks
<1>2. remover' \in [Removers -> Removal] /\ WipedFirst'
  BY <1>1, RemoverMoves
<1>3. wiped' \subseteq Documents /\ \A d \in Documents : docRow[d] # None => d \in wiped'
  BY <1>1 DEF KnowledgeInv, KnowledgeTypeOK, Stored
<1>4. QED
  BY <1>1, <1>2, <1>3, TakingChunksInv DEF Removal

LEMMA DeleteAllDocumentsInv ==
  ASSUME KnowledgeInv, NEW r \in Removers, DeleteAllDocuments(r) \/ DeleteKB(r)
  PROVE  KnowledgeInv'
<1>1. DeleteRows(Documents) /\ wiped' = wiped \cup Stored /\ UNCHANGED indexer
  BY DEF DeleteAllDocuments, DeleteKB
<1>2. PICK step \in {"idle", "kb"} : RemoverGoto(r, step, {})
  BY DEF DeleteAllDocuments, DeleteKB
<1>3. remover' \in [Removers -> Removal] /\ WipedFirst'
  BY <1>1, <1>2, RemoverMoves
<1>4. wiped' \subseteq Documents /\ \A d \in Documents : docRow[d] # None => d \in wiped'
  BY <1>1 DEF KnowledgeInv, KnowledgeTypeOK, Stored
<1>5. kb' \in BOOLEAN
  BY DEF KnowledgeInv, KnowledgeTypeOK, DeleteAllDocuments, DeleteKB
<1>6. QED
  BY <1>1, <1>3, <1>4, <1>5, TakingInv DEF DeleteRows, Removal

\* Goroutines and requests end where they are.
LEMMA ServerStopsInv ==
  ASSUME KnowledgeInv, ServerStops
  PROVE  KnowledgeInv'
<1>1. KnowledgeTypeOK'
  BY DEF KnowledgeInv, KnowledgeTypeOK, ServerStops, NoRemoval
<1>2. OutcomeFits'
  BY DEF KnowledgeInv, KnowledgeTypeOK, OutcomeFits, ServerStops
<1>3. WipedFirst' /\ StatusIsHonest'
  BY DEF KnowledgeInv, WipedFirst, StatusIsHonest, Stored, ServerStops, NoRemoval
<1>4. QED
  BY <1>1, <1>2, <1>3 DEF KnowledgeInv

\* Every step keeps the invariant.
LEMMA KnowledgeStepInv == KnowledgeInv /\ [KnowledgeNext]_knowledgeVars => KnowledgeInv'
<1> SUFFICES ASSUME KnowledgeInv, [KnowledgeNext]_knowledgeVars PROVE KnowledgeInv'
  OBVIOUS
<1>1. ASSUME NEW d \in Documents,
             Upload(d) \/ Embed(d) \/ SaveChunks(d) \/ FindDocument(d) \/ SaveStatus(d)
      PROVE  KnowledgeInv'
  BY <1>1, UploadInv, EmbedInv, SaveChunksInv, FindDocumentInv, SaveStatusInv
<1>2. ASSUME NEW r \in Removers,
             \/ DeleteFile(r) \/ DeleteChunks(r) \/ DeleteDocument(r)
             \/ DeleteAllChunks(r) \/ DeleteAllDocuments(r) \/ DeleteKB(r) \/ RemovalFails(r)
      PROVE  KnowledgeInv'
  BY <1>2, DeleteFileInv, DeleteChunksInv, DeleteDocumentInv, DeleteAllChunksInv,
     DeleteAllDocumentsInv
<1>3. CASE UNCHANGED knowledgeVars
  BY <1>3
  DEF knowledgeVars, KnowledgeInv, KnowledgeTypeOK, OutcomeFits, WipedFirst, StatusIsHonest,
      Stored
<1>4. QED
  BY <1>1, <1>2, <1>3, ServerStopsInv DEF KnowledgeNext

-----------------------------------------------------------------------------

\* The status of a document tells what a search finds, whatever failed, was deleted or
\* stopped (UploadService.indexFileAsyncKB, updateDocStatus, deleteDocFull).
THEOREM HonestStatus == KnowledgeSpec => []StatusIsHonest
<1>1. KnowledgeInv => StatusIsHonest
  BY DEF KnowledgeInv
<1>2. QED
  BY <1>1, KnowledgeInitInv, KnowledgeStepInv, PTL DEF KnowledgeSpec

\* No chunk is without its document and no document without its base, whoever deletes or
\* indexes meanwhile, and the rows keep their types (UploadService).
THEOREM ChunksHaveDocument == KnowledgeSpec => []KnowledgeTypeOK
<1>1. KnowledgeInv => KnowledgeTypeOK
  BY DEF KnowledgeInv
<1>2. QED
  BY <1>1, KnowledgeInitInv, KnowledgeStepInv, PTL DEF KnowledgeSpec

-----------------------------------------------------------------------------
(***************************************************************************)
(* For any number of bundles, types, entities, requests and releases: the  *)
(* entities of a bundle, and the schemas its release names, are of one     *)
(* release, whatever overlapped.                                           *)
(*                                                                         *)
(* The property is not inductive: an application inserts its rows beside   *)
(* those it did not find when it deleted.  The invariant adds that only    *)
(* one application at a time holds a bundle (the lock on its row), so that *)
(* rows written since the deletion come from single writes, and that the   *)
(* releases named by rows and requests are releases that were begun.       *)
(***************************************************************************)

Call ==
  [pc : {"idle", "refs", "names", "bundle", "schemas", "clear", "insert",
         "upsert", "delete", "schema", "drop"},
   bundle : Bundles \cup {None}, release : Origins,
   key : Keys \cup EntityTypes \cup {None}, read : Origins \cup {None},
   cleared : SUBSET Keys]

Transaction == {"schemas", "clear", "insert"}
Applying == {"refs", "names", "bundle"} \cup Transaction
SingleWrite == {"upsert", "delete", "schema", "drop"}

\* What a request works on exists.
Known(call) ==
  /\ call.pc \in Applying \cup SingleWrite => call.bundle \in Bundles
  /\ call.pc \in Applying => call.release \in 1..Len(released)
  /\ call.pc \in {"upsert", "delete"} => call.key \in Keys
  /\ call.pc = "schema" => call.key \in EntityTypes
RequestsKnown == \A r \in GraphRequests : Known(request[r])

BundlesKnown == \A b \in Bundles : bundleRow[b] # None => bundleRow[b] \in 1..Len(released)

\* One application at a time is in the transaction of a bundle.
OneTransaction ==
  \A r, q \in GraphRequests :
    /\ request[r].pc \in Transaction /\ request[q].pc \in Transaction
    /\ request[r].bundle = request[q].bundle
    => r = q

\* What an application did not find to delete is not of a release.
Cleared(call) ==
  call.pc = "insert" => \A k \in Keys \ call.cleared : entityRow[call.bundle][k] \notin Releases
ClearedBefore == \A r \in GraphRequests : Cleared(request[r])

GraphInv ==
  /\ GraphTypeOK /\ RequestsKnown /\ BundlesKnown
  /\ OneTransaction /\ ClearedBefore /\ ReleaseLandsWhole

-----------------------------------------------------------------------------
(* Types                                                                   *)

LEMMA PayloadTypes ==
  ASSUME NEW p \in Payloads
  PROVE  DOMAIN p.refs \subseteq EntityTypes /\ p.items \subseteq Keys
         /\ \A k \in p.items : k[1] \in DOMAIN p.refs
<1>1. PICK S \in SUBSET EntityTypes : p.refs \in [S -> SUBSET EntityTypes]
  BY GraphAssumption
<1>2. DOMAIN p.refs = S /\ p.items \subseteq S \X Ids
  BY <1>1, GraphAssumption
<1>3. QED
  BY <1>1, <1>2 DEF Keys

LEMMA NoneIsNoOrigin == None \notin Origins /\ Single \notin Releases /\ None \notin Releases
BY GraphAssumption DEF Origins, Releases, Single

LEMMA NoCallType == NoCall \in Call /\ NoCall.pc = "idle" /\ Known(NoCall)
BY DEF NoCall, Call, Origins, Known, Applying, Transaction, SingleWrite

LEMMA CallTypes ==
  ASSUME GraphTypeOK
  PROVE  request \in [GraphRequests -> Call]
BY DEF GraphTypeOK, Call

LEMMA ReleaseTypes ==
  ASSUME GraphTypeOK, NEW v \in 1..Len(released)
  PROVE  released[v] \in Payloads /\ v \in Releases /\ v # None /\ v \in Nat
BY GraphAssumption DEF GraphTypeOK, Releases

-----------------------------------------------------------------------------
(* Steps that write no rows                                                *)

\* One request goes to another call, and no row changes.
LEMMA RequestMoves ==
  ASSUME GraphInv, NEW r \in GraphRequests, NEW call \in Call,
         request' = [request EXCEPT ![r] = call],
         UNCHANGED <<released, rows>>, overlapped' \in BOOLEAN,
         Known(call), Cleared(call),
         call.pc \in Transaction =>
           \/ request[r].pc \in Transaction /\ call.bundle = request[r].bundle
           \/ ~BundleLocked(call.bundle)
  PROVE  GraphInv'
<1>1. request' \in [GraphRequests -> Call] /\ \A q \in GraphRequests : request'[q] = IF q = r THEN call ELSE request[q]
  BY CallTypes DEF GraphInv
<1>2. GraphTypeOK'
  BY <1>1 DEF GraphInv, GraphTypeOK, rows, Call
<1>3. RequestsKnown' /\ BundlesKnown'
  BY <1>1 DEF GraphInv, RequestsKnown, BundlesKnown, Known, rows
<1>4. OneTransaction'
  BY <1>1 DEF GraphInv, OneTransaction, BundleLocked, InTransaction, Transaction
<1>5. ClearedBefore'
  BY <1>1 DEF GraphInv, ClearedBefore, Cleared, rows
<1>6. ReleaseLandsWhole'
  BY DEF GraphInv, ReleaseLandsWhole, rows
<1>7. QED
  BY <1>2, <1>3, <1>4, <1>5, <1>6 DEF GraphInv

\* A request goes to the next step of its call, or is over.
LEMMA ProceedInv ==
  ASSUME GraphInv, NEW r \in GraphRequests, UNCHANGED <<released, rows>>,
         \/ Finish(r)
         \/ /\ request[r].pc \in {"refs", "names"}
            /\ \E step \in {"names", "bundle"} : Proceed(r, step)
         \/ request[r].pc = "bundle" /\ ~BundleLocked(request[r].bundle) /\ Proceed(r, "schemas")
         \/ request[r].pc = "schemas" /\ Proceed(r, "clear")
  PROVE  GraphInv'
<1>1. overlapped' \in BOOLEAN /\ request[r] \in Call /\ Known(request[r])
  BY CallTypes DEF Finish, Proceed, GraphInv, GraphTypeOK, RequestsKnown
<1>2. CASE Finish(r)
  <2>1. request' = [request EXCEPT ![r] = NoCall]
    BY <1>2 DEF Finish
  <2>2. Cleared(NoCall) /\ NoCall.pc \notin Transaction
    BY NoCallType DEF Cleared, Transaction
  <2>3. QED
    BY <1>1, <2>1, <2>2, NoCallType, RequestMoves
<1>3. ASSUME NEW step \in {"names", "bundle", "schemas", "clear"}, Proceed(r, step),
             request[r].pc \in {"refs", "names", "bundle", "schemas"},
             step = "schemas" => ~BundleLocked(request[r].bundle),
             step = "clear" => request[r].pc = "schemas"
      PROVE  GraphInv'
  <2> DEFINE call == [request[r] EXCEPT !.pc = step]
  <2>1. call \in Call /\ call.pc = step /\ call.bundle = request[r].bundle
        /\ call.release = request[r].release
    BY <1>1 DEF Call
  <2>2. request' = [request EXCEPT ![r] = call]
    BY <1>3 DEF Proceed
  <2>3. Known(call) /\ Cleared(call)
    BY <1>1, <1>3, <2>1 DEF Known, Cleared, Applying, Transaction, SingleWrite
  <2>4. call.pc \in Transaction =>
           \/ request[r].pc \in Transaction /\ call.bundle = request[r].bundle
           \/ ~BundleLocked(call.bundle)
    BY <1>3, <2>1 DEF Transaction
  <2> HIDE DEF call
  <2>5. QED
    BY <1>1, <2>1, <2>2, <2>3, <2>4, RequestMoves
<1>4. QED
  BY <1>2, <1>3

\* ReplaceEntities notes the rows it deletes: the others are not of a release, for none is there.
LEMMA ClearEntitiesInv ==
  ASSUME GraphInv, NEW r \in GraphRequests, ClearEntities(r)
  PROVE  GraphInv'
<1> DEFINE b == request[r].bundle
           cleared == {k \in Keys : entityRow[b][k] # None}
           call == [request[r] EXCEPT !.pc = "insert", !.cleared = cleared]
<1>1. /\ request[r].pc = "clear" /\ UNCHANGED <<released, rows, overlapped>>
      /\ request' = [request EXCEPT ![r].pc = "insert", ![r].cleared = cleared]
  BY DEF ClearEntities
<1>2. request[r] \in Call /\ Known(request[r]) /\ overlapped' \in BOOLEAN
  BY <1>1, CallTypes DEF GraphInv, GraphTypeOK, RequestsKnown
<1>3. call \in Call /\ call.pc = "insert" /\ call.bundle = b /\ call.cleared = cleared
      /\ call.release = request[r].release
  BY <1>2 DEF Call
<1>4. request' = [request EXCEPT ![r] = call]
  BY <1>1, CallTypes DEF GraphInv
<1>5. Cleared(call)
  BY <1>3, NoneIsNoOrigin DEF Cleared
<1>6. Known(call)
  BY <1>1, <1>2, <1>3 DEF Known, Applying, Transaction, SingleWrite
<1>7. request[r].pc \in Transaction
  BY <1>1 DEF Transaction
<1> HIDE DEF call
<1>8. QED
  BY <1>1, <1>2, <1>3, <1>4, <1>5, <1>6, <1>7, RequestMoves

\* A call begins that has read what it works on.
LEMMA BeginInv ==
  ASSUME GraphInv, NEW r \in GraphRequests, NEW call \in Call, Begin(r, call),
         call.pc \in SingleWrite, Known(call), UNCHANGED <<released, rows>>
  PROVE  GraphInv'
<1>1. request' = [request EXCEPT ![r] = call] /\ overlapped' \in BOOLEAN
  BY DEF Begin, GraphInv, GraphTypeOK
<1>2. Cleared(call) /\ call.pc \notin Transaction
  BY DEF Cleared, SingleWrite, Transaction
<1>3. QED
  BY <1>1, <1>2, RequestMoves

LEMMA ReadInv ==
  ASSUME GraphInv, NEW r \in GraphRequests, NEW b \in Bundles,
         \/ \E k \in Keys : ReadForUpsert(r, b, k) \/ ReadForDelete(r, b, k)
         \/ \E t \in EntityTypes : ReadForSchema(r, b, t)
         \/ ReadForDrop(r, b)
  PROVE  GraphInv'
<1>1. ASSUME NEW k \in Keys, ReadForUpsert(r, b, k) PROVE GraphInv'
  <2> DEFINE call == [NoCall EXCEPT !.pc = "upsert", !.bundle = b, !.key = k]
  <2>1. call \in Call /\ call.pc \in SingleWrite /\ Known(call)
    BY DEF NoCall, Call, Origins, Known, Applying, Transaction, SingleWrite
  <2>2. Begin(r, call) /\ UNCHANGED <<released, rows>>
    BY <1>1 DEF ReadForUpsert
  <2>3. QED
    BY <2>1, <2>2, BeginInv
<1>2. ASSUME NEW k \in Keys, ReadForDelete(r, b, k) PROVE GraphInv'
  <2> DEFINE call == [NoCall EXCEPT !.pc = "delete", !.bundle = b, !.key = k, !.read = entityRow[b][k]]
  <2>1. entityRow[b][k] \in Origins \cup {None}
    BY DEF GraphInv, GraphTypeOK
  <2>2. call \in Call /\ call.pc \in SingleWrite /\ Known(call)
    BY <2>1 DEF NoCall, Call, Origins, Known, Applying, Transaction, SingleWrite
  <2>3. Begin(r, call) /\ UNCHANGED <<released, rows>>
    BY <1>2 DEF ReadForDelete
  <2>4. QED
    BY <2>2, <2>3, BeginInv
<1>3. ASSUME NEW t \in EntityTypes, ReadForSchema(r, b, t) PROVE GraphInv'
  <2> DEFINE call == [NoCall EXCEPT !.pc = "schema", !.bundle = b, !.key = t]
  <2>1. call \in Call /\ call.pc \in SingleWrite /\ Known(call)
    BY DEF NoCall, Call, Origins, Known, Applying, Transaction, SingleWrite
  <2>2. Begin(r, call) /\ UNCHANGED <<released, rows>>
    BY <1>3 DEF ReadForSchema
  <2>3. QED
    BY <2>1, <2>2, BeginInv
<1>4. ASSUME ReadForDrop(r, b) PROVE GraphInv'
  <2> DEFINE call == [NoCall EXCEPT !.pc = "drop", !.bundle = b]
  <2>1. call \in Call /\ call.pc \in SingleWrite /\ Known(call)
    BY DEF NoCall, Call, Origins, Known, Applying, Transaction, SingleWrite
  <2>2. Begin(r, call) /\ UNCHANGED <<released, rows>>
    BY <1>4 DEF ReadForDrop
  <2>3. QED
    BY <2>1, <2>2, BeginInv
<1>5. QED
  BY <1>1, <1>2, <1>3, <1>4

\* A release is known from the time its application begins.
LEMMA ApplyInv ==
  ASSUME GraphInv, NEW r \in GraphRequests, NEW b \in Bundles, Apply(r, b)
  PROVE  GraphInv'
<1> DEFINE v == Len(released) + 1
           call == [NoCall EXCEPT !.pc = "refs", !.bundle = b, !.release = v]
<1>1. /\ Len(released) < MaxReleases /\ UNCHANGED rows
      /\ request' = [request EXCEPT ![r] = call] /\ overlapped' \in BOOLEAN
  BY DEF Apply, Begin, GraphInv, GraphTypeOK
<1>2. PICK p \in Payloads : released' = Append(released, p)
  BY DEF Apply
<1>3. released \in Seq(Payloads) /\ Len(released) \in Nat
  BY DEF GraphInv, GraphTypeOK
<1>4. /\ released' \in Seq(Payloads) /\ Len(released') = v
      /\ \A w \in 1..Len(released) : released'[w] = released[w]
  BY <1>2, <1>3
<1>5. v \in Releases /\ 1..Len(released) \subseteq 1..Len(released') /\ v \in 1..Len(released')
  BY <1>1, <1>3, <1>4, GraphAssumption DEF Releases
<1>6. call \in Call /\ call.pc = "refs" /\ call.bundle = b /\ call.release = v
  BY <1>5 DEF NoCall, Call, Origins
<1> HIDE DEF call
<1>7. request' \in [GraphRequests -> Call] /\ \A q \in GraphRequests : request'[q] = IF q = r THEN call ELSE request[q]
  BY <1>1, <1>6, CallTypes DEF GraphInv
<1>8. GraphTypeOK'
  <2>1. Len(released') <= MaxReleases
    BY <1>1, <1>3, <1>4, GraphAssumption
  <2>2. QED
    BY <2>1, <1>1, <1>4, <1>7 DEF GraphInv, GraphTypeOK, rows, Call
<1>9. RequestsKnown' /\ BundlesKnown'
  BY <1>1, <1>5, <1>6, <1>7 DEF GraphInv, RequestsKnown, BundlesKnown, Known, rows,
                                Applying, Transaction, SingleWrite
<1>10. OneTransaction' /\ ClearedBefore'
  BY <1>1, <1>6, <1>7 DEF GraphInv, OneTransaction, ClearedBefore, Cleared, Transaction, rows
<1>11. ReleaseLandsWhole'
  BY <1>1, <1>4 DEF GraphInv, BundlesKnown, ReleaseLandsWhole, rows
<1>12. QED
  BY <1>8, <1>9, <1>10, <1>11 DEF GraphInv

-----------------------------------------------------------------------------
(* Steps that write rows                                                   *)

\* The requests after one of them is over.
LEMMA OverRequests ==
  ASSUME GraphInv, NEW r \in GraphRequests, Finish(r), released' = released
  PROVE  /\ request' \in [GraphRequests -> Call] /\ RequestsKnown' /\ OneTransaction'
         /\ \A q \in GraphRequests : request'[q] = IF q = r THEN NoCall ELSE request[q]
         /\ overlapped' \in BOOLEAN
<1>1. /\ request' \in [GraphRequests -> Call]
      /\ \A q \in GraphRequests : request'[q] = IF q = r THEN NoCall ELSE request[q]
      /\ overlapped' \in BOOLEAN
  BY CallTypes, NoCallType DEF GraphInv, GraphTypeOK, Finish
<1>2. RequestsKnown'
  BY <1>1, NoCallType DEF GraphInv, RequestsKnown, Known
<1>3. OneTransaction'
  BY <1>1, NoCallType DEF GraphInv, OneTransaction, Transaction
<1>4. QED
  BY <1>1, <1>2, <1>3

\* What a single write may do to the rows.
SingleChange ==
  /\ schemaRow' \in [Bundles -> [EntityTypes -> Origins \cup {None}]]
  /\ entityRow' \in [Bundles -> [Keys -> Origins \cup {None}]]
  /\ \A b \in Bundles, t \in EntityTypes :
       \/ schemaRow'[b][t] = schemaRow[b][t]
       \/ schemaRow'[b][t] = Single /\ bundleRow[b] # None
  /\ \A b \in Bundles, k \in Keys :
       \/ entityRow'[b][k] = entityRow[b][k]
       \/ entityRow'[b][k] = Single /\ schemaRow[b][k[1]] # None
       \/ entityRow'[b][k] = None /\ <<b, k>> \in removed'
  /\ removed \subseteq removed' /\ removed' \subseteq Bundles \X Keys

LEMMA SingleChangeInv ==
  ASSUME GraphInv, NEW r \in GraphRequests, Finish(r), SingleChange,
         UNCHANGED <<released, bundleRow>>
  PROVE  GraphInv'
<1>1. /\ request' \in [GraphRequests -> Call] /\ RequestsKnown' /\ OneTransaction'
      /\ \A q \in GraphRequests : request'[q] = IF q = r THEN NoCall ELSE request[q]
      /\ overlapped' \in BOOLEAN
  BY OverRequests
<1>2. \A k \in Keys : k[1] \in EntityTypes
  BY DEF Keys
<1>3. \A b \in Bundles :
        /\ bundleRow'[b] = None => \A t \in EntityTypes : schemaRow'[b][t] = None
        /\ \A k \in Keys : schemaRow'[b][k[1]] = None => entityRow'[b][k] = None
  <2> SUFFICES ASSUME NEW b \in Bundles
      PROVE /\ bundleRow'[b] = None => \A t \in EntityTypes : schemaRow'[b][t] = None
            /\ \A k \in Keys : schemaRow'[b][k[1]] = None => entityRow'[b][k] = None
    OBVIOUS
  <2>1. bundleRow'[b] = None => \A t \in EntityTypes : schemaRow'[b][t] = None
    BY DEF GraphInv, GraphTypeOK, SingleChange
  <2>2. ASSUME NEW k \in Keys, schemaRow'[b][k[1]] = None PROVE entityRow'[b][k] = None
    <3>1. schemaRow[b][k[1]] = None
      BY <1>2, <2>2, NoneIsNoOrigin DEF SingleChange, Origins
    <3>2. entityRow[b][k] = None
      BY <3>1 DEF GraphInv, GraphTypeOK
    <3>3. QED
      BY <3>1, <3>2 DEF SingleChange
  <2>3. QED
    BY <2>1, <2>2
<1>4. GraphTypeOK'
  BY <1>1, <1>3 DEF GraphInv, GraphTypeOK, SingleChange, Call
<1>5. BundlesKnown'
  BY DEF GraphInv, BundlesKnown
<1>6. ClearedBefore'
  <2> SUFFICES ASSUME NEW q \in GraphRequests, request'[q].pc = "insert",
                      NEW k \in Keys \ request'[q].cleared
      PROVE entityRow'[request'[q].bundle][k] \notin Releases
    BY DEF ClearedBefore, Cleared
  <2>1. request'[q] = request[q]
    BY <1>1, NoCallType
  <2>2. request[q].bundle \in Bundles
    BY <2>1 DEF GraphInv, RequestsKnown, Known, Applying, Transaction
  <2>3. entityRow[request[q].bundle][k] \notin Releases
    BY <2>1 DEF GraphInv, ClearedBefore, Cleared
  <2>4. k \in Keys
    OBVIOUS
  <2>5. entityRow'[request[q].bundle][k] \in {entityRow[request[q].bundle][k], Single, None}
    BY <2>2, <2>4 DEF SingleChange
  <2>6. QED
    BY <2>1, <2>3, <2>5, NoneIsNoOrigin
<1>7. ReleaseLandsWhole'
  <2> SUFFICES ASSUME NEW b \in Bundles, bundleRow'[b] # None
      PROVE LET v == bundleRow'[b]
                p == released'[v]
            IN  /\ \A t \in DOMAIN p.refs : schemaRow'[b][t] \in {v, Single}
                /\ \A k \in p.items : entityRow'[b][k] = None => <<b, k>> \in removed'
                /\ \A k \in Keys : entityRow'[b][k] \in Releases => entityRow'[b][k] = v /\ k \in p.items
    BY DEF ReleaseLandsWhole
  <2> DEFINE v == bundleRow[b]
             p == released[v]
  <2>1. /\ \A t \in DOMAIN p.refs : schemaRow[b][t] \in {v, Single}
        /\ \A k \in p.items : entityRow[b][k] = None => <<b, k>> \in removed
        /\ \A k \in Keys : entityRow[b][k] \in Releases => entityRow[b][k] = v /\ k \in p.items
    BY DEF GraphInv, ReleaseLandsWhole
  <2>2. p \in Payloads
    BY ReleaseTypes DEF GraphInv, BundlesKnown
  <2> HIDE DEF p, v
  <2>3. DOMAIN p.refs \subseteq EntityTypes /\ p.items \subseteq Keys
    BY <2>2, PayloadTypes
  <2>4. \A t \in DOMAIN p.refs : schemaRow'[b][t] \in {v, Single}
    BY <2>1, <2>3 DEF SingleChange
  <2>5. \A k \in p.items : entityRow'[b][k] = None => <<b, k>> \in removed'
    BY <2>1, <2>3, NoneIsNoOrigin DEF SingleChange, Origins
  <2>6. \A k \in Keys : entityRow'[b][k] \in Releases => entityRow'[b][k] = v /\ k \in p.items
    BY <2>1, NoneIsNoOrigin DEF SingleChange
  <2>7. QED
    BY <2>4, <2>5, <2>6 DEF v, p
<1>8. QED
  BY <1>1, <1>4, <1>5, <1>6, <1>7 DEF GraphInv

LEMMA SingleWriteInv ==
  ASSUME GraphInv, NEW r \in GraphRequests, UpsertEntity(r) \/ DeleteEntity(r) \/ UpsertSchema(r)
  PROVE  GraphInv'
<1> DEFINE b == request[r].bundle
           k == request[r].key
<1>1. Finish(r) /\ UNCHANGED <<released, bundleRow>>
  BY DEF UpsertEntity, DeleteEntity, UpsertSchema
<1>2. Known(request[r]) /\ Single \in Origins
  BY DEF GraphInv, RequestsKnown, Origins
<1>3. CASE UpsertEntity(r)
  <2>1. b \in Bundles /\ k \in Keys
    BY <1>2, <1>3 DEF UpsertEntity, Known, SingleWrite
  <2>2. UNCHANGED <<schemaRow, removed>>
    BY <1>3 DEF UpsertEntity
  <2>3. ASSUME entityRow' = entityRow PROVE SingleChange
    BY <2>2, <2>3 DEF SingleChange, GraphInv, GraphTypeOK
  <2>4. ASSUME schemaRow[b][k[1]] # None /\ entityRow' = [entityRow EXCEPT ![b][k] = Single] PROVE SingleChange
    <3>1. entityRow' = [entityRow EXCEPT ![b] = [entityRow[b] EXCEPT ![k] = Single]]
      BY <2>4
    <3>2. entityRow[b] \in [Keys -> Origins \cup {None}]
      BY <2>1 DEF GraphInv, GraphTypeOK
    <3> HIDE DEF b, k
    <3>3. [entityRow[b] EXCEPT ![k] = Single] \in [Keys -> Origins \cup {None}]
      BY <1>2, <3>2
    <3>4. entityRow' \in [Bundles -> [Keys -> Origins \cup {None}]]
      BY <3>1, <3>3 DEF GraphInv, GraphTypeOK
    <3>5. \A c \in Bundles, l \in Keys :
            entityRow'[c][l] = IF c = b /\ l = k THEN Single ELSE entityRow[c][l]
      BY <3>1, <3>2 DEF GraphInv, GraphTypeOK
    <3>6. QED
      BY <2>2, <2>4, <3>4, <3>5 DEF SingleChange, GraphInv, GraphTypeOK
  <2>5. QED
    BY <1>1, <1>3, <2>3, <2>4, SingleChangeInv DEF UpsertEntity
<1>4. CASE DeleteEntity(r)
  <2>1. b \in Bundles /\ k \in Keys
    BY <1>2, <1>4 DEF DeleteEntity, Known, SingleWrite
  <2>2. UNCHANGED schemaRow
    BY <1>4 DEF DeleteEntity
  <2>3. ASSUME UNCHANGED <<entityRow, removed>> PROVE SingleChange
    BY <2>2, <2>3 DEF SingleChange, GraphInv, GraphTypeOK
  <2>4. ASSUME entityRow' = [entityRow EXCEPT ![b][k] = None] /\ removed' = removed \cup {<<b, k>>} PROVE SingleChange
    <3>1. entityRow' = [entityRow EXCEPT ![b] = [entityRow[b] EXCEPT ![k] = None]]
      BY <2>4
    <3>2. entityRow[b] \in [Keys -> Origins \cup {None}]
      BY <2>1 DEF GraphInv, GraphTypeOK
    <3> HIDE DEF b, k
    <3>3. [entityRow[b] EXCEPT ![k] = None] \in [Keys -> Origins \cup {None}]
      BY <3>2
    <3>4. entityRow' \in [Bundles -> [Keys -> Origins \cup {None}]]
      BY <3>1, <3>3 DEF GraphInv, GraphTypeOK
    <3>5. \A c \in Bundles, l \in Keys :
            entityRow'[c][l] = IF c = b /\ l = k THEN None ELSE entityRow[c][l]
      BY <3>1, <3>2 DEF GraphInv, GraphTypeOK
    <3>6. removed' \subseteq Bundles \X Keys /\ removed \subseteq removed' /\ <<b, k>> \in removed'
      BY <2>1, <2>4 DEF GraphInv, GraphTypeOK
    <3>7. QED
      BY <2>2, <3>4, <3>5, <3>6 DEF SingleChange, GraphInv, GraphTypeOK
  <2>5. QED
    BY <1>1, <1>4, <2>3, <2>4, SingleChangeInv DEF DeleteEntity
<1>5. CASE UpsertSchema(r)
  <2>1. b \in Bundles /\ k \in EntityTypes
    BY <1>2, <1>5 DEF UpsertSchema, Known, SingleWrite
  <2>2. UNCHANGED <<entityRow, removed>>
    BY <1>5 DEF UpsertSchema
  <2>3. ASSUME schemaRow' = schemaRow PROVE SingleChange
    BY <2>2, <2>3 DEF SingleChange, GraphInv, GraphTypeOK
  <2>4. ASSUME bundleRow[b] # None /\ schemaRow' = [schemaRow EXCEPT ![b][k] = Single] PROVE SingleChange
    <3>1. schemaRow' = [schemaRow EXCEPT ![b] = [schemaRow[b] EXCEPT ![k] = Single]]
      BY <2>4
    <3>2. schemaRow[b] \in [EntityTypes -> Origins \cup {None}]
      BY <2>1 DEF GraphInv, GraphTypeOK
    <3> HIDE DEF b, k
    <3>3. [schemaRow[b] EXCEPT ![k] = Single] \in [EntityTypes -> Origins \cup {None}]
      BY <1>2, <3>2
    <3>4. schemaRow' \in [Bundles -> [EntityTypes -> Origins \cup {None}]]
      BY <3>1, <3>3 DEF GraphInv, GraphTypeOK
    <3>5. \A c \in Bundles, l \in EntityTypes :
            schemaRow'[c][l] = IF c = b /\ l = k THEN Single ELSE schemaRow[c][l]
      BY <3>1, <3>2 DEF GraphInv, GraphTypeOK
    <3>6. QED
      BY <2>2, <2>4, <3>4, <3>5 DEF SingleChange, GraphInv, GraphTypeOK
  <2>5. QED
    BY <1>1, <1>5, <2>3, <2>4, SingleChangeInv DEF UpsertSchema
<1>6. QED
  BY <1>3, <1>4, <1>5

\* Nobody else is in the transaction of the bundle an application writes.
LEMMA AloneInBundle ==
  ASSUME GraphInv, NEW r \in GraphRequests, request[r].pc = "insert",
         NEW q \in GraphRequests \ {r}, request[q].pc = "insert"
  PROVE  request[q].bundle \in Bundles \ {request[r].bundle}
<1>1. request[q].bundle \in Bundles
  BY DEF GraphInv, RequestsKnown, Known, Applying, Transaction
<1>2. request[q].bundle # request[r].bundle
  BY DEF GraphInv, OneTransaction, Transaction
<1>3. QED
  BY <1>1, <1>2

\* Other bundles stay as they are when the rows of one are written.
LEMMA OtherBundles ==
  ASSUME GraphInv, NEW b \in Bundles, NEW c \in Bundles, c # b, released' = released,
         bundleRow'[c] = bundleRow[c], schemaRow'[c] = schemaRow[c], entityRow'[c] = entityRow[c],
         removed' = {z \in removed : z[1] # b}, bundleRow'[c] # None
  PROVE  LET v == bundleRow'[c]
             p == released'[v]
         IN  /\ \A t \in DOMAIN p.refs : schemaRow'[c][t] \in {v, Single}
             /\ \A k \in p.items : entityRow'[c][k] = None => <<c, k>> \in removed'
             /\ \A k \in Keys : entityRow'[c][k] \in Releases => entityRow'[c][k] = v /\ k \in p.items
BY DEF GraphInv, ReleaseLandsWhole

\* The commit of an application.
LEMMA InsertEntitiesInv ==
  ASSUME GraphInv, NEW r \in GraphRequests, InsertEntities(r)
  PROVE  GraphInv'
<1> DEFINE b == request[r].bundle
           v == request[r].release
           cleared == request[r].cleared
           p == released[v]
<1>1. Finish(r) /\ released' = released /\ request[r].pc = "insert"
  BY DEF InsertEntities
<1>2. CASE UNCHANGED rows
  BY <1>1, <1>2, ProceedInv
<1>3. CASE /\ bundleRow' = [bundleRow EXCEPT ![b] = v]
           /\ schemaRow' = [schemaRow EXCEPT ![b] = WrittenSchemas(b, v)]
           /\ entityRow' = [entityRow EXCEPT ![b] = WrittenEntities(b, v, cleared)]
           /\ removed' = {z \in removed : z[1] # b}
  <2>1. b \in Bundles /\ v \in 1..Len(released) /\ cleared \in SUBSET Keys
    BY <1>1, CallTypes DEF GraphInv, RequestsKnown, Known, Applying, Transaction, Call
  <2>2. p \in Payloads /\ v \in Releases /\ v \in Origins /\ v # None
    BY <2>1, ReleaseTypes DEF GraphInv, Origins
  <2>3. /\ DOMAIN p.refs \subseteq EntityTypes /\ p.items \subseteq Keys
        /\ \A k \in p.items : k[1] \in DOMAIN p.refs
    BY <2>2, PayloadTypes
  <2>4. \A k \in Keys \ cleared : entityRow[b][k] \notin Releases
    BY <1>1 DEF GraphInv, ClearedBefore, Cleared
  <2>5. /\ request' \in [GraphRequests -> Call] /\ RequestsKnown' /\ OneTransaction'
        /\ \A q \in GraphRequests : request'[q] = IF q = r THEN NoCall ELSE request[q]
        /\ overlapped' \in BOOLEAN
    BY <1>1, OverRequests
  <2>6. \A q \in GraphRequests : request'[q].pc = "insert" =>
          request'[q] = request[q] /\ request[q].bundle \in Bundles \ {b}
    BY <1>1, <2>5, NoCallType, AloneInBundle
  <2>7. /\ WrittenSchemas(b, v) \in [EntityTypes -> Origins \cup {None}]
        /\ \A t \in EntityTypes : WrittenSchemas(b, v)[t] =
             IF t \in DOMAIN p.refs THEN v ELSE schemaRow[b][t]
    BY <2>1, <2>2 DEF WrittenSchemas, GraphInv, GraphTypeOK
  <2>8. /\ WrittenEntities(b, v, cleared) \in [Keys -> Origins \cup {None}]
        /\ \A k \in Keys : WrittenEntities(b, v, cleared)[k] =
             IF k \in p.items THEN v ELSE IF k \in cleared THEN None ELSE entityRow[b][k]
    BY <2>1, <2>2 DEF WrittenEntities, GraphInv, GraphTypeOK
  <2> HIDE DEF b, v, cleared, p
  <2>9. /\ bundleRow' \in [Bundles -> Releases \cup {None}]
        /\ schemaRow' \in [Bundles -> [EntityTypes -> Origins \cup {None}]]
        /\ entityRow' \in [Bundles -> [Keys -> Origins \cup {None}]]
        /\ removed' \subseteq Bundles \X Keys
    BY <1>3, <2>1, <2>2, <2>7, <2>8 DEF GraphInv, GraphTypeOK
  <2>10. /\ bundleRow'[b] = v /\ schemaRow'[b] = WrittenSchemas(b, v)
         /\ entityRow'[b] = WrittenEntities(b, v, cleared)
         /\ \A c \in Bundles \ {b} : /\ bundleRow'[c] = bundleRow[c]
                                     /\ schemaRow'[c] = schemaRow[c]
                                     /\ entityRow'[c] = entityRow[c]
    BY <1>3, <2>1 DEF GraphInv, GraphTypeOK
  <2>11. \A c \in Bundles :
           /\ bundleRow'[c] = None => \A t \in EntityTypes : schemaRow'[c][t] = None
           /\ \A k \in Keys : schemaRow'[c][k[1]] = None => entityRow'[c][k] = None
    <3> SUFFICES ASSUME NEW c \in Bundles
        PROVE /\ bundleRow'[c] = None => \A t \in EntityTypes : schemaRow'[c][t] = None
              /\ \A k \in Keys : schemaRow'[c][k[1]] = None => entityRow'[c][k] = None
      OBVIOUS
    <3>1. CASE c # b
      BY <3>1, <2>10 DEF GraphInv, GraphTypeOK
    <3>2. CASE c = b
      <4>1. bundleRow'[c] # None
        BY <3>2, <2>2, <2>10
      <4>2. ASSUME NEW k \in Keys, schemaRow'[c][k[1]] = None PROVE entityRow'[c][k] = None
        <5>1. k[1] \in EntityTypes
          BY DEF Keys
        <5>2. k[1] \notin DOMAIN p.refs /\ schemaRow[b][k[1]] = None
          BY <3>2, <4>2, <5>1, <2>2, <2>7, <2>10
        <5>3. k \notin p.items /\ entityRow[b][k] = None
          BY <5>2, <2>1, <2>3 DEF GraphInv, GraphTypeOK
        <5>4. QED
          BY <3>2, <5>3, <2>8, <2>10
      <4>3. QED
        BY <4>1, <4>2
    <3>3. QED
      BY <3>1, <3>2
  <2>12. GraphTypeOK'
    BY <1>1, <2>5, <2>9, <2>11 DEF GraphInv, GraphTypeOK, Call
  <2>13. BundlesKnown'
    BY <1>1, <2>1, <2>10 DEF GraphInv, BundlesKnown
  <2>14. ClearedBefore'
    <3> SUFFICES ASSUME NEW q \in GraphRequests, request'[q].pc = "insert",
                        NEW k \in Keys \ request'[q].cleared
        PROVE entityRow'[request'[q].bundle][k] \notin Releases
      BY DEF ClearedBefore, Cleared
    <3>1. request'[q] = request[q] /\ request[q].bundle \in Bundles \ {b}
      BY <2>6
    <3>2. entityRow'[request[q].bundle] = entityRow[request[q].bundle]
      BY <3>1, <2>10
    <3>3. QED
      BY <3>1, <3>2 DEF GraphInv, ClearedBefore, Cleared
  <2>15. ReleaseLandsWhole'
    <3> SUFFICES ASSUME NEW c \in Bundles, bundleRow'[c] # None
        PROVE LET w == bundleRow'[c]
                  o == released'[w]
              IN  /\ \A t \in DOMAIN o.refs : schemaRow'[c][t] \in {w, Single}
                  /\ \A k \in o.items : entityRow'[c][k] = None => <<c, k>> \in removed'
                  /\ \A k \in Keys : entityRow'[c][k] \in Releases => entityRow'[c][k] = w /\ k \in o.items
      BY DEF ReleaseLandsWhole
    <3>1. CASE c # b
      BY <1>1, <1>3, <2>1, <2>10, <3>1, OtherBundles DEF b
    <3>2. CASE c = b
      <4>1. bundleRow'[c] = v /\ released'[v] = p
        BY <1>1, <2>10, <3>2 DEF p
      <4>2. \A t \in DOMAIN p.refs : schemaRow'[c][t] = v
        BY <2>3, <2>7, <2>10, <3>2
      <4>3. \A k \in p.items : entityRow'[c][k] # None
        BY <2>2, <2>3, <2>8, <2>10, <3>2
      <4>4. \A k \in Keys : entityRow'[c][k] \in Releases => entityRow'[c][k] = v /\ k \in p.items
        BY <2>4, <2>8, <2>10, <3>2, NoneIsNoOrigin
      <4>5. QED
        BY <4>1, <4>2, <4>3, <4>4
    <3>3. QED
      BY <3>1, <3>2
  <2>16. QED
    BY <2>5, <2>12, <2>13, <2>14, <2>15 DEF GraphInv
<1>4. QED
  BY <1>2, <1>3 DEF InsertEntities

LEMMA DeleteBundleInv ==
  ASSUME GraphInv, NEW r \in GraphRequests, DeleteBundle(r)
  PROVE  GraphInv'
<1> DEFINE b == request[r].bundle
<1>1. Finish(r) /\ released' = released /\ request[r].pc = "drop"
  BY DEF DeleteBundle
<1>2. /\ bundleRow' = [bundleRow EXCEPT ![b] = None]
      /\ schemaRow' = [schemaRow EXCEPT ![b] = [t \in EntityTypes |-> None]]
      /\ entityRow' = [entityRow EXCEPT ![b] = [k \in Keys |-> None]]
      /\ removed' = {z \in removed : z[1] # b}
  BY DEF DeleteBundle
<1>3. b \in Bundles
  BY <1>1 DEF GraphInv, RequestsKnown, Known, SingleWrite
<1>4. /\ request' \in [GraphRequests -> Call] /\ RequestsKnown' /\ OneTransaction'
      /\ \A q \in GraphRequests : request'[q] = IF q = r THEN NoCall ELSE request[q]
      /\ overlapped' \in BOOLEAN
  BY <1>1, OverRequests
<1> HIDE DEF b
<1>5. /\ bundleRow' \in [Bundles -> Releases \cup {None}]
      /\ schemaRow' \in [Bundles -> [EntityTypes -> Origins \cup {None}]]
      /\ entityRow' \in [Bundles -> [Keys -> Origins \cup {None}]]
      /\ removed' \subseteq Bundles \X Keys
  BY <1>2, <1>3 DEF GraphInv, GraphTypeOK
<1>6. /\ bundleRow'[b] = None /\ (\A t \in EntityTypes : schemaRow'[b][t] = None)
      /\ \A k \in Keys : entityRow'[b][k] = None
      /\ \A c \in Bundles \ {b} : /\ bundleRow'[c] = bundleRow[c]
                                  /\ schemaRow'[c] = schemaRow[c]
                                  /\ entityRow'[c] = entityRow[c]
  BY <1>2, <1>3 DEF GraphInv, GraphTypeOK
<1>7. GraphTypeOK'
  <2>1. \A c \in Bundles :
          /\ bundleRow'[c] = None => \A t \in EntityTypes : schemaRow'[c][t] = None
          /\ \A k \in Keys : schemaRow'[c][k[1]] = None => entityRow'[c][k] = None
    BY <1>6 DEF GraphInv, GraphTypeOK
  <2>2. QED
    BY <1>1, <1>4, <1>5, <2>1 DEF GraphInv, GraphTypeOK, Call
<1>8. BundlesKnown'
  BY <1>1, <1>6 DEF GraphInv, BundlesKnown
<1>9. ClearedBefore'
  <2> SUFFICES ASSUME NEW q \in GraphRequests, request'[q].pc = "insert",
                      NEW k \in Keys \ request'[q].cleared
      PROVE entityRow'[request'[q].bundle][k] \notin Releases
    BY DEF ClearedBefore, Cleared
  <2>1. request'[q] = request[q]
    BY <1>4, NoCallType
  <2>2. request[q].bundle \in Bundles
    BY <2>1 DEF GraphInv, RequestsKnown, Known, Applying, Transaction
  <2>3. entityRow[request[q].bundle][k] \notin Releases
    BY <2>1 DEF GraphInv, ClearedBefore, Cleared
  <2>4. entityRow'[request[q].bundle][k] \in {entityRow[request[q].bundle][k], None}
    BY <1>6, <2>2
  <2>5. QED
    BY <2>1, <2>3, <2>4, NoneIsNoOrigin
<1>10. ReleaseLandsWhole'
  <2> SUFFICES ASSUME NEW c \in Bundles, bundleRow'[c] # None
      PROVE LET w == bundleRow'[c]
                o == released'[w]
            IN  /\ \A t \in DOMAIN o.refs : schemaRow'[c][t] \in {w, Single}
                /\ \A k \in o.items : entityRow'[c][k] = None => <<c, k>> \in removed'
                /\ \A k \in Keys : entityRow'[c][k] \in Releases => entityRow'[c][k] = w /\ k \in o.items
    BY DEF ReleaseLandsWhole
  <2>1. c # b
    BY <1>6
  <2>2. QED
    BY <1>1, <1>2, <1>3, <1>6, <2>1, OtherBundles
<1>11. QED
  BY <1>4, <1>7, <1>8, <1>9, <1>10 DEF GraphInv

-----------------------------------------------------------------------------

LEMMA GraphInitInv == GraphInit => GraphInv
<1> SUFFICES ASSUME GraphInit PROVE GraphInv
  OBVIOUS
<1>1. \A r \in GraphRequests : request[r] = NoCall
  BY DEF GraphInit
<1>2. GraphTypeOK
  <2>1. request \in [GraphRequests -> Call]
    BY NoCallType DEF GraphInit
  <2>2. released \in Seq(Payloads) /\ Len(released) <= MaxReleases
    BY GraphAssumption DEF GraphInit
  <2>3. QED
    BY <2>1, <2>2 DEF GraphInit, GraphTypeOK, Call, Keys
<1>3. RequestsKnown /\ OneTransaction /\ ClearedBefore
  BY <1>1, NoCallType DEF RequestsKnown, OneTransaction, ClearedBefore, Cleared, Transaction
<1>4. BundlesKnown /\ ReleaseLandsWhole
  BY DEF GraphInit, BundlesKnown, ReleaseLandsWhole
<1>5. QED
  BY <1>2, <1>3, <1>4 DEF GraphInv

LEMMA ApplicationInv ==
  ASSUME GraphInv, NEW r \in GraphRequests,
         \/ ValidateCrossRefs(r) \/ Detect(r) \/ UpsertBundle(r) \/ UpsertSchemas(r) \/ Fail(r)
  PROVE  GraphInv'
<1>1. UNCHANGED <<released, rows>>
  BY DEF ValidateCrossRefs, Detect, UpsertBundle, UpsertSchemas, Fail
<1>2. CASE ValidateCrossRefs(r) \/ Detect(r) \/ Fail(r)
  BY <1>1, <1>2, ProceedInv DEF ValidateCrossRefs, Detect, Fail
<1>3. CASE UpsertBundle(r)
  BY <1>1, <1>3, ProceedInv DEF UpsertBundle
<1>4. CASE UpsertSchemas(r)
  BY <1>1, <1>4, ProceedInv DEF UpsertSchemas
<1>5. QED
  BY <1>2, <1>3, <1>4

LEMMA GraphStepInv == GraphInv /\ [GraphNext]_graphVars => GraphInv'
<1> SUFFICES ASSUME GraphInv, [GraphNext]_graphVars PROVE GraphInv'
  OBVIOUS
<1>1. CASE UNCHANGED graphVars
  BY <1>1 DEF graphVars, GraphInv, GraphTypeOK, RequestsKnown, Known, BundlesKnown,
              OneTransaction, ClearedBefore, Cleared, ReleaseLandsWhole
<1>2. CASE GraphNext
  <2>1. PICK r \in GraphRequests :
          \/ \E b \in Bundles : Apply(r, b) \/ ReadForDrop(r, b)
          \/ \E b \in Bundles, k \in Keys : ReadForUpsert(r, b, k) \/ ReadForDelete(r, b, k)
          \/ \E b \in Bundles, t \in EntityTypes : ReadForSchema(r, b, t)
          \/ ValidateCrossRefs(r) \/ Detect(r) \/ UpsertBundle(r) \/ UpsertSchemas(r)
          \/ ClearEntities(r) \/ InsertEntities(r) \/ UpsertEntity(r) \/ DeleteEntity(r)
          \/ UpsertSchema(r) \/ DeleteBundle(r) \/ Fail(r)
    BY <1>2 DEF GraphNext
  <2>2. QED
    BY <2>1, ApplyInv, ReadInv, ApplicationInv, ClearEntitiesInv, InsertEntitiesInv,
       SingleWriteInv, DeleteBundleInv
<1>3. QED
  BY <1>1, <1>2

\* All entities of a bundle, and the schemas of the types its release names, are of that
\* release but for what single writes changed since, whatever overlapped or failed
\* (kgapply.Execute, ReplaceEntities, kgmutate).
THEOREM LandsWhole == GraphSpec => []ReleaseLandsWhole
<1>1. GraphInv => ReleaseLandsWhole
  BY DEF GraphInv
<1>2. QED
  BY <1>1, GraphInitInv, GraphStepInv, PTL DEF GraphSpec

\* No entity is without its schema and no schema without its bundle, whatever requests
\* overlap or fail, and the rows keep their types (kgapply, kgmutate).
THEOREM EntitiesHaveSchema == GraphSpec => []GraphTypeOK
<1>1. GraphInv => GraphTypeOK
  BY DEF GraphInv
<1>2. QED
  BY <1>1, GraphInitInv, GraphStepInv, PTL DEF GraphSpec

-----------------------------------------------------------------------------
(***************************************************************************)
(* As long as no two requests overlap, the checks made before the          *)
(* transaction of an application still hold when it writes: the invariant  *)
(* says of the one request under way what its checks have found so far.    *)
(***************************************************************************)

ReferencesKnown(call) ==
  LET refs == released[call.release].refs
  IN  \A t \in DOMAIN refs : refs[t] \subseteq (DOMAIN refs) \cup TypesOf(call.bundle)
NamesFree(call) ==
  (DOMAIN released[call.release].refs) \cap TypesElsewhere(call.bundle) = {}

\* What a call has checked is so.
Checked(call) ==
  /\ call.pc \in {"names", "bundle"} \cup Transaction => ReferencesKnown(call)
  /\ call.pc \in {"bundle"} \cup Transaction => NamesFree(call)
  /\ call.pc = "schema" => call.key \notin TypesElsewhere(call.bundle)
ChecksHold == ~overlapped => \A r \in GraphRequests : Checked(request[r])

OneRequest ==
  ~overlapped =>
    \A r, q \in GraphRequests : request[r].pc # "idle" /\ request[q].pc # "idle" => r = q

\* A schema that came with a release is one of it.
SchemasKnown ==
  \A b \in Bundles, t \in EntityTypes : schemaRow[b][t] \in Releases =>
    /\ schemaRow[b][t] \in 1..Len(released)
    /\ t \in DOMAIN released[schemaRow[b][t]].refs

GateInv == SchemasKnown /\ OneRequest /\ ChecksHold /\ GatesHoldAlone

\* A request goes on with another call, having checked what that call wants checked.
LEMMA CheckedMoves ==
  ASSUME GraphInv, GateInv, NEW r \in GraphRequests, NEW call,
         request' = [request EXCEPT ![r] = call], UNCHANGED <<released, rows>>,
         ~overlapped' => ~overlapped /\ \A q \in GraphRequests \ {r} : request[q].pc = "idle",
         Checked(call)
  PROVE  GateInv'
<1>1. \A q \in GraphRequests : request'[q] = IF q = r THEN call ELSE request[q]
  BY CallTypes DEF GraphInv
<1>2. UNCHANGED <<released, schemaRow>>
  BY DEF rows
<1>3. SchemasKnown'
  BY <1>2 DEF GateInv, SchemasKnown
<1>4. OneRequest'
  BY <1>1 DEF OneRequest
<1>5. ChecksHold'
  <2>1. ~overlapped' => \A q \in GraphRequests : Checked(request'[q])
    BY <1>1 DEF GateInv, ChecksHold
  <2>2. QED
    BY <1>2, <2>1 DEF ChecksHold, Checked, ReferencesKnown, NamesFree, TypesOf, TypesElsewhere
<1>6. GatesHoldAlone'
  BY <1>2 DEF GateInv, GatesHoldAlone, TypesOf, TypesElsewhere
<1>7. QED
  BY <1>3, <1>4, <1>5, <1>6 DEF GateInv

\* A request ends; if nothing overlapped it was the only one.
LEMMA CheckedEnds ==
  ASSUME GraphInv, GateInv, NEW r \in GraphRequests, request[r].pc # "idle", Finish(r),
         SchemasKnown', GatesHoldAlone'
  PROVE  GateInv'
<1>1. /\ overlapped' = overlapped
      /\ \A q \in GraphRequests : request'[q] = IF q = r THEN NoCall ELSE request[q]
  BY CallTypes DEF Finish, GraphInv
<1>2. ~overlapped => \A q \in GraphRequests : request'[q].pc = "idle"
  BY <1>1, NoCallType DEF GateInv, OneRequest
<1>3. OneRequest'
  BY <1>1, <1>2 DEF OneRequest
<1>4. ChecksHold'
  BY <1>1, <1>2 DEF ChecksHold, Checked, Transaction
<1>5. QED
  BY <1>3, <1>4 DEF GateInv

\* A call begins: of what it reads only a free name has to stay as it was.
LEMMA BeginGates ==
  ASSUME GraphInv, GateInv, NEW r \in GraphRequests, NEW call \in Call, Begin(r, call),
         call.pc \in SingleWrite, UNCHANGED <<released, rows>>,
         call.pc = "schema" => call.key \notin TypesElsewhere(call.bundle)
  PROVE  GateInv'
<1>1. request' = [request EXCEPT ![r] = call]
  BY DEF Begin
<1>2. ~overlapped' => ~overlapped /\ \A q \in GraphRequests \ {r} : request[q].pc = "idle"
  BY DEF Begin
<1>3. Checked(call)
  BY DEF Checked, SingleWrite, Transaction
<1>4. QED
  BY <1>1, <1>2, <1>3, CheckedMoves

LEMMA ReadGates ==
  ASSUME GraphInv, GateInv, NEW r \in GraphRequests, NEW b \in Bundles,
         \/ \E k \in Keys : ReadForUpsert(r, b, k) \/ ReadForDelete(r, b, k)
         \/ \E t \in EntityTypes : ReadForSchema(r, b, t)
         \/ ReadForDrop(r, b)
  PROVE  GateInv'
<1>1. ASSUME NEW k \in Keys, ReadForUpsert(r, b, k) PROVE GateInv'
  <2> DEFINE call == [NoCall EXCEPT !.pc = "upsert", !.bundle = b, !.key = k]
  <2>1. call \in Call /\ call.pc = "upsert" /\ call.pc \in SingleWrite
    BY DEF NoCall, Call, Origins, SingleWrite
  <2>2. Begin(r, call) /\ UNCHANGED <<released, rows>>
    BY <1>1 DEF ReadForUpsert
  <2> HIDE DEF call
  <2>3. QED
    BY <2>1, <2>2, BeginGates
<1>2. ASSUME NEW k \in Keys, ReadForDelete(r, b, k) PROVE GateInv'
  <2> DEFINE call == [NoCall EXCEPT !.pc = "delete", !.bundle = b, !.key = k,
                                    !.read = entityRow[b][k]]
  <2>1. entityRow[b][k] \in Origins \cup {None}
    BY DEF GraphInv, GraphTypeOK
  <2>2. call \in Call /\ call.pc = "delete" /\ call.pc \in SingleWrite
    BY <2>1 DEF NoCall, Call, Origins, SingleWrite
  <2>3. Begin(r, call) /\ UNCHANGED <<released, rows>>
    BY <1>2 DEF ReadForDelete
  <2> HIDE DEF call
  <2>4. QED
    BY <2>2, <2>3, BeginGates
<1>3. ASSUME NEW t \in EntityTypes, ReadForSchema(r, b, t) PROVE GateInv'
  <2> DEFINE call == [NoCall EXCEPT !.pc = "schema", !.bundle = b, !.key = t]
  <2>1. call \in Call /\ call.bundle = b /\ call.key = t /\ call.pc \in SingleWrite
    BY DEF NoCall, Call, Origins, SingleWrite
  <2>2. Begin(r, call) /\ UNCHANGED <<released, rows>> /\ t \notin TypesElsewhere(b)
    BY <1>3 DEF ReadForSchema
  <2> HIDE DEF call
  <2>3. QED
    BY <2>1, <2>2, BeginGates
<1>4. ASSUME ReadForDrop(r, b) PROVE GateInv'
  <2> DEFINE call == [NoCall EXCEPT !.pc = "drop", !.bundle = b]
  <2>1. call \in Call /\ call.pc = "drop" /\ call.pc \in SingleWrite
    BY DEF NoCall, Call, Origins, SingleWrite
  <2>2. Begin(r, call) /\ UNCHANGED <<released, rows>>
    BY <1>4 DEF ReadForDrop
  <2> HIDE DEF call
  <2>3. QED
    BY <2>1, <2>2, BeginGates
<1>5. QED
  BY <1>1, <1>2, <1>3, <1>4

\* A new release is added behind those that rows and calls name.
LEMMA ApplyGates ==
  ASSUME GraphInv, GateInv, NEW r \in GraphRequests, NEW b \in Bundles, Apply(r, b)
  PROVE  GateInv'
<1> DEFINE call == [NoCall EXCEPT !.pc = "refs", !.bundle = b, !.release = Len(released) + 1]
<1>1. /\ UNCHANGED <<bundleRow, schemaRow, entityRow, removed>>
      /\ request' = [request EXCEPT ![r] = call] /\ call.pc = "refs"
      /\ ~overlapped' => ~overlapped /\ \A q \in GraphRequests : request[q].pc = "idle"
  BY DEF Apply, Begin, NoCall, rows
<1>2. PICK p \in Payloads : released' = Append(released, p)
  BY DEF Apply
<1>3. released \in Seq(Payloads) /\ Len(released) \in Nat
  BY DEF GraphInv, GraphTypeOK
<1>4. /\ Len(released') = Len(released) + 1
      /\ \A w \in 1..Len(released) : released'[w] = released[w]
  BY <1>2, <1>3
<1> HIDE DEF call
<1>5. \A q \in GraphRequests : request'[q] = IF q = r THEN call ELSE request[q]
  BY <1>1, CallTypes DEF GraphInv
<1>6. SchemasKnown'
  BY <1>1, <1>3, <1>4 DEF GateInv, SchemasKnown
<1>7. OneRequest'
  BY <1>1, <1>5 DEF OneRequest
<1>8. ChecksHold'
  BY <1>1, <1>5 DEF ChecksHold, Checked, Transaction
<1>9. GatesHoldAlone'
  <2> SUFFICES ASSUME ~overlapped, NEW c \in Bundles
      PROVE /\ TypesOf(c) \cap TypesElsewhere(c) = {}
            /\ \A t \in TypesOf(c) :
                 schemaRow[c][t] # Single => released'[schemaRow[c][t]].refs[t] \subseteq TypesOf(c)
    BY <1>1 DEF GatesHoldAlone, TypesOf, TypesElsewhere
  <2>1. \A t \in TypesOf(c) : schemaRow[c][t] # Single => schemaRow[c][t] \in 1..Len(released)
    BY DEF TypesOf, GraphInv, GraphTypeOK, Origins, GateInv, SchemasKnown
  <2>2. QED
    BY <1>4, <2>1 DEF GateInv, GatesHoldAlone
<1>10. QED
  BY <1>6, <1>7, <1>8, <1>9 DEF GateInv

\* A request that goes on has checked what its next step wants checked.
LEMMA ProceedGates ==
  ASSUME GraphInv, GateInv, NEW r \in GraphRequests, UNCHANGED <<released, rows, overlapped>>,
         request[r].pc # "idle", NEW step, NEW cleared,
         request' = [request EXCEPT ![r] = [request[r] EXCEPT !.pc = step, !.cleared = cleared]],
         ~overlapped => Checked([request[r] EXCEPT !.pc = step, !.cleared = cleared])
  PROVE  GateInv'
<1> DEFINE call == [request[r] EXCEPT !.pc = step, !.cleared = cleared]
<1>1. \A q \in GraphRequests : request'[q] = IF q = r THEN call ELSE request[q]
  BY CallTypes DEF GraphInv
<1>2. ~overlapped' => \A q \in GraphRequests : Checked(request'[q])
  BY <1>1 DEF GateInv, ChecksHold
<1> HIDE DEF call
<1>3. UNCHANGED <<released, schemaRow, overlapped>>
  BY DEF rows
<1>4. OneRequest'
  BY <1>1, <1>3 DEF GateInv, OneRequest
<1>5. ChecksHold'
  BY <1>2, <1>3 DEF ChecksHold, Checked, ReferencesKnown, NamesFree, TypesOf, TypesElsewhere
<1>6. SchemasKnown' /\ GatesHoldAlone'
  BY <1>3 DEF GateInv, SchemasKnown, GatesHoldAlone, TypesOf, TypesElsewhere
<1>7. QED
  BY <1>4, <1>5, <1>6 DEF GateInv

\* The two checks of an application, and its transaction up to the commit.
LEMMA ApplicationGates ==
  ASSUME GraphInv, GateInv, NEW r \in GraphRequests,
         \/ ValidateCrossRefs(r) \/ Detect(r) \/ UpsertBundle(r) \/ UpsertSchemas(r)
         \/ ClearEntities(r) \/ Fail(r)
  PROVE  GateInv'
<1>1. UNCHANGED <<released, rows>> /\ request[r].pc # "idle"
  BY DEF ValidateCrossRefs, Detect, UpsertBundle, UpsertSchemas, ClearEntities, Fail
<1>2. ASSUME Finish(r) PROVE GateInv'
  <2>1. SchemasKnown' /\ GatesHoldAlone'
    BY <1>1, <1>2 DEF rows, Finish, GateInv, SchemasKnown, GatesHoldAlone, TypesOf, TypesElsewhere
  <2>2. QED
    BY <1>1, <1>2, <2>1, CheckedEnds
<1>3. ASSUME NEW step, Proceed(r, step),
             ~overlapped => Checked([request[r] EXCEPT !.pc = step])
      PROVE  GateInv'
  <2>1. /\ [request[r] EXCEPT !.pc = step]
             = [request[r] EXCEPT !.pc = step, !.cleared = request[r].cleared]
        /\ UNCHANGED overlapped
    BY <1>3, CallTypes DEF GraphInv, Call, Proceed
  <2>2. request' = [request EXCEPT ![r] = [request[r] EXCEPT !.pc = step]]
    BY <1>3, CallTypes DEF GraphInv, Proceed
  <2>3. PICK cleared : cleared = request[r].cleared
    OBVIOUS
  <2>4. QED
    BY <1>1, <1>3, <2>1, <2>2, <2>3, ProceedGates
<1>4. ~overlapped => Checked(request[r])
  BY DEF GateInv, ChecksHold
<1>5. \A step : /\ [request[r] EXCEPT !.pc = step].pc = step
                /\ [request[r] EXCEPT !.pc = step].release = request[r].release
                /\ [request[r] EXCEPT !.pc = step].bundle = request[r].bundle
  BY CallTypes DEF GraphInv, Call
<1>6. CASE ValidateCrossRefs(r)
  <2>1. CASE Proceed(r, "names") /\ ReferencesKnown(request[r])
    <3>1. Checked([request[r] EXCEPT !.pc = "names"])
      BY <1>5, <2>1 DEF Checked, ReferencesKnown, Transaction
    <3>2. QED
      BY <1>3, <2>1, <3>1
  <2>2. QED
    BY <1>2, <1>6, <2>1 DEF ValidateCrossRefs, ReferencesKnown, Payload
<1>7. CASE Detect(r)
  <2>1. CASE Proceed(r, "bundle") /\ NamesFree(request[r])
    <3>1. ~overlapped => Checked([request[r] EXCEPT !.pc = "bundle"])
      BY <1>4, <1>5, <1>7, <2>1 DEF Detect, Checked, ReferencesKnown, NamesFree, Transaction
    <3>2. QED
      BY <1>3, <2>1, <3>1
  <2>2. QED
    BY <1>2, <1>7, <2>1 DEF Detect, NamesFree, Payload
<1>8. CASE UpsertBundle(r)
  <2>1. ~overlapped => Checked([request[r] EXCEPT !.pc = "schemas"])
    BY <1>4, <1>5, <1>8 DEF UpsertBundle, Checked, ReferencesKnown, NamesFree, Transaction
  <2>2. QED
    BY <1>3, <1>8, <2>1 DEF UpsertBundle
<1>9. CASE UpsertSchemas(r)
  <2>1. ~overlapped => Checked([request[r] EXCEPT !.pc = "clear"])
    BY <1>4, <1>5, <1>9 DEF UpsertSchemas, Checked, ReferencesKnown, NamesFree, Transaction
  <2>2. QED
    BY <1>3, <1>9, <2>1 DEF UpsertSchemas
<1>10. CASE ClearEntities(r)
  <2>1. PICK cleared : cleared = {k \in Keys : entityRow[request[r].bundle][k] # None}
    OBVIOUS
  <2>2. /\ request' = [request EXCEPT ![r].pc = "insert", ![r].cleared = cleared]
        /\ request[r].pc = "clear" /\ UNCHANGED overlapped
    BY <1>10, <2>1 DEF ClearEntities
  <2>3. request' = [request EXCEPT ![r] = [request[r] EXCEPT !.pc = "insert", !.cleared = cleared]]
    BY <2>2, CallTypes DEF GraphInv
  <2> DEFINE call == [request[r] EXCEPT !.pc = "insert", !.cleared = cleared]
  <2>4. call.pc = "insert" /\ call.release = request[r].release /\ call.bundle = request[r].bundle
    BY CallTypes DEF GraphInv, Call
  <2> HIDE DEF call
  <2>5. ~overlapped => Checked(call)
    BY <1>4, <2>2, <2>4 DEF Checked, ReferencesKnown, NamesFree, Transaction
  <2>6. QED
    BY <1>1, <2>2, <2>3, <2>5, ProceedGates DEF call
<1>11. CASE Fail(r)
  BY <1>2, <1>11 DEF Fail
<1>12. QED
  BY <1>6, <1>7, <1>8, <1>9, <1>10, <1>11

\* A single write ends: schemas only gain types whose name was free, and those are single.
LEMMA SingleGates ==
  ASSUME GraphInv, GateInv, NEW r \in GraphRequests, Finish(r), released' = released,
         request[r].pc # "idle",
         \A b \in Bundles, t \in EntityTypes :
           \/ schemaRow'[b][t] = schemaRow[b][t]
           \/ schemaRow'[b][t] = Single /\ (~overlapped => t \notin TypesElsewhere(b))
         , schemaRow' \in [Bundles -> [EntityTypes -> Origins \cup {None}]],
         \A b, c \in Bundles, t, u \in EntityTypes :
           schemaRow'[b][t] # schemaRow[b][t] /\ schemaRow'[c][u] # schemaRow[c][u] => b = c
  PROVE  GateInv'
<1>1. SchemasKnown'
  BY NoneIsNoOrigin DEF GateInv, SchemasKnown
<1>2. GatesHoldAlone'
  <2> SUFFICES ASSUME ~overlapped, NEW b \in Bundles
      PROVE /\ TypesOf(b)' \cap TypesElsewhere(b)' = {}
            /\ \A t \in TypesOf(b)' :
                 schemaRow'[b][t] # Single => released[schemaRow'[b][t]].refs[t] \subseteq TypesOf(b)'
    BY DEF GatesHoldAlone, Finish
  <2>1. None # Single
    BY NoneIsNoOrigin DEF Origins
  <2>2. TypesOf(b)' \cap TypesElsewhere(b)' = {}
    <3> SUFFICES ASSUME NEW t \in EntityTypes, NEW o \in Bundles \ {b},
                        schemaRow'[b][t] # None, schemaRow'[o][t] # None
        PROVE FALSE
      BY DEF TypesOf, TypesElsewhere
    <3>1. schemaRow[b][t] = None \/ schemaRow[o][t] = None
      BY DEF GateInv, GatesHoldAlone, TypesOf, TypesElsewhere
    <3>2. CASE schemaRow[b][t] = None
      BY <3>2 DEF TypesElsewhere
    <3>3. CASE schemaRow[o][t] = None
      BY <3>3 DEF TypesElsewhere
    <3>4. QED
      BY <3>1, <3>2, <3>3
  <2>3. TypesOf(b) \subseteq TypesOf(b)'
    BY <2>1 DEF TypesOf
  <2>4. ASSUME NEW t \in TypesOf(b)', schemaRow'[b][t] # Single
        PROVE  released[schemaRow'[b][t]].refs[t] \subseteq TypesOf(b)'
    <3>1. t \in TypesOf(b) /\ schemaRow'[b][t] = schemaRow[b][t]
      BY <2>4 DEF TypesOf
    <3>2. released[schemaRow[b][t]].refs[t] \subseteq TypesOf(b)
      BY <2>4, <3>1 DEF GateInv, GatesHoldAlone
    <3>3. QED
      BY <2>3, <3>1, <3>2
  <2>5. QED
    BY <2>2, <2>4
<1>3. QED
  BY <1>1, <1>2, CheckedEnds

LEMMA SingleWriteGates ==
  ASSUME GraphInv, GateInv, NEW r \in GraphRequests,
         UpsertEntity(r) \/ DeleteEntity(r) \/ UpsertSchema(r)
  PROVE  GateInv'
<1>1. Finish(r) /\ released' = released /\ request[r].pc # "idle"
  BY DEF UpsertEntity, DeleteEntity, UpsertSchema
<1>2. schemaRow \in [Bundles -> [EntityTypes -> Origins \cup {None}]]
  BY DEF GraphInv, GraphTypeOK
<1>3. CASE schemaRow' = schemaRow
  BY <1>1, <1>2, <1>3, SingleGates
<1>4. CASE UpsertSchema(r) /\ schemaRow' # schemaRow
  <2>1. PICK b, t : b = request[r].bundle /\ t = request[r].key
    OBVIOUS
  <2>2. /\ request[r].pc = "schema"
        /\ schemaRow' = [schemaRow EXCEPT ![b][t] = Single]
    BY <1>4, <2>1 DEF UpsertSchema
  <2>3. b \in Bundles /\ t \in EntityTypes
    BY <2>1, <2>2 DEF GraphInv, RequestsKnown, Known, SingleWrite
  <2>4. ~overlapped => t \notin TypesElsewhere(b)
    BY <2>1, <2>2 DEF GateInv, ChecksHold, Checked
  <2>5. /\ schemaRow' \in [Bundles -> [EntityTypes -> Origins \cup {None}]]
        /\ \A c \in Bundles, u \in EntityTypes :
             schemaRow'[c][u] = IF c = b /\ u = t THEN Single ELSE schemaRow[c][u]
    BY <1>2, <2>2, <2>3 DEF Origins
  <2>6. QED
    BY <1>1, <2>3, <2>4, <2>5, SingleGates
<1>5. QED
  BY <1>3, <1>4 DEF UpsertEntity, DeleteEntity

\* The commit of an application: the types it brings were free, and refer to types that
\* the release or the bundle has.
LEMMA InsertGates ==
  ASSUME GraphInv, GateInv, NEW r \in GraphRequests, InsertEntities(r)
  PROVE  GateInv'
<1>1. Finish(r) /\ released' = released /\ request[r].pc = "insert"
  BY DEF InsertEntities
<1>2. PICK b, v, p : b = request[r].bundle /\ v = request[r].release /\ p = released[v]
  OBVIOUS
<1>3. b \in Bundles /\ v \in 1..Len(released) /\ v \in Releases /\ v # None /\ v # Single
  BY <1>1, <1>2, NoneIsNoOrigin, ReleaseTypes
  DEF GraphInv, RequestsKnown, Known, Applying, Transaction
<1>4. CASE schemaRow' = schemaRow
  <2>1. SchemasKnown' /\ GatesHoldAlone'
    BY <1>1, <1>4 DEF Finish, GateInv, SchemasKnown, GatesHoldAlone, TypesOf, TypesElsewhere
  <2>2. QED
    BY <1>1, <2>1, CheckedEnds
<1>5. CASE schemaRow' = [schemaRow EXCEPT ![b] = WrittenSchemas(b, v)]
  <2>1. \A c \in Bundles, t \in EntityTypes :
          schemaRow'[c][t] = IF c = b /\ t \in DOMAIN p.refs THEN v ELSE schemaRow[c][t]
    BY <1>2, <1>3, <1>5 DEF WrittenSchemas, GraphInv, GraphTypeOK
  <2>2. DOMAIN p.refs \subseteq EntityTypes
    BY <1>2, <1>3, ReleaseTypes, PayloadTypes DEF GraphInv
  <2>3. SchemasKnown'
    BY <1>1, <1>2, <1>3, <2>1 DEF GateInv, SchemasKnown
  <2>4. ~overlapped =>
          /\ \A t \in DOMAIN p.refs : p.refs[t] \subseteq (DOMAIN p.refs) \cup TypesOf(b)
          /\ DOMAIN p.refs \cap TypesElsewhere(b) = {}
    BY <1>1, <1>2 DEF GateInv, ChecksHold, Checked, Transaction, ReferencesKnown, NamesFree
  <2>5. GatesHoldAlone'
    <3> SUFFICES ASSUME ~overlapped, NEW c \in Bundles
        PROVE /\ TypesOf(c)' \cap TypesElsewhere(c)' = {}
              /\ \A t \in TypesOf(c)' :
                   schemaRow'[c][t] # Single => released[schemaRow'[c][t]].refs[t] \subseteq TypesOf(c)'
      BY <1>1 DEF GatesHoldAlone, Finish
    <3>1. TypesOf(c)' \cap TypesElsewhere(c)' = {}
      <4> SUFFICES ASSUME NEW t \in EntityTypes, NEW o \in Bundles \ {c},
                          schemaRow'[c][t] # None, schemaRow'[o][t] # None
          PROVE FALSE
        BY DEF TypesOf, TypesElsewhere
      <4>1. schemaRow[c][t] = None \/ schemaRow[o][t] = None
        BY DEF GateInv, GatesHoldAlone, TypesOf, TypesElsewhere
      <4>2. CASE c = b
        BY <2>1, <2>4, <4>1, <4>2 DEF TypesElsewhere
      <4>3. CASE c # b
        BY <2>1, <2>4, <4>1, <4>3 DEF TypesElsewhere
      <4>4. QED
        BY <4>2, <4>3
    <3>2. TypesOf(c) \subseteq TypesOf(c)' /\ (c = b => DOMAIN p.refs \subseteq TypesOf(c)')
      BY <1>3, <2>1, <2>2 DEF TypesOf
    <3>3. ASSUME NEW t \in TypesOf(c)', schemaRow'[c][t] # Single
          PROVE  released[schemaRow'[c][t]].refs[t] \subseteq TypesOf(c)'
      <4>1. CASE c = b /\ t \in DOMAIN p.refs
        BY <1>2, <2>1, <2>2, <2>4, <3>2, <4>1
      <4>2. CASE ~(c = b /\ t \in DOMAIN p.refs)
        <5>1. t \in TypesOf(c) /\ schemaRow'[c][t] = schemaRow[c][t]
          BY <2>1, <4>2 DEF TypesOf
        <5>2. released[schemaRow[c][t]].refs[t] \subseteq TypesOf(c)
          BY <3>3, <5>1 DEF GateInv, GatesHoldAlone
        <5>3. QED
          BY <3>2, <5>1, <5>2
      <4>3. QED
        BY <4>1, <4>2
    <3>4. QED
      BY <3>1, <3>3
  <2>6. QED
    BY <1>1, <2>3, <2>5, CheckedEnds
<1>6. QED
  BY <1>2, <1>4, <1>5 DEF InsertEntities, rows

\* A bundle that is deleted takes all its types along.
LEMMA DeleteBundleGates ==
  ASSUME GraphInv, GateInv, NEW r \in GraphRequests, DeleteBundle(r)
  PROVE  GateInv'
<1>1. Finish(r) /\ released' = released /\ request[r].pc = "drop"
  BY DEF DeleteBundle
<1>2. PICK b : b = request[r].bundle
  OBVIOUS
<1>3. \A c \in Bundles, t \in EntityTypes :
        schemaRow'[c][t] = IF c = b THEN None ELSE schemaRow[c][t]
  BY <1>2 DEF DeleteBundle, GraphInv, GraphTypeOK
<1>4. SchemasKnown'
  BY <1>1, <1>3, NoneIsNoOrigin DEF GateInv, SchemasKnown
<1>5. GatesHoldAlone'
  <2> SUFFICES ASSUME ~overlapped, NEW c \in Bundles
      PROVE /\ TypesOf(c)' \cap TypesElsewhere(c)' = {}
            /\ \A t \in TypesOf(c)' :
                 schemaRow'[c][t] # Single => released[schemaRow'[c][t]].refs[t] \subseteq TypesOf(c)'
    BY <1>1 DEF GatesHoldAlone, Finish
  <2>1. CASE c = b
    BY <1>3, <2>1 DEF TypesOf
  <2>2. CASE c # b
    <3>1. TypesOf(c)' = TypesOf(c) /\ TypesElsewhere(c)' \subseteq TypesElsewhere(c)
      BY <1>3, <2>2 DEF TypesOf, TypesElsewhere
    <3>2. \A t \in TypesOf(c) : schemaRow'[c][t] = schemaRow[c][t]
      BY <1>3, <2>2 DEF TypesOf
    <3>3. QED
      BY <3>1, <3>2 DEF GateInv, GatesHoldAlone
  <2>3. QED
    BY <2>1, <2>2
<1>6. QED
  BY <1>1, <1>4, <1>5, CheckedEnds

LEMMA GateInitInv == GraphInit => GateInv
<1> SUFFICES ASSUME GraphInit PROVE GateInv
  OBVIOUS
<1>1. /\ \A r \in GraphRequests : request[r].pc = "idle"
      /\ \A b \in Bundles, t \in EntityTypes : schemaRow[b][t] = None
  BY NoCallType DEF GraphInit
<1>2. SchemasKnown
  BY <1>1, NoneIsNoOrigin DEF SchemasKnown
<1>3. OneRequest /\ ChecksHold /\ GatesHoldAlone
  BY <1>1 DEF OneRequest, ChecksHold, Checked, Transaction, GatesHoldAlone, TypesOf
<1>4. QED
  BY <1>2, <1>3 DEF GateInv

LEMMA GateStepInv == GraphInv /\ GateInv /\ [GraphNext]_graphVars => GateInv'
<1> SUFFICES ASSUME GraphInv, GateInv, [GraphNext]_graphVars PROVE GateInv'
  OBVIOUS
<1>1. CASE UNCHANGED graphVars
  BY <1>1 DEF graphVars, GateInv, SchemasKnown, OneRequest, ChecksHold, Checked, ReferencesKnown,
              NamesFree, GatesHoldAlone, TypesOf, TypesElsewhere
<1>2. CASE GraphNext
  <2>1. PICK r \in GraphRequests :
          \/ \E b \in Bundles : Apply(r, b) \/ ReadForDrop(r, b)
          \/ \E b \in Bundles, k \in Keys : ReadForUpsert(r, b, k) \/ ReadForDelete(r, b, k)
          \/ \E b \in Bundles, t \in EntityTypes : ReadForSchema(r, b, t)
          \/ ValidateCrossRefs(r) \/ Detect(r) \/ UpsertBundle(r) \/ UpsertSchemas(r)
          \/ ClearEntities(r) \/ InsertEntities(r) \/ UpsertEntity(r) \/ DeleteEntity(r)
          \/ UpsertSchema(r) \/ DeleteBundle(r) \/ Fail(r)
    BY <1>2 DEF GraphNext
  <2>2. QED
    BY <2>1, ApplyGates, ReadGates, ApplicationGates, InsertGates, SingleWriteGates,
       DeleteBundleGates
<1>3. QED
  BY <1>1, <1>2

\* While no two requests overlap, no two bundles have a type of one name, and what a
\* schema of a release refers to is there (CollisionDetector, validateCrossRefs).
THEOREM GatesHold == GraphSpec => []GatesHoldAlone
<1>1. GateInv => GatesHoldAlone
  BY DEF GateInv
<1>2. QED
  BY <1>1, GraphInitInv, GraphStepInv, GateInitInv, GateStepInv, PTL DEF GraphSpec
=============================================================================
