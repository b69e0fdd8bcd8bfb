--------------------------- MODULE KnowledgeDocs ---------------------------
(***************************************************************************)
(* The documents of a knowledge base (service/knowledge/upload_service.go, *)
(* configrepo/knowledge_repository.go).  An upload writes the document row *)
(* and leaves the rest to a goroutine, which stores the chunks and then    *)
(* the outcome; documents and the whole base may be deleted meanwhile, any *)
(* write may fail, and the server may stop between any two of them.  Each  *)
(* step is one statement of the database: no transaction spans two.        *)
(***************************************************************************)
EXTENDS Nil, Naturals

CONSTANTS
  Documents,  \* ids of documents, each new at its upload
  Removers,   \* requests that delete; each deletes again when it is done
  MaxChunks   \* bound: chunks of a document

\* Rows of knowledge_documents, by what the properties tell apart.
DocRows == [status : {"indexing", "ready", "error"}, chunks : 0..MaxChunks]

ASSUME KnowledgeAssumption ==
  /\ None \notin Documents \cup DocRows
  /\ MaxChunks \in Nat \ {0}

VARIABLES
  kb,         \* whether the row of the knowledge base exists
  docRow,     \* table knowledge_documents: the row of each document, or None
  chunkRows,  \* table knowledge_chunks: number of rows of each document
  indexer,    \* per document, its indexing goroutine and the row it is to write
  remover,    \* per deleting request, where it is and the documents it read
  wiped       \* documents a deletion has reached (history)

knowledgeVars == <<kb, docRow, chunkRows, indexer, remover, wiped>>

Indexing == [status |-> "indexing", chunks |-> 0]
Ready(n) == [status |-> "ready", chunks |-> n]
Failed == [status |-> "error", chunks |-> 0]

KnowledgeTypeOK ==
  /\ kb \in BOOLEAN
  /\ docRow \in [Documents -> DocRows \cup {None}]
  /\ chunkRows \in [Documents -> 0..MaxChunks]
  /\ indexer \in [Documents -> [pc : {"unborn", "embed", "chunks", "find", "save", "over"},
                                outcome : DocRows]]
  /\ remover \in [Removers -> [pc : {"idle", "chunks", "rows", "kb"}, docs : SUBSET Documents]]
  /\ wiped \subseteq Documents
  \* the foreign keys
  /\ \A d \in Documents : chunkRows[d] > 0 => docRow[d] # None
  /\ ~kb => \A d \in Documents : docRow[d] = None

NotStarted == [pc |-> "unborn", outcome |-> Indexing]
NoRemoval == [pc |-> "idle", docs |-> {}]

KnowledgeInit ==
  /\ kb = TRUE
  /\ docRow = [d \in Documents |-> None]
  /\ chunkRows = [d \in Documents |-> 0]
  /\ indexer = [d \in Documents |-> NotStarted]
  /\ remover = [r \in Removers |-> NoRemoval]
  /\ wiped = {}

-----------------------------------------------------------------------------
(* Upload and indexing                                                     *)

IndexerGoto(d, step) == indexer' = [indexer EXCEPT ![d].pc = step]
IndexerGoesToWrite(d, outcome) == indexer' = [indexer EXCEPT ![d] = [pc |-> "find", outcome |-> outcome]]

\* UploadFileToKB: without a knowledge base the insert is refused.
Upload(d) ==
  /\ indexer[d].pc = "unborn" /\ kb
  /\ docRow' = [docRow EXCEPT ![d] = Indexing]
  /\ IndexerGoto(d, "embed")
  /\ UNCHANGED <<kb, chunkRows, remover, wiped>>

\* Extraction, the model or the embedding may fail, and there may be nothing to index.
Embed(d) ==
  /\ indexer[d].pc = "embed"
  /\ \/ IndexerGoesToWrite(d, Failed)
     \/ IndexerGoesToWrite(d, Ready(0))
     \/ \E n \in 1..MaxChunks : indexer' = [indexer EXCEPT ![d] = [pc |-> "chunks", outcome |-> Ready(n)]]
  /\ UNCHANGED <<kb, docRow, chunkRows, remover, wiped>>

\* Variant: the chunks are inserted one by one.
SaveChunksSingly(d) ==
  /\ indexer[d].pc = "chunks"
  /\ \/ /\ docRow[d] # None
        /\ \E n \in 1..indexer[d].outcome.chunks :
             /\ chunkRows' = [chunkRows EXCEPT ![d] = n]
             /\ IndexerGoesToWrite(d, IF n = indexer[d].outcome.chunks THEN Ready(n) ELSE Failed)
     \/ IndexerGoesToWrite(d, Failed) /\ UNCHANGED chunkRows
  /\ UNCHANGED <<kb, docRow, remover, wiped>>

\* SaveChunks inserts all in one statement, which fails when the document is gone.
SaveChunks(d) ==
  /\ indexer[d].pc = "chunks"
  /\ \/ /\ docRow[d] # None
        /\ chunkRows' = [chunkRows EXCEPT ![d] = indexer[d].outcome.chunks]
        /\ IndexerGoto(d, "find")
     \/ IndexerGoesToWrite(d, Failed) /\ UNCHANGED chunkRows
  /\ UNCHANGED <<kb, docRow, remover, wiped>>

\* updateDocStatus gives up when it cannot read the document.
FindDocument(d) ==
  /\ indexer[d].pc = "find"
  /\ \/ docRow[d] # None /\ IndexerGoto(d, "save")
     \/ IndexerGoto(d, "over")
  /\ UNCHANGED <<kb, docRow, chunkRows, remover, wiped>>

\* Save updates the row or, when there is none any more, inserts it; an error is only logged.
SaveStatus(d) ==
  /\ indexer[d].pc = "save"
  /\ \/ kb /\ docRow' = [docRow EXCEPT ![d] = indexer[d].outcome]
     \/ UNCHANGED docRow
  /\ IndexerGoto(d, "over")
  /\ UNCHANGED <<kb, chunkRows, remover, wiped>>

-----------------------------------------------------------------------------
(* Deletion of a document and of the knowledge base                        *)

RemoverGoto(r, step, docs) == remover' = [remover EXCEPT ![r] = [pc |-> step, docs |-> docs]]
Stored == {d \in Documents : docRow[d] # None}

\* The rows of docs, with the chunks that refer to them.
DeleteRows(docs) ==
  /\ docRow' = [d \in Documents |-> IF d \in docs THEN None ELSE docRow[d]]
  /\ chunkRows' = [d \in Documents |-> IF d \in docs THEN 0 ELSE chunkRows[d]]

\* DeleteFileByKB finds the document in its knowledge base.
DeleteFile(r) ==
  /\ remover[r].pc = "idle"
  /\ \E d \in Stored : RemoverGoto(r, "chunks", {d})
  /\ UNCHANGED <<kb, docRow, chunkRows, indexer, wiped>>

\* deleteDocFull: the chunks first.
DeleteChunks(r) ==
  /\ remover[r].pc = "chunks"
  /\ chunkRows' = [d \in Documents |-> IF d \in remover[r].docs THEN 0 ELSE chunkRows[d]]
  /\ wiped' = wiped \cup remover[r].docs
  /\ RemoverGoto(r, "rows", remover[r].docs)
  /\ UNCHANGED <<kb, docRow, indexer>>

DeleteDocument(r) ==
  /\ remover[r].pc = "rows" /\ remover[r].docs # {}
  /\ DeleteRows(remover[r].docs)
  /\ RemoverGoto(r, "idle", {})
  /\ UNCHANGED <<kb, indexer, wiped>>

\* DeleteAllByKB names no document: each statement takes those it finds.
DeleteAllChunks(r) ==
  /\ remover[r].pc = "idle" /\ kb
  /\ chunkRows' = [d \in Documents |-> 0]
  /\ wiped' = wiped \cup Stored
  /\ RemoverGoto(r, "rows", {})
  /\ UNCHANGED <<kb, docRow, indexer>>

DeleteAllDocuments(r) ==
  /\ remover[r].pc = "rows" /\ remover[r].docs = {}
  /\ DeleteRows(Documents)
  /\ wiped' = wiped \cup Stored
  /\ RemoverGoto(r, "kb", {})
  /\ UNCHANGED <<kb, indexer>>

\* The knowledge base last; documents uploaded meanwhile go with it.
DeleteKB(r) ==
  /\ remover[r].pc = "kb"
  /\ kb' = FALSE
  /\ DeleteRows(Documents)
  /\ wiped' = wiped \cup Stored
  /\ RemoverGoto(r, "idle", {})
  /\ UNCHANGED indexer

\* A statement fails, and what is left of the deletion is not done.
RemovalFails(r) ==
  /\ remover[r].pc # "idle"
  /\ RemoverGoto(r, "idle", {})
  /\ UNCHANGED <<kb, docRow, chunkRows, indexer, wiped>>

\* The server stops: goroutines and requests end where they are, and none is taken up again.
ServerStops ==
  /\ indexer' = [d \in Documents |->
       IF indexer[d].pc = "unborn" THEN indexer[d] ELSE [indexer[d] EXCEPT !.pc = "over"]]
  /\ remover' = [r \in Removers |-> NoRemoval]
  /\ UNCHANGED <<kb, docRow, chunkRows, wiped>>

-----------------------------------------------------------------------------
KnowledgeNext ==
  \/ \E d \in Documents :
       \/ Upload(d) \/ Embed(d) \/ SaveChunks(d) \/ FindDocument(d) \/ SaveStatus(d)
  \/ \E r \in Removers :
       \/ DeleteFile(r) \/ DeleteChunks(r) \/ DeleteDocument(r)
       \/ DeleteAllChunks(r) \/ DeleteAllDocuments(r) \/ DeleteKB(r) \/ RemovalFails(r)
  \/ ServerStops

KnowledgeSpec == KnowledgeInit /\ [][KnowledgeNext]_knowledgeVars

-----------------------------------------------------------------------------
(* Properties                                                              *)

(* A status tells what a search finds, whichever statements failed and wherever the     *)
(* server stopped: a document at error holds no chunks (CountDocuments leaves it out of *)
(* the quota for that), and one at ready holds the number its row shows, unless a       *)
(* deletion of it has begun.                                                            *)
StatusIsHonest ==
  \A d \in Stored :
    /\ docRow[d].status = "error" => chunkRows[d] = 0
    /\ docRow[d].status = "ready" /\ d \notin wiped => chunkRows[d] = docRow[d].chunks
=============================================================================
