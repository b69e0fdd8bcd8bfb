-------------------------- MODULE KnowledgeGraph --------------------------
(***************************************************************************)
(* The bundles of the knowledge graph (usecase/kgapply, usecase/kgmutate,  *)
(* configrepo/kg_*_repository.go).  A release of a bundle is applied in    *)
(* one transaction, after checks that read outside it; single schemas and  *)
(* entities are written meanwhile by requests with a transaction of one    *)
(* row.  The lock of a bundle (kgAdvisoryLockerNoop) locks nothing, so     *)
(* what keeps two applications apart is the row locks of the database:     *)
(* a statement waits for the transaction that has written its row, and     *)
(* sees what is committed when it runs.  Any statement may fail.           *)
(***************************************************************************)
EXTENDS Nil, Naturals, Sequences

CONSTANTS
  Bundles, EntityTypes, Ids,
  GraphRequests,  \* requests; each makes another call when one is over
  Payloads,       \* what a release may hold: refs, from its types to the types they
                  \* refer to, and items, its pairs of a type and an id
  MaxReleases     \* bound: releases applied

Single == 0  \* the release of a row written on its own
Releases == 1..MaxReleases
Keys == EntityTypes \X Ids

ASSUME GraphAssumption ==
  /\ MaxReleases \in Nat
  /\ None \notin Nat \cup Bundles
  /\ \A p \in Payloads :
       /\ p.refs \in UNION {[S -> SUBSET EntityTypes] : S \in SUBSET EntityTypes \ {{}}}
       /\ p.items \subseteq (DOMAIN p.refs) \X Ids

\* A row is known by the release it came with.
Origins == Releases \cup {Single}

VARIABLES
  released,   \* the payload of each release, in the order the applications began
  bundleRow,  \* table kg_bundle: the release of each bundle, or None
  schemaRow,  \* table kg_entity_schema: the origin of the schema of each type, or None
  entityRow,  \* table kg_entity: the origin of each entity, or None
  request,    \* per request, the statement it runs next and what it has read
  removed,    \* entities deleted on their own since their bundle was applied (history)
  overlapped  \* whether two requests were ever under way at once (history)

graphVars == <<released, bundleRow, schemaRow, entityRow, request, removed, overlapped>>

\* What a request works on: its bundle and release, a type or key and the row it read of
\* it; cleared, the rows its transaction has deleted.
NoCall == [pc |-> "idle", bundle |-> None, release |-> Single, key |-> None,
           read |-> None, cleared |-> {}]

GraphTypeOK ==
  /\ released \in Seq(Payloads) /\ Len(released) <= MaxReleases
  /\ bundleRow \in [Bundles -> Releases \cup {None}]
  /\ schemaRow \in [Bundles -> [EntityTypes -> Origins \cup {None}]]
  /\ entityRow \in [Bundles -> [Keys -> Origins \cup {None}]]
  /\ request \in [GraphRequests ->
       [pc : {"idle", "refs", "names", "bundle", "schemas", "clear", "insert",
              "upsert", "delete", "schema", "drop"},
        bundle : Bundles \cup {None}, release : Origins,
        key : Keys \cup EntityTypes \cup {None}, read : Origins \cup {None},
        cleared : SUBSET Keys]]
  /\ removed \subseteq Bundles \X Keys
  /\ overlapped \in BOOLEAN
  \* the foreign keys
  /\ \A b \in Bundles :
       /\ bundleRow[b] = None => \A t \in EntityTypes : schemaRow[b][t] = None
       /\ \A k \in Keys : schemaRow[b][k[1]] = None => entityRow[b][k] = None

GraphInit ==
  /\ released = <<>>
  /\ bundleRow = [b \in Bundles |-> None]
  /\ schemaRow = [b \in Bundles |-> [t \in EntityTypes |-> None]]
  /\ entityRow = [b \in Bundles |-> [k \in Keys |-> None]]
  /\ request = [r \in GraphRequests |-> NoCall]
  /\ removed = {}
  /\ overlapped = FALSE

-----------------------------------------------------------------------------
(* Requests and the row locks of their transactions                        *)

rows == <<bundleRow, schemaRow, entityRow, removed>>

Begin(r, call) ==
  /\ request[r].pc = "idle"
  /\ request' = [request EXCEPT ![r] = call]
  /\ overlapped' = (overlapped \/ \E q \in GraphRequests : request[q].pc # "idle")

Proceed(r, step) == request' = [request EXCEPT ![r].pc = step] /\ UNCHANGED overlapped
Finish(r) == request' = [request EXCEPT ![r] = NoCall] /\ UNCHANGED overlapped

Payload(r) == released[request[r].release]

InTransaction(r, b, steps) == request[r].bundle = b /\ request[r].pc \in steps
BundleLocked(b) == \E r \in GraphRequests : InTransaction(r, b, {"schemas", "clear", "insert"})
SchemaLocked(b, t) ==
  \E r \in GraphRequests :
    InTransaction(r, b, {"clear", "insert"}) /\ t \in DOMAIN Payload(r).refs
EntityLocked(b, k) == \E r \in GraphRequests : InTransaction(r, b, {"insert"}) /\ k \in request[r].cleared

\* Each type brings tools named after it: other bundles must not have the type.
TypesElsewhere(b) == {t \in EntityTypes : \E o \in Bundles \ {b} : schemaRow[o][t] # None}
TypesOf(b) == {t \in EntityTypes : schemaRow[b][t] # None}

-----------------------------------------------------------------------------
(* Applying a release (kgapply.Execute)                                    *)

Apply(r, b) ==
  /\ Len(released) < MaxReleases
  /\ \E p \in Payloads : released' = Append(released, p)
  /\ Begin(r, [NoCall EXCEPT !.pc = "refs", !.bundle = b, !.release = Len(released) + 1])
  /\ UNCHANGED rows

\* validateCrossRefs: each target is in the payload or stored in the bundle.
ValidateCrossRefs(r) ==
  /\ request[r].pc = "refs"
  /\ LET known == (DOMAIN Payload(r).refs) \cup TypesOf(request[r].bundle)
     IN  IF \A t \in DOMAIN Payload(r).refs : Payload(r).refs[t] \subseteq known
           THEN Proceed(r, "names")
           ELSE Finish(r)
  /\ UNCHANGED <<released, rows>>

\* Variant: only the names in the registry of the process count, which is empty at first.
DetectCached(r) == request[r].pc = "names" /\ Proceed(r, "bundle") /\ UNCHANGED <<released, rows>>

\* Detect reads the schemas of the other bundles.
Detect(r) ==
  /\ request[r].pc = "names"
  /\ IF (DOMAIN Payload(r).refs) \cap TypesElsewhere(request[r].bundle) = {}
       THEN Proceed(r, "bundle")
       ELSE Finish(r)
  /\ UNCHANGED <<released, rows>>

\* Variant: the row of the bundle is written outside the transaction.
UpsertBundleAtOnce(r) ==
  /\ request[r].pc = "bundle"
  /\ bundleRow' = [bundleRow EXCEPT ![request[r].bundle] = request[r].release]
  /\ Proceed(r, "schemas")
  /\ UNCHANGED <<released, schemaRow, entityRow, removed>>

\* The transaction begins: it waits for the row of the bundle and keeps it to its end.
UpsertBundle(r) ==
  /\ request[r].pc = "bundle"
  /\ ~BundleLocked(request[r].bundle)
  /\ Proceed(r, "schemas")
  /\ UNCHANGED <<released, rows>>

\* Only another application could hold the schemas, and it would hold the bundle.
UpsertSchemas(r) ==
  /\ request[r].pc = "schemas"
  /\ \A t \in DOMAIN Payload(r).refs : ~SchemaLocked(request[r].bundle, t)
  /\ Proceed(r, "clear")
  /\ UNCHANGED <<released, rows>>

\* ReplaceEntities deletes the rows of the bundle it finds.
ClearEntities(r) ==
  /\ request[r].pc = "clear"
  /\ LET b == request[r].bundle
     IN  request' = [request EXCEPT ![r].pc = "insert",
                                    ![r].cleared = {k \in Keys : entityRow[b][k] # None}]
  /\ UNCHANGED <<released, rows, overlapped>>

\* Variant: types the release does not have lose their schema.
WrittenSchemasOnly(b, v) ==
  [t \in EntityTypes |-> IF t \in DOMAIN released[v].refs
                           THEN v ELSE None]

WrittenSchemas(b, v) ==
  [t \in EntityTypes |-> IF t \in DOMAIN released[v].refs
                           THEN v ELSE schemaRow[b][t]]

WrittenEntities(b, v, cleared) ==
  [k \in Keys |-> IF k \in released[v].items
                    THEN v
                  ELSE IF k \in cleared THEN None ELSE entityRow[b][k]]

\* The inserts of ReplaceEntities and the commit.  A row of the release that was created
\* on its own since the deletion is a duplicate key, and all is rolled back.
InsertEntities(r) ==
  /\ request[r].pc = "insert"
  /\ LET b == request[r].bundle
         v == request[r].release
         cleared == request[r].cleared
         duplicate == \E k \in Payload(r).items \ cleared : entityRow[b][k] # None
     IN  IF duplicate THEN UNCHANGED rows
         ELSE /\ bundleRow' = [bundleRow EXCEPT ![b] = v]
              /\ schemaRow' = [schemaRow EXCEPT ![b] = WrittenSchemas(b, v)]
              /\ entityRow' = [entityRow EXCEPT ![b] = WrittenEntities(b, v, cleared)]
              /\ removed' = {x \in removed : x[1] # b}
  /\ Finish(r)
  /\ UNCHANGED released

-----------------------------------------------------------------------------
(* Single writes (kgmutate)                                                *)

\* CreateEntity and UpdateEntity read the schema and check the entity against it; an
\* update wants the entity to exist.  Both end in the same statement.
ReadForUpsert(r, b, k) ==
  /\ schemaRow[b][k[1]] # None
  /\ Begin(r, [NoCall EXCEPT !.pc = "upsert", !.bundle = b, !.key = k])
  /\ UNCHANGED <<released, rows>>

\* UpsertEntity: without its schema the foreign key refuses the row.
UpsertEntity(r) ==
  /\ request[r].pc = "upsert"
  /\ LET b == request[r].bundle
         k == request[r].key
     IN  /\ ~EntityLocked(b, k)
         /\ entityRow' = IF schemaRow[b][k[1]] = None THEN entityRow
              ELSE [entityRow EXCEPT ![b][k] = Single]
  /\ Finish(r)
  /\ UNCHANGED <<released, bundleRow, schemaRow, removed>>

ReadForDelete(r, b, k) ==
  /\ entityRow[b][k] # None
  /\ Begin(r, [NoCall EXCEPT !.pc = "delete", !.bundle = b, !.key = k, !.read = entityRow[b][k]])
  /\ UNCHANGED <<released, rows>>

\* DeleteEntity: a statement that waited for an application finds its row gone, and does
\* not see the one that replaces it.
DeleteEntity(r) ==
  /\ request[r].pc = "delete"
  /\ LET b == request[r].bundle
         k == request[r].key
         replaced == entityRow[b][k] \notin {None, Single, request[r].read}
     IN  /\ ~EntityLocked(b, k)
         /\ \/ /\ entityRow' = [entityRow EXCEPT ![b][k] = None]
               /\ removed' = removed \cup {<<b, k>>}
            \/ replaced /\ UNCHANGED <<entityRow, removed>>
  /\ Finish(r)
  /\ UNCHANGED <<released, bundleRow, schemaRow>>

\* UpsertSchema wants the bundle to exist and no name taken.  What the schema refers to is
\* looked at by nothing, nor is whether the entities of the type still fit it.
ReadForSchema(r, b, t) ==
  /\ bundleRow[b] # None /\ t \notin TypesElsewhere(b)
  /\ Begin(r, [NoCall EXCEPT !.pc = "schema", !.bundle = b, !.key = t])
  /\ UNCHANGED <<released, rows>>

\* The foreign key refuses it when the bundle is gone.
UpsertSchema(r) ==
  /\ request[r].pc = "schema"
  /\ LET b == request[r].bundle
         t == request[r].key
     IN  /\ ~SchemaLocked(b, t)
         /\ schemaRow' = IF bundleRow[b] = None THEN schemaRow
              ELSE [schemaRow EXCEPT ![b][t] = Single]
  /\ Finish(r)
  /\ UNCHANGED <<released, bundleRow, entityRow, removed>>

ReadForDrop(r, b) ==
  /\ bundleRow[b] # None
  /\ Begin(r, [NoCall EXCEPT !.pc = "drop", !.bundle = b])
  /\ UNCHANGED <<released, rows>>

\* DeleteBundle, with the rows that refer to the bundle; a row not there is not waited for.
DeleteBundle(r) ==
  /\ request[r].pc = "drop"
  /\ LET b == request[r].bundle
     IN  /\ bundleRow[b] # None => ~BundleLocked(b)
         /\ bundleRow' = [bundleRow EXCEPT ![b] = None]
         /\ schemaRow' = [schemaRow EXCEPT ![b] = [t \in EntityTypes |-> None]]
         /\ entityRow' = [entityRow EXCEPT ![b] = [k \in Keys |-> None]]
         /\ removed' = {x \in removed : x[1] # b}
  /\ Finish(r)
  /\ UNCHANGED released

\* A statement fails, a quota refuses or the server stops: what is not committed is lost.
Fail(r) ==
  /\ request[r].pc # "idle"
  /\ Finish(r)
  /\ UNCHANGED <<released, rows>>

-----------------------------------------------------------------------------
GraphNext ==
  \E r \in GraphRequests :
    \/ \E b \in Bundles : Apply(r, b) \/ ReadForDrop(r, b)
    \/ \E b \in Bundles, k \in Keys : ReadForUpsert(r, b, k) \/ ReadForDelete(r, b, k)
    \/ \E b \in Bundles, t \in EntityTypes : ReadForSchema(r, b, t)
    \/ ValidateCrossRefs(r) \/ Detect(r) \/ UpsertBundle(r) \/ UpsertSchemas(r)
    \/ ClearEntities(r) \/ InsertEntities(r) \/ UpsertEntity(r) \/ DeleteEntity(r)
    \/ UpsertSchema(r) \/ DeleteBundle(r) \/ Fail(r)

GraphSpec == GraphInit /\ [][GraphNext]_graphVars

-----------------------------------------------------------------------------
(* Properties                                                              *)

(* A release lands whole whatever overlapped: the schemas of its types and its entities    *)
(* are those of the application that wrote the version, none missing, and no entity of     *)
(* another release is left beside them, but for what single writes changed since           *)
(* (kgapply.Execute: "either everything lands or nothing changes").  Of the types it does  *)
(* not name the schemas of earlier releases stay, for UpsertSchemas deletes none.          *)
ReleaseLandsWhole ==
  \A b \in Bundles : bundleRow[b] # None =>
    LET v == bundleRow[b]
        p == released[v]
    IN  /\ \A t \in DOMAIN p.refs : schemaRow[b][t] \in {v, Single}
        /\ \A k \in p.items : entityRow[b][k] = None => <<b, k>> \in removed
        /\ \A k \in Keys : entityRow[b][k] \in Releases => entityRow[b][k] = v /\ k \in p.items

(* As long as no two requests overlap, no two bundles bring tools of one name             *)
(* (CollisionDetector) and the references of each schema a release brought lead to types  *)
(* of its bundle (validateCrossRefs), also after later releases without those types.      *)
GatesHoldAlone ==
  ~overlapped =>
    \A b \in Bundles :
      /\ TypesOf(b) \cap TypesElsewhere(b) = {}
      /\ \A t \in TypesOf(b) :
           schemaRow[b][t] # Single => released[schemaRow[b][t]].refs[t] \subseteq TypesOf(b)
=============================================================================
