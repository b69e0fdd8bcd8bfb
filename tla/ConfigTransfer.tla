-------------------------- MODULE ConfigTransfer --------------------------
(***************************************************************************)
(* Export and import of the configuration of a tenant as a file            *)
(* (app/config_import_export_http_adapter.go, delivery/http                *)
(* config_handler.go).  The sections of a file are read one after the      *)
(* other, so a change may fall between them; agents, models, servers and   *)
(* schemas are imported in one transaction, then each knowledge graph in   *)
(* one of its own, then the agents in memory are loaded again.  Meanwhile  *)
(* the other endpoints of the administration (PATCH of an agent, the       *)
(* relations of a schema, ...) may leave any configuration.                *)
(*                                                                         *)
(* None is a column that is not given: zero, the empty string, no list.    *)
(***************************************************************************)
EXTENDS Nil, Naturals, FiniteSets, Sequences

CONSTANTS
  Configurations,  \* what the other endpoints may leave
  HandWritten,     \* files that were not exported
  Masked,          \* the value an exported environment variable has
  Defaults,        \* what an agent gets for an option its file leaves out, by option
                   \* (max_steps, max_context_size, max_turn_duration, lifecycle, ...)
  DefaultVersion,  \* what a graph gets for a version its file leaves out
  PageSize,        \* entities of a type that an export reads (500)
  MaxEdits,        \* bound: changes of the configuration
  MaxTransfers     \* bound: exports and imports

Sections == <<"agents", "models", "servers", "schemas", "graphs">>
SectionNames == {"agents", "models", "servers", "schemas", "graphs"}

\* Rows refer to rows that are there: the foreign keys.
LinksResolve(c) ==
  /\ \A a \in DOMAIN c.agents : /\ c.agents[a].model \in (DOMAIN c.models) \cup {None}
                                /\ c.agents[a].servers \subseteq DOMAIN c.servers
  /\ \A s \in DOMAIN c.schemas :
       /\ c.schemas[s].entry \in (DOMAIN c.agents) \cup {None}
       /\ DOMAIN c.schemas[s].relations \subseteq (DOMAIN c.agents) \X (DOMAIN c.agents)

\* Rows, by name, have these columns.
IsTable(rows, columns) == rows = [n \in DOMAIN rows |-> [x \in columns |-> rows[n][x]]]

\* Tools are kinds by name in a table, names in a file.
AgentColumns == {"settings", "options", "model", "tools", "servers"}

\* Items are sets of entities, by type.
GraphRows(rows) ==
  /\ IsTable(rows, {"version", "items"})
  /\ \A g \in DOMAIN rows : \A t \in DOMAIN rows[g].items :
       rows[g].items[t] \subseteq Nat /\ IsFiniteSet(rows[g].items[t])

\* The tables of a configuration.  The key of a model is all that no file holds of it;
\* the relations of a schema are hints of routing (config), by pair of agents.
TablesFit(c) ==
  /\ DOMAIN c = SectionNames
  /\ IsTable(c.agents, AgentColumns) /\ GraphRows(c.graphs)
  /\ IsTable(c.models, {"settings", "key"})
  /\ IsTable(c.servers, {"settings", "args", "headers", "env"})
  /\ IsTable(c.schemas, {"system", "entry", "relations"})
  /\ \A s \in DOMAIN c.schemas : c.schemas[s].system \in BOOLEAN
  /\ \A g \in DOMAIN c.graphs : c.graphs[g].version # None

\* The sections of a file.
FileFits(f) ==
  DOMAIN f = SectionNames /\ IsTable(f.agents, AgentColumns) /\ GraphRows(f.graphs)

ASSUME TransferAssumption ==
  /\ Configurations # {}
  /\ \A c \in Configurations : TablesFit(c) /\ LinksResolve(c)
  /\ \A f \in HandWritten : FileFits(f)
  /\ DefaultVersion # None /\ PageSize \in Nat /\ MaxEdits \in Nat /\ MaxTransfers \in Nat

VARIABLES
  config,    \* the tables: agents, models, mcp_servers, schemas with relations, graphs
  loaded,    \* the agents in memory
  exporter,  \* what sections the export under way has read, how many they are, and
             \* whether nothing has changed since it began (history)
  file,      \* the file at hand
  importer,  \* where the import under way is, its file, the graphs left to apply, and
             \* whether no other endpoint changed anything since it began (history)
  origin,    \* the configuration that file was exported from, with no change from then on
             \* but by imports of the file, or None (history)
  imported,  \* the last file imported, with no change since that began, or None (history)
  edits,     \* changes of the configuration
  transfers  \* exports and imports begun

transferVars == <<config, loaded, exporter, file, importer, origin, imported, edits,
                  transfers>>

\* An empty section or file.
NoRows == <<>>
NoFile == [s \in SectionNames |-> NoRows]
NoExport == [active |-> FALSE, sections |-> 0, draft |-> NoFile, quiet |-> TRUE]
NoImport == [step |-> "idle", file |-> NoFile, todo |-> {}, quiet |-> TRUE]

TransferTypeOK ==
  /\ DOMAIN config = SectionNames /\ LinksResolve(config)
  /\ exporter.active \in BOOLEAN /\ exporter.quiet \in BOOLEAN
  /\ exporter.sections \in 0..Len(Sections) - 1
  /\ \A f \in {file, exporter.draft, importer.file} : DOMAIN f = SectionNames
  /\ importer.step \in {"idle", "tables", "graphs"} /\ importer.quiet \in BOOLEAN
  /\ importer.todo \subseteq DOMAIN importer.file.graphs
  /\ edits \in 0..MaxEdits /\ transfers \in 0..MaxTransfers

TransferInit ==
  /\ config \in Configurations
  /\ loaded = config.agents
  /\ exporter = NoExport
  /\ file = NoFile
  /\ importer = NoImport
  /\ origin = None
  /\ imported = None
  /\ edits = 0
  /\ transfers = 0

\* Rows of new names are added and those of old ones replaced; no row goes.
Upserted(rows, new) ==
  [name \in (DOMAIN rows) \cup (DOMAIN new) |->
     IF name \in DOMAIN new THEN new[name] ELSE rows[name]]

-----------------------------------------------------------------------------
(* Export                                                                  *)

\* The first entities, by id.
FirstPage(entities) ==
  {e \in entities : Cardinality({d \in entities : d < e}) < PageSize}

\* What a section of the file holds.  A tool loses its kind, a model its key, a variable
\* its value, a relation its hints, and the schemas of the engine itself are left out.
ExportedAgents(c) == [a \in DOMAIN c.agents |-> [c.agents[a] EXCEPT !.tools = DOMAIN @]]
ExportedModels(c) == [m \in DOMAIN c.models |-> [settings |-> c.models[m].settings]]
ExportedServers(c) ==
  [v \in DOMAIN c.servers |-> [c.servers[v] EXCEPT !.env = [x \in DOMAIN @ |-> Masked]]]
ExportedSchemas(c) ==
  LET named == {s \in DOMAIN c.schemas : ~c.schemas[s].system}
  IN  [s \in named |->
         [entry |-> c.schemas[s].entry, relations |-> DOMAIN c.schemas[s].relations]]
ExportedGraphs(c) ==
  [g \in DOMAIN c.graphs |-> [c.graphs[g] EXCEPT !.items = [t \in DOMAIN @ |-> FirstPage(@[t])]]]

Exported(c, section) ==
  CASE section = "agents"  -> ExportedAgents(c)
    [] section = "models"  -> ExportedModels(c)
    [] section = "servers" -> ExportedServers(c)
    [] section = "schemas" -> ExportedSchemas(c)
    [] section = "graphs"  -> ExportedGraphs(c)

StartExport ==
  /\ ~exporter.active
  /\ exporter' = [NoExport EXCEPT !.active = TRUE]
  /\ transfers < MaxTransfers /\ transfers' = transfers + 1
  /\ UNCHANGED <<config, loaded, file, importer, origin, imported, edits>>

\* buildExportConfig: one section; after the last the file is at hand.
ExportSection ==
  /\ exporter.active
  /\ LET n == exporter.sections + 1
         draft == [exporter.draft EXCEPT ![Sections[n]] = Exported(config, Sections[n])]
     IN  IF n < Len(Sections)
           THEN /\ exporter' = [exporter EXCEPT !.sections = n, !.draft = draft]
                /\ UNCHANGED <<file, origin>>
           ELSE /\ exporter' = NoExport
                /\ file' = draft
                /\ origin' = IF exporter.quiet THEN config ELSE None
  /\ UNCHANGED <<config, loaded, importer, imported, edits, transfers>>

\* The client has a file of another make.
Write ==
  /\ file' \in HandWritten
  /\ origin' = None
  /\ UNCHANGED <<config, loaded, exporter, importer, imported, edits, transfers>>

-----------------------------------------------------------------------------
(* Import                                                                  *)

OldRow(rows, name, none) == IF name \in DOMAIN rows THEN rows[name] ELSE none

Given(new, old) == IF new = None THEN old ELSE new

\* Variant: an existing model loses its key.
ImportedModelsAnew(c, f) ==
  Upserted(c.models, [m \in DOMAIN f.models |-> [settings |-> f.models[m].settings, key |-> None]])

ImportedModels(c, f) ==
  Upserted(c.models,
    [m \in DOMAIN f.models |->
       [settings |-> f.models[m].settings,
        key |-> OldRow(c.models, m, [key |-> None]).key]])

\* Variant: variables that are masked are stored like others.
ImportedServersMasked(c, f) == Upserted(c.servers, f.servers)

\* Arguments and headers are kept when the file has none, variables when it has only
\* masked ones; of a file with others the masked ones are dropped.
ImportedServers(c, f) ==
  Upserted(c.servers,
    [v \in DOMAIN f.servers |->
       LET new == f.servers[v]
           old == OldRow(c.servers, v, [args |-> None, headers |-> None, env |-> NoRows])
           plain == {x \in DOMAIN new.env : new.env[x] # Masked}
       IN  [settings |-> new.settings,
            args |-> Given(new.args, old.args),
            headers |-> Given(new.headers, old.headers),
            env |-> IF plain = {} THEN old.env ELSE [x \in plain |-> new.env[x]]]])

Builtin == "builtin"

\* applyAgentImportDefaults; the tools are deleted and made again, of one kind.
ImportedAgent(new) ==
  [new EXCEPT !.options = [o \in DOMAIN Defaults |-> Given(@[o], Defaults[o])],
              !.tools = [t \in @ |-> Builtin]]

ImportedAgents(c, f) ==
  Upserted(c.agents, [a \in DOMAIN f.agents |-> ImportedAgent(f.agents[a])])

\* Arrows without hints.
EmptyConfig == "{}"
Arrows(pairs) == [p \in pairs |-> EmptyConfig]

\* Variant: arrows are added to those there are.
ImportedSchemasAdded(c, f) ==
  Upserted(c.schemas,
    [s \in DOMAIN f.schemas |->
       [system |-> FALSE, entry |-> f.schemas[s].entry,
        relations |-> Upserted(OldRow(c.schemas, s, [relations |-> NoRows]).relations,
                               Arrows(f.schemas[s].relations))]])

\* The arrows of the file replace those of the schema.
ImportedSchemas(c, f) ==
  Upserted(c.schemas,
    [s \in DOMAIN f.schemas |->
       [system |-> FALSE, entry |-> f.schemas[s].entry,
        relations |-> Arrows(f.schemas[s].relations)]])

WithTables(c, f) ==
  [c EXCEPT !.models = ImportedModels(c, f), !.servers = ImportedServers(c, f),
            !.agents = ImportedAgents(c, f), !.schemas = ImportedSchemas(c, f)]

\* Variant: an arrow to an agent that is not there is no error.
AcceptedUnchecked(c, f) ==
  \A s \in (DOMAIN f.schemas) \cap (DOMAIN c.schemas) : ~c.schemas[s].system

\* Names that do not resolve and schemas of the engine itself are refused.
Accepted(c, f) ==
  /\ \A s \in (DOMAIN f.schemas) \cap (DOMAIN c.schemas) : ~c.schemas[s].system
  /\ LinksResolve(WithTables(c, f))

StartImport ==
  /\ importer.step = "idle" /\ file # NoFile
  /\ importer' = [NoImport EXCEPT !.step = "tables", !.file = file, !.todo = DOMAIN file.graphs]
  /\ transfers < MaxTransfers /\ transfers' = transfers + 1
  /\ UNCHANGED <<config, loaded, exporter, file, origin, imported, edits>>

ImportFails ==
  /\ importer' = NoImport
  /\ UNCHANGED <<config, loaded, exporter, file, origin, imported, edits, transfers>>

\* The tables have changed, by the file at hand or by another.
Changed ==
  /\ exporter' = [exporter EXCEPT !.quiet = FALSE]
  /\ imported' = None
  /\ origin' = IF importer.file = file THEN origin ELSE None

\* The transaction; any statement of it may fail, the quota of schemas refuse.
ImportTables ==
  /\ importer.step = "tables"
  /\ \/ /\ Accepted(config, importer.file)
        /\ config' = WithTables(config, importer.file)
        /\ importer' = [importer EXCEPT !.step = "graphs"]
        /\ Changed
        /\ UNCHANGED <<loaded, file, edits, transfers>>
     \/ ImportFails

\* Types the file does not name stay, without entities.
ImportedGraph(new, old) ==
  [version |-> Given(new.version, DefaultVersion),
   items |-> Upserted([t \in DOMAIN old.items |-> {}], new.items)]

WithGraph(c, f, g) ==
  LET old == OldRow(c.graphs, g, [items |-> NoRows])
  IN  [c EXCEPT !.graphs = Upserted(@, [h \in {g} |-> ImportedGraph(f.graphs[h], old)])]

\* Each graph in the transaction of its release; the first that fails ends the import.
ImportGraph ==
  /\ importer.step = "graphs" /\ importer.todo # {}
  /\ \/ \E g \in importer.todo :
          /\ config' = WithGraph(config, importer.file, g)
          /\ importer' = [importer EXCEPT !.todo = @ \ {g}]
          /\ Changed
          /\ UNCHANGED <<loaded, file, edits, transfers>>
     \/ ImportFails

\* ConfigHandler.Import: nothing is loaded after an import that failed.
ReloadImported ==
  /\ importer.step = "graphs" /\ importer.todo = {}
  /\ \/ /\ loaded' = config.agents
        /\ importer' = NoImport
        /\ imported' = IF importer.quiet THEN [file |-> importer.file] ELSE None
        /\ UNCHANGED <<config, exporter, file, origin, edits, transfers>>
     \/ ImportFails

-----------------------------------------------------------------------------
\* Other endpoints change the tables and load the agents again.
Edit ==
  /\ edits < MaxEdits
  /\ config' \in Configurations \ {config}
  /\ loaded' = config'.agents
  /\ exporter' = [exporter EXCEPT !.quiet = FALSE]
  /\ origin' = None /\ imported' = None
  /\ edits' = edits + 1
  /\ importer' = [importer EXCEPT !.quiet = importer.step = "idle"]
  /\ UNCHANGED <<file, transfers>>

TransferNext ==
  \/ StartExport \/ ExportSection \/ Write
  \/ StartImport \/ ImportTables \/ ImportGraph \/ ReloadImported
  \/ Edit

TransferSpec == TransferInit /\ [][TransferNext]_transferVars

-----------------------------------------------------------------------------
(* Properties                                                              *)

\* What may change of a row of the tables it was exported from: an option that was not
\* given has its default, a tool is of the one kind, a relation has lost its hints, the
\* entities of a type are the page that was read.
AgentStays(row, old) ==
  /\ \A x \in AgentColumns \ {"options", "tools"} : row[x] = old[x]
  /\ \A o \in DOMAIN Defaults : \/ row.options[o] = old.options[o]
                                \/ old.options[o] = None /\ row.options[o] = Defaults[o]
  /\ DOMAIN row.tools = DOMAIN old.tools
  /\ \A t \in DOMAIN old.tools : row.tools[t] \in {old.tools[t], Builtin}

SchemaStays(row, old) ==
  /\ row.system = old.system /\ row.entry = old.entry
  /\ DOMAIN row.relations = DOMAIN old.relations
  /\ \A p \in DOMAIN old.relations :
       \/ row.relations[p] = old.relations[p]
       \/ ~old.system /\ row.relations[p] = EmptyConfig

GraphStays(row, old) ==
  /\ row.version = old.version /\ DOMAIN row.items = DOMAIN old.items
  /\ \A t \in DOMAIN old.items :
       \/ row.items[t] = old.items[t]
       \/ Cardinality(old.items[t]) > PageSize /\ row.items[t] = FirstPage(old.items[t])

Near(c, o) ==
  /\ \A section \in SectionNames : DOMAIN c[section] = DOMAIN o[section]
  /\ c.models = o.models /\ c.servers = o.servers
  /\ \A a \in DOMAIN o.agents : AgentStays(c.agents[a], o.agents[a])
  /\ \A s \in DOMAIN o.schemas : SchemaStays(c.schemas[s], o.schemas[s])
  /\ \A g \in DOMAIN o.graphs : GraphStays(c.graphs[g], o.graphs[g])

(* Importing one's own export changes nothing, however often and wherever it fails: keys,  *)
(* masked variables, headers, arrows and the rows of the engine stay as they are.  Four    *)
(* things do change, each once: options that were not given, hints of relations, kinds of  *)
(* tools, and types of more than a page (ExportYAML, ImportYAML; TestExportImportRoundTrip). *)
RoundTrip == origin # None => Near(config, origin)

\* What the file says of a row; of a column it leaves out it says nothing, or the default.
AgentHolds(row, new) ==
  /\ \A x \in AgentColumns \ {"options", "tools"} : row[x] = new[x]
  /\ \A o \in DOMAIN Defaults : row.options[o] = Given(new.options[o], Defaults[o])
  /\ DOMAIN row.tools = new.tools

ServerHolds(row, new) ==
  /\ row.settings = new.settings
  /\ \A x \in {"args", "headers"} : new[x] # None => row[x] = new[x]
  /\ \A x \in DOMAIN new.env : new.env[x] # Masked => row.env[x] = new.env[x]

SchemaHolds(row, new) == row.entry = new.entry /\ DOMAIN row.relations = new.relations

GraphHolds(row, new) ==
  /\ row.version = Given(new.version, DefaultVersion)
  /\ \A t \in DOMAIN row.items :
       row.items[t] = IF t \in DOMAIN new.items THEN new.items[t] ELSE {}
  /\ DOMAIN new.items \subseteq DOMAIN row.items

(* After an import that succeeded the tables hold what the file says, also a file torn by  *)
(* a change during the export or of another instance, and the agents in memory are those   *)
(* of the tables (replaceSchemaRelations: "the file is the source of truth").  What the    *)
(* file leaves out of an agent or the version of a graph has its default; arguments,       *)
(* headers and variables of a server and the key of a model are not the file's to empty.   *)
FileIsTruth ==
  imported # None =>
    LET f == imported.file
    IN  /\ \A section \in SectionNames : DOMAIN f[section] \subseteq DOMAIN config[section]
        /\ \A m \in DOMAIN f.models : config.models[m].settings = f.models[m].settings
        /\ \A v \in DOMAIN f.servers : ServerHolds(config.servers[v], f.servers[v])
        /\ \A a \in DOMAIN f.agents : AgentHolds(config.agents[a], f.agents[a])
        /\ \A s \in DOMAIN f.schemas : SchemaHolds(config.schemas[s], f.schemas[s])
        /\ \A g \in DOMAIN f.graphs : GraphHolds(config.graphs[g], f.graphs[g])
        /\ loaded = config.agents

(* No import takes away a row, a key, a schema of the engine, arguments or headers the     *)
(* file leaves out or, from a file with masked values only, a variable (importModels:      *)
(* "preserve API key"; importMCPServers, upsertSchemaFromYAML).                            *)
ImportPreserves ==
  [][edits' = edits =>
       /\ \A section \in SectionNames : DOMAIN config[section] \subseteq DOMAIN config'[section]
       /\ \A m \in DOMAIN config.models : config'.models[m].key = config.models[m].key
       /\ \A s \in DOMAIN config.schemas :
            config.schemas[s].system => config'.schemas[s] = config.schemas[s]
       /\ \A v \in DOMAIN config.servers : \A x \in {"args", "headers"} :
            (v \in DOMAIN importer.file.servers => importer.file.servers[v][x] = None)
            => config'.servers[v][x] = config.servers[v][x]
       /\ \A v \in DOMAIN config.servers :
            (v \in DOMAIN importer.file.servers =>
               \A x \in DOMAIN importer.file.servers[v].env :
                 importer.file.servers[v].env[x] = Masked)
            => config'.servers[v].env = config.servers[v].env]_transferVars
=============================================================================
