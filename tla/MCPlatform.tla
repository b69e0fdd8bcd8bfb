---------------------------- MODULE MCPlatform ----------------------------
(* Instances, for TLC, of the knowledge graph, of the transfer of configurations and of *)
(* the SSE transport.  They share no state: one run explores each of Parts in turn.      *)
EXTENDS KnowledgeGraph, ConfigTransfer, McpStream, TLC

CONSTANTS
  Parts,   \* the components this run explores
  b1, b2, x, y, e, q1, q2, u1, u2, g1, g2,
  a1, a2, m1, v1, s1, builder

VARIABLE part  \* the component this behaviour is of

-----------------------------------------------------------------------------
(* Releases: two types, one of which refers to the other; the referring one alone.      *)

SomePayloads ==
  { [refs |-> (x :> {y}), items |-> {<<x, e>>}],
    [refs |-> (x :> {y}) @@ (y :> {}), items |-> {<<y, e>>}] }

\* Two rows written or removed on their own, at most, are there or on their way.
FewSingleWrites ==
  LET Singles(b) == Cardinality({t \in EntityTypes : schemaRow[b][t] = Single})
                    + Cardinality({k \in Keys : entityRow[b][k] = Single})
      writing == {r \in GraphRequests : request[r].pc \in {"upsert", "delete", "schema"}}
  IN  Singles(b1) + Singles(b2) + Cardinality(removed) + Cardinality(writing) <= 2

-----------------------------------------------------------------------------
(* Configurations, and files written by hand.  No endpoint makes a tool of another kind  *)
(* than the builtin one any more, but a row that is there is read and kept.              *)

SomeDefaults == [steps |-> 5, context |-> 6]

Model(n) == m1 :> [settings |-> n, key |-> n]
Server(n, args, headers, env) ==
  v1 :> [settings |-> n, args |-> args, headers |-> headers, env |-> env]
Agent(steps, context, kind, model, servers) ==
  [settings |-> 1, options |-> [steps |-> steps, context |-> context],
   tools |-> x :> kind, model |-> model, servers |-> servers]
Schema(entry, relations) == [system |-> FALSE, entry |-> entry, relations |-> relations]
OwnSchemas == builder :> [system |-> TRUE, entry |-> None, relations |-> NoRows]
Graph(n, items) == b1 :> [version |-> n, items |-> items]

FreshConfig == [NoFile EXCEPT !.schemas = OwnSchemas]
SmallConfig ==
  [agents |-> a1 :> Agent(None, 2, "custom", None, {}), models |-> Model(1), servers |-> NoRows,
   schemas |-> OwnSchemas @@ (s1 :> Schema(a1, NoRows)), graphs |-> Graph(1, x :> {1, 2, 3})]
FullConfig ==
  [agents |-> (a1 :> Agent(3, 1, Builtin, m1, {v1})) @@ (a2 :> Agent(2, None, Builtin, m1, {})),
   models |-> Model(1),
   servers |-> Server(1, "args", "headers", (x :> "secret") @@ (y :> "secret")),
   schemas |-> OwnSchemas @@ (s1 :> Schema(a1, <<a1, a2>> :> "hints")),
   graphs |-> Graph(1, x :> {1})]
ChangedConfig ==
  [FullConfig EXCEPT
     !.models = Model(2), !.agents[a2].tools = NoRows,
     !.servers = Server(2, None, "others", x :> "new"),
     !.schemas[s1].relations = <<a2, a1>> :> EmptyConfig,
     !.graphs = Graph(2, (x :> {2, 3}) @@ (y :> {4}))]
BareConfig ==
  [NoFile EXCEPT
     !.agents = a2 :> Agent(2, 1, Builtin, None, {}),
     !.schemas = OwnSchemas @@ (s1 :> Schema(a2, NoRows))]
SomeConfigurations == {FreshConfig, SmallConfig, FullConfig, ChangedConfig, BareConfig}

FileOf(c) == [s \in SectionNames |-> Exported(c, s)]
PartlyMaskedFile ==
  [FileOf(FullConfig) EXCEPT
     !.servers[v1].env[x] = "other", !.servers[v1].args = None, !.servers[v1].headers = None,
     !.agents[a1].options = [steps |-> None, context |-> None], !.graphs[b1].version = None]
SystemSchemaFile ==
  [FileOf(FullConfig) EXCEPT !.schemas = builder :> [entry |-> a1, relations |-> {}]]
UnknownAgentFile == [FileOf(SmallConfig) EXCEPT !.schemas[s1].relations = {<<a1, a2>>}]
SomeFiles == {PartlyMaskedFile, SystemSchemaFile, UnknownAgentFile}

-----------------------------------------------------------------------------
PlatformInit ==
  /\ part \in Parts
  /\ GraphInit /\ TransferInit /\ StreamInit
  \* The components that are not explored stay in one initial state.
  /\ part # "transfer" => config = FreshConfig

PlatformNext ==
  /\ UNCHANGED part
  /\ \/ part = "graph" /\ GraphNext /\ UNCHANGED <<transferVars, streamVars>>
     \/ part = "transfer" /\ TransferNext /\ UNCHANGED <<graphVars, streamVars>>
     \/ part = "stream" /\ StreamNext /\ UNCHANGED <<graphVars, transferVars>>

platformVars == <<part, graphVars, transferVars, streamVars>>
PlatformSpec == PlatformInit /\ [][PlatformNext]_platformVars /\ StreamFairness

-----------------------------------------------------------------------------
(* Every variable of the three components has its type; the rows of the tables refer to   *)
(* rows that are there, whatever was released, imported or deleted.                       *)
PlatformTypeOK == GraphTypeOK /\ TransferTypeOK /\ StreamTypeOK
=============================================================================
