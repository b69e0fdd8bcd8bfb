----------------------------- MODULE McpClients -----------------------------
(***************************************************************************)
(* The connections to the MCP servers of one tenant (infrastructure/mcp:   *)
(* Manager, ClientRegistry, Refresher, ForwardHeadersStore).  Tenants      *)
(* share nothing but the maps they are entries of.                         *)
(*                                                                         *)
(* An administrator's write commits a row, and a goroutine of its own then *)
(* brings the registry up to date, while requests load the registry and    *)
(* /config/reload closes and dials everything.  In multi-tenant mode these *)
(* take a lock of the tenant, in single-tenant mode none.  A row is its    *)
(* version, which no other row ever has; a client is an object that dialed *)
(* one version.                                                            *)
(***************************************************************************)
EXTENDS Nil, Naturals

CONSTANTS
  Servers,
  McpCallers,     \* goroutines that use the manager at one time
  TimedVersions,  \* rows with a catalog_refresh_interval_seconds
  MaxWrites,      \* bound: rows written
  MaxClients      \* bound: clients open at one time, lost ones included

ASSUME McpAssumption ==
  /\ None \notin Servers \cup McpCallers
  /\ MaxWrites \in Nat /\ MaxClients \in Nat
  /\ TimedVersions \subseteq 1..MaxWrites

VARIABLES
  perTenant,  \* Manager.perTenant: a lock per tenant
  serverRows, \* the version of each server's row, 0 if there is none
  writes,     \* rows written so far
  client,     \* the version each client dialed, 0 when it is closed or unused
  loaded,     \* the tenant has a ClientRegistry
  clients,    \* ClientRegistry.clients: the client of each server, 0 if none
  tasks,      \* the servers with a refreshTask
  ticking,    \* refresher goroutines that did not find their server
  headers,    \* ForwardHeadersStore: the versions whose headers are forwarded
  tenantLock, \* who holds tenantLocks[tenant]
  caller,     \* per goroutine, where it is
  excused     \* what a failure or an overtaken write left behind (history)

mcpVars == <<perTenant, serverRows, writes, client, loaded, clients, tasks, ticking,
             headers, tenantLock, caller, excused>>

Versions == 0..MaxWrites
Headers == "headers"
NoClients == [s \in Servers |-> 0]
IdleCaller == [pc |-> "idle", op |-> "none", server |-> None, row |-> 0,
               list |-> NoClients, todo |-> {}]

McpTypeOK ==
  /\ perTenant \in BOOLEAN
  /\ serverRows \in [Servers -> Versions] /\ writes \in Versions
  /\ client \in [1..MaxClients -> Versions]
  /\ loaded \in BOOLEAN /\ clients \in [Servers -> 0..MaxClients]
  /\ tasks \subseteq Servers /\ ticking \subseteq Servers
  /\ headers \in [Servers -> Versions]
  /\ tenantLock \in McpCallers \cup {None}
  /\ tenantLock # None => caller[tenantLock].pc \notin {"idle", "row", "lock"}
  /\ caller \in [McpCallers ->
       [pc : {"idle", "row", "lock", "lookup", "list", "load", "dial", "forward"},
        op : {"none", "get", "reload", "reconnect", "disconnect"},
        server : Servers \cup {None}, row : Versions,
        list : [Servers -> Versions], todo : SUBSET Servers]]
  /\ excused \subseteq Servers \cup {Headers}

\* NewManager and, in single-tenant mode, Init with no server configured.
McpInit ==
  /\ perTenant \in BOOLEAN
  /\ serverRows = NoClients /\ writes = 0
  /\ client = [c \in 1..MaxClients |-> 0]
  /\ loaded = ~perTenant
  /\ clients = NoClients
  /\ tasks = {} /\ ticking = {}
  /\ headers = NoClients
  /\ tenantLock = None
  /\ caller = [q \in McpCallers |-> IdleCaller]
  /\ excused = {}

CallerAt(q, step) == caller[q].pc = step
CallerGoto(q, step) == caller' = [caller EXCEPT ![q].pc = step]
Doing(q, op) == caller[q].op = op
ServerOf(q) == caller[q].server

\* Variant: an early return keeps the lock.
ReturnFromLocked(q) ==
  /\ caller' = [caller EXCEPT ![q] = IdleCaller]
  /\ UNCHANGED tenantLock

\* A goroutine returns, and its deferred Unlock runs.
ReturnFrom(q) ==
  /\ caller' = [caller EXCEPT ![q] = IdleCaller]
  /\ tenantLock' = IF tenantLock = q THEN None ELSE tenantLock

Enter(q, op, s, step) ==
  /\ CallerAt(q, "idle")
  /\ caller' = [caller EXCEPT ![q] = [IdleCaller EXCEPT !.pc = step, !.op = op, !.server = s]]

-----------------------------------------------------------------------------
(* What starts a goroutine                                                 *)

AfterStart == <<perTenant, client, loaded, clients, tasks, ticking, headers, tenantLock>>

\* Create, Update or Patch commits a row; reconnectAfterCRUD.
WriteRow(q, s) ==
  /\ writes < MaxWrites
  /\ writes' = writes + 1
  /\ serverRows' = [serverRows EXCEPT ![s] = writes + 1]
  /\ Enter(q, "reconnect", s, "row")
  /\ UNCHANGED <<AfterStart, excused>>

\* Delete; disconnectAfterDelete.
DeleteRow(q, s) ==
  /\ serverRows[s] # 0
  /\ serverRows' = [serverRows EXCEPT ![s] = 0]
  /\ Enter(q, "disconnect", s, "lock")
  /\ UNCHANGED <<AfterStart, writes, excused>>

\* ReconnectTenant, from /config/reload.
Reload(q) ==
  /\ Enter(q, "reload", None, "lock")
  /\ UNCHANGED <<AfterStart, serverRows, writes, excused>>

\* GetForContext or RefreshServer of a tenant that is not loaded yet; otherwise
\* both leave the registry as it is.
GetForContext(q) ==
  /\ ~loaded
  /\ Enter(q, "get", None, "lock")
  /\ UNCHANGED <<AfterStart, serverRows, writes, excused>>

\* ReconnectServer reads its row before it takes the lock.
GetByName(q) ==
  LET s == ServerOf(q) IN
  /\ CallerAt(q, "row")
  /\ \/ /\ serverRows[s] # 0
        /\ caller' = [caller EXCEPT ![q].pc = "lock", ![q].row = serverRows[s]]
        /\ UNCHANGED <<tenantLock, excused>>
     \/ /\ ReturnFrom(q)
        /\ excused' = IF serverRows[s] = 0 THEN excused ELSE excused \cup {s, Headers}
  /\ UNCHANGED <<perTenant, serverRows, writes, client, loaded, clients, tasks, ticking, headers>>

-----------------------------------------------------------------------------
(* Under the lock of the tenant                                            *)

\* Variant: the lock of the tenant is not taken.
EnterUnlocked(q) ==
  /\ CallerAt(q, "lock")
  /\ CallerGoto(q, "lookup")
  /\ UNCHANGED <<perTenant, serverRows, writes, client, loaded, clients, tasks, ticking, headers,
                 tenantLock, excused>>

LockTenant(q) ==
  /\ CallerAt(q, "lock")
  /\ IF perTenant THEN tenantLock = None /\ tenantLock' = q ELSE UNCHANGED tenantLock
  /\ CallerGoto(q, "lookup")
  /\ UNCHANGED <<perTenant, serverRows, writes, client, loaded, clients, tasks, ticking, headers,
                 excused>>

\* The second look of GetForContext, lookupOrLoadLocked and DisconnectServer.
Lookup(q) ==
  /\ CallerAt(q, "lookup")
  /\ IF Doing(q, "reload") \/ (~loaded /\ ~Doing(q, "disconnect"))
       THEN CallerGoto(q, "list") /\ UNCHANGED tenantLock
       ELSE IF loaded /\ ~Doing(q, "get")
         THEN CallerGoto(q, "dial") /\ UNCHANGED tenantLock
         ELSE ReturnFrom(q)
  /\ UNCHANGED <<perTenant, serverRows, writes, client, loaded, clients, tasks, ticking, headers,
                 excused>>

CloseClients(cs) == client' = [c \in DOMAIN client |-> IF c \in cs THEN 0 ELSE client[c]]

\* ListForTenant.  A reload closes all clients that are registered then.  A first
\* load fills a registry that nobody sees before it is loaded.
List(q) ==
  /\ CallerAt(q, "list")
  /\ \/ /\ caller' = [caller EXCEPT ![q].pc = "load", ![q].list = serverRows,
                                    ![q].todo = {s \in Servers : serverRows[s] # 0}]
        /\ IF Doing(q, "reload")
             THEN /\ CloseClients({clients[s] : s \in Servers})
                  /\ clients' = NoClients
                  /\ loaded' = TRUE
             ELSE UNCHANGED <<client, clients, loaded>>
        /\ UNCHANGED <<tenantLock, excused>>
     \/ /\ ReturnFrom(q)
        /\ excused' = IF Doing(q, "reconnect") THEN excused \cup {ServerOf(q), Headers}
                                               ELSE excused
        /\ UNCHANGED <<client, clients, loaded>>
  /\ UNCHANGED <<perTenant, serverRows, writes, tasks, ticking, headers>>

FreeClients == {c \in DOMAIN client : client[c] = 0}

\* dialServer succeeds with a new client, the first free one, for a row's version.
Dial(version, c) == c \in FreeClients /\ \A d \in FreeClients : c <= d

\* Load, one server after the other.  Register replaces whatever client is there; a
\* server that cannot be dialed is skipped.
LoadServer(q, s) ==
  /\ CallerAt(q, "load") /\ s \in caller[q].todo
  /\ \/ \E c \in DOMAIN client :
          /\ Dial(caller[q].list[s], c)
          /\ client' = [client EXCEPT ![c] = caller[q].list[s]]
          /\ clients' = [clients EXCEPT ![s] = c]
          /\ UNCHANGED excused
     \/ excused' = excused \cup {s} /\ UNCHANGED <<client, clients>>
  /\ caller' = [caller EXCEPT ![q].todo = @ \ {s}]
  /\ UNCHANGED <<perTenant, serverRows, writes, loaded, tasks, ticking, headers, tenantLock>>

\* Variant: a load schedules no refresher.
TimedInNone(list) == {}

TimedIn(list) == {s \in Servers : list[s] \in TimedVersions}

\* The registry is published, the headers set, the refreshers scheduled.  A server
\* that is not listed any more keeps its refresher.
FinishLoad(q) ==
  /\ CallerAt(q, "load") /\ caller[q].todo = {}
  /\ loaded' = TRUE
  /\ headers' = caller[q].list
  /\ tasks' = tasks \cup TimedIn(caller[q].list)
  /\ IF Doing(q, "reconnect")
       THEN /\ caller' = [caller EXCEPT ![q].pc = "dial", ![q].list = NoClients]
            /\ UNCHANGED tenantLock
       ELSE ReturnFrom(q)
  /\ UNCHANGED <<perTenant, serverRows, writes, client, clients, ticking, excused>>

\* Variant: the client that is replaced stays open.
SwapKeepingOld(s, c, v) == [client EXCEPT ![c] = v]

\* The client registered for s is closed and c takes its place.
Swap(s, c, v) ==
  [d \in DOMAIN client |-> IF d = c THEN v ELSE IF d = clients[s] THEN 0 ELSE client[d]]

\* ClientRegistry.Reconnect dials the row read before and swaps it in, then the
\* refresher follows the row.
Reconnect(q) ==
  LET s == ServerOf(q) v == caller[q].row IN
  /\ CallerAt(q, "dial") /\ Doing(q, "reconnect")
  /\ \E c \in DOMAIN client :
       /\ Dial(v, c)
       /\ client' = Swap(s, c, v)
       /\ clients' = [clients EXCEPT ![s] = c]
  /\ tasks' = IF v \in TimedVersions THEN tasks \cup {s} ELSE tasks \ {s}
  /\ excused' = IF v = serverRows[s] THEN excused ELSE excused \cup {s}
  /\ CallerGoto(q, "forward")
  /\ UNCHANGED <<perTenant, serverRows, writes, loaded, ticking, headers, tenantLock>>

\* The dial fails: what was connected before stays, headers included.
ReconnectFails(q) ==
  /\ CallerAt(q, "dial") /\ Doing(q, "reconnect")
  /\ excused' = excused \cup {ServerOf(q), Headers}
  /\ ReturnFrom(q)
  /\ UNCHANGED <<perTenant, serverRows, writes, client, loaded, clients, tasks, ticking, headers>>

\* Variant: the closed client stays registered.
DisconnectKeepingEntry(q) ==
  LET s == ServerOf(q) IN
  /\ CallerAt(q, "dial") /\ Doing(q, "disconnect")
  /\ CloseClients({clients[s]})
  /\ UNCHANGED clients
  /\ tasks' = tasks \ {s}
  /\ excused' = IF serverRows[s] = 0 THEN excused ELSE excused \cup {s}
  /\ CallerGoto(q, "forward")
  /\ UNCHANGED <<perTenant, serverRows, writes, loaded, ticking, headers, tenantLock>>

\* ClientRegistry.Disconnect and Refresher.Stop, also when the server has been created
\* again since its row was deleted.
Disconnect(q) ==
  LET s == ServerOf(q) IN
  /\ CallerAt(q, "dial") /\ Doing(q, "disconnect")
  /\ CloseClients({clients[s]})
  /\ clients' = [clients EXCEPT ![s] = 0]
  /\ tasks' = tasks \ {s}
  /\ excused' = IF serverRows[s] = 0 THEN excused ELSE excused \cup {s}
  /\ CallerGoto(q, "forward")
  /\ UNCHANGED <<perTenant, serverRows, writes, loaded, ticking, headers, tenantLock>>

\* Variant: the headers follow the row that was read before the lock.
ForwardSnapshot(q) ==
  /\ CallerAt(q, "forward")
  /\ headers' = [headers EXCEPT ![ServerOf(q)] = caller[q].row]
  /\ ReturnFrom(q)
  /\ UNCHANGED <<perTenant, serverRows, writes, client, loaded, clients, tasks, ticking, excused>>

\* The rows are listed again for the headers; if that fails they stay.
Forward(q) ==
  /\ CallerAt(q, "forward")
  /\ \/ headers' = serverRows /\ UNCHANGED excused
     \/ excused' = excused \cup {Headers} /\ UNCHANGED headers
  /\ ReturnFrom(q)
  /\ UNCHANGED <<perTenant, serverRows, writes, client, loaded, clients, tasks, ticking>>

-----------------------------------------------------------------------------
(* The refresher                                                           *)

\* A tick that finds no client of its server ...
TickMissing(s) ==
  /\ s \in tasks \ ticking /\ clients[s] = 0
  /\ ticking' = ticking \cup {s}
  /\ UNCHANGED <<perTenant, serverRows, writes, client, loaded, clients, tasks, headers, tenantLock,
                 caller, excused>>

\* ... stops the task of the server's name, whichever task that is now.
TickStop(s) ==
  /\ s \in ticking
  /\ ticking' = ticking \ {s}
  /\ tasks' = tasks \ {s}
  /\ excused' = IF clients[s] # 0 THEN excused \cup {s} ELSE excused
  /\ UNCHANGED <<perTenant, serverRows, writes, client, loaded, clients, headers, tenantLock, caller>>

McpNext ==
  \/ \E q \in McpCallers :
       \/ \E s \in Servers : WriteRow(q, s) \/ DeleteRow(q, s) \/ LoadServer(q, s)
       \/ Reload(q) \/ GetForContext(q) \/ GetByName(q) \/ LockTenant(q) \/ Lookup(q)
       \/ List(q) \/ FinishLoad(q) \/ Reconnect(q) \/ ReconnectFails(q) \/ Disconnect(q)
       \/ Forward(q)
  \/ \E s \in Servers : TickMissing(s) \/ TickStop(s)

McpSpec == McpInit /\ [][McpNext]_mcpVars

-----------------------------------------------------------------------------
(* Properties                                                              *)

Quiet == \A q \in McpCallers : CallerAt(q, "idle")

\* Whatever interleaves, with the tenant's lock or without one, a client that is
\* registered is open: closing and unregistering are one critical section of
\* ClientRegistry.mu, and no client is closed after another took its place.
RegisteredOpen == \A s \in Servers : clients[s] # 0 => client[clients[s]] # 0

\* With the tenant's lock no connection is lost: every open client is registered
\* ("two concurrent ReconnectTenant calls for the same tenant do not race CloseAll
\* against each other or against a fresh Load").
NoClientLost ==
  perTenant => \A c \in DOMAIN client : client[c] # 0 => \E s \in Servers : clients[s] = c

\* When every hook has run, the registry is what the table says, but for servers that
\* could not be dialed or whose hooks overtook each other: ReconnectServer reads its
\* row before it locks, and DisconnectServer does not look at the table again.
CatalogFresh ==
  perTenant /\ loaded /\ Quiet =>
    \A s \in Servers \ excused :
      serverRows[s] = IF clients[s] = 0 THEN 0 ELSE client[clients[s]]

\* The headers are up to date then even where hooks overtook each other, as they are
\* listed again under the lock.
HeadersFresh == perTenant /\ loaded /\ Quiet /\ Headers \notin excused => headers = serverRows

\* A registered server has a refresher exactly if its row asks for one, although a
\* reload schedules only and the refresher of a lost server stops itself at a tick.
RefresherFollowsRow ==
  perTenant /\ loaded /\ Quiet =>
    \A s \in Servers \ excused :
      clients[s] # 0 => (s \in tasks <=> client[clients[s]] \in TimedVersions)

\* Each MCP client dialled is registered under its server or closed, and every registered
\* one is open; between calls the catalogue, the forwarded headers and the refreshers are
\* those of the servers' rows (mcp/manager.go, mcp/refresher.go).
ServersFollowed ==
  /\ RegisteredOpen /\ NoClientLost
  /\ CatalogFresh /\ HeadersFresh /\ RefresherFollowsRow
=============================================================================
