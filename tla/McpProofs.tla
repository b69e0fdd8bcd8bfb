------------------------------ MODULE McpProofs ------------------------------
(***************************************************************************)
(* For any servers, calls and streams: the registry of a tenant's MCP      *)
(* servers loses no client and follows the rows, and an SSE transport      *)
(* reads one stream at a time and has one while it is open.                *)
(***************************************************************************)
EXTENDS McpClients, McpStream, TLAPS

-----------------------------------------------------------------------------
(***************************************************************************)
(* The clients of a tenant's MCP servers.  With the tenant's lock one      *)
(* caller at a time loads, dials, closes and forwards.  Whatever is not as *)
(* its row says is still on the list of a load, or a write's hook is on    *)
(* its way to put it right, or excuses it when it fails.                   *)
(***************************************************************************)

UnderLock == {"lookup", "list", "load", "dial", "forward"}

\* What each call carries along.
CallerFits(q) ==
  LET k == caller[q] IN
  /\ k.pc # "idle" => k.op # "none"
  /\ k.op \in {"reconnect", "disconnect"} => k.server \in Servers
  /\ k.pc \in {"row", "dial", "forward"} => k.op \in {"reconnect", "disconnect"}
  /\ k.op = "reconnect" /\ k.pc \notin {"idle", "row"} => k.row # 0
  /\ k.pc = "load" => \A s \in k.todo : k.list[s] # 0

\* Two servers never share a client.
ClientsApart == \A s, t \in Servers : clients[s] # 0 /\ clients[s] = clients[t] => s = t

\* The hook of a write of s that is on its way; one that finds no row does nothing.
Fixing(k, s) ==
  /\ k.server = s
  /\ \/ k.op = "disconnect" /\ k.pc \in {"lock", "lookup", "dial"}
     \/ /\ k.op = "reconnect"
        /\ \/ k.pc \in {"lock", "lookup", "list", "load", "dial"}
           \/ k.pc = "row" /\ serverRows[s] # 0
Fixed(s) == \E q \in McpCallers : Fixing(caller[q], s)

\* A hook that will forward the headers.
Forwarding(k) == (\E s \in Servers : Fixing(k, s)) \/ k.pc = "forward"
Forwarded == \E q \in McpCallers : Forwarding(caller[q])

Shows(s) == serverRows[s] = IF clients[s] = 0 THEN 0 ELSE client[clients[s]]

NobodyLoads == \A q \in McpCallers : caller[q].pc # "load"

\* What a load under way has found, and what it still has to dial.
LoaderFits(q) ==
  caller[q].pc = "load" =>
    /\ \A s \in caller[q].todo : clients[s] = 0
    /\ \A s \in Servers \ excused :
         \/ Fixed(s)
         \/ /\ caller[q].list[s] = serverRows[s]
            /\ s \in tasks => serverRows[s] \in TimedVersions
            /\ s \notin caller[q].todo => Shows(s)
    /\ Headers \notin excused => Forwarded \/ caller[q].list = serverRows

\* Between loads.
Settled ==
  loaded /\ NobodyLoads =>
    \A s \in Servers \ excused :
      Fixed(s) \/ (Shows(s) /\ (s \in tasks <=> serverRows[s] \in TimedVersions))
HeadersSettled ==
  loaded /\ NobodyLoads /\ Headers \notin excused => Forwarded \/ headers = serverRows

\* Before the first load there is nothing.
Unloaded ==
  /\ ~loaded => tasks = {} /\ (NobodyLoads => \A s \in Servers : clients[s] = 0)
  /\ \A q \in McpCallers :
       /\ caller[q].pc \in {"list", "load"} /\ caller[q].op # "reload" => ~loaded
       /\ caller[q].pc \in {"dial", "forward"} => loaded

LockHeld == \A q \in McpCallers : caller[q].pc \in UnderLock => tenantLock = q

TenantInv ==
  /\ LockHeld /\ Unloaded /\ NoClientLost
  /\ \A q \in McpCallers : LoaderFits(q)
  /\ Settled /\ HeadersSettled

McpInv ==
  /\ McpTypeOK /\ \A q \in McpCallers : CallerFits(q)
  /\ ClientsApart /\ RegisteredOpen
  /\ perTenant => TenantInv

-----------------------------------------------------------------------------
(* Callers and the lock                                                    *)

CallerRecord ==
  [pc : {"idle", "row", "lock", "lookup", "list", "load", "dial", "forward"},
   op : {"none", "get", "reload", "reconnect", "disconnect"},
   server : Servers \cup {None}, row : Versions,
   list : [Servers -> Versions], todo : SUBSET Servers]

BeforeLock == {"idle", "row", "lock"}

\* What becomes of the lock when q goes on as k.
LockPasses(q, k) ==
  \/ tenantLock' = tenantLock /\ (tenantLock = q => k.pc \notin BeforeLock)
  \/ tenantLock = None /\ tenantLock' = q /\ k.pc \notin BeforeLock
  \/ tenantLock' = IF tenantLock = q THEN None ELSE tenantLock

LEMMA OneCaller ==
  ASSUME McpInv, NEW q \in McpCallers
  PROVE  /\ caller[q] \in CallerRecord /\ CallerFits(q)
         /\ caller \in [McpCallers -> CallerRecord]
BY DEF McpInv, McpTypeOK, CallerRecord

LEMMA NoClientsTyped ==
  /\ NoClients \in [Servers -> Versions]
  /\ NoClients \in [Servers -> 0..MaxClients]
  /\ \A s \in Servers : NoClients[s] = 0
BY McpAssumption DEF NoClients, Versions

LEMMA IdleCallerTyped == IdleCaller \in CallerRecord
BY NoClientsTyped, McpAssumption DEF IdleCaller, CallerRecord, Versions

LEMMA CallerMoves ==
  ASSUME McpInv, NEW q \in McpCallers, NEW k \in CallerRecord,
         caller' = [caller EXCEPT ![q] = k], LockPasses(q, k)
  PROVE  /\ caller' \in [McpCallers -> CallerRecord]
         /\ caller'[q] = k /\ \A p \in McpCallers \ {q} : caller'[p] = caller[p]
         /\ tenantLock' \in McpCallers \cup {None}
         /\ tenantLock' # None => caller'[tenantLock'].pc \notin BeforeLock
         /\ perTenant /\ (k.pc \in UnderLock => tenantLock' = q) =>
              \A p \in McpCallers : caller'[p].pc \in UnderLock => tenantLock' = p
<1> USE McpAssumption
<1>1. /\ caller' \in [McpCallers -> CallerRecord]
      /\ caller'[q] = k /\ \A p \in McpCallers \ {q} : caller'[p] = caller[p]
  BY OneCaller
<1>2. /\ tenantLock \in McpCallers \cup {None}
      /\ tenantLock # None => caller[tenantLock].pc \notin BeforeLock
  BY DEF McpInv, McpTypeOK, BeforeLock
<1>3. tenantLock' \in McpCallers \cup {None}
  BY <1>2 DEF LockPasses
<1>4. tenantLock' # None => caller'[tenantLock'].pc \notin BeforeLock
  <2>1. CASE tenantLock' = q
    BY <1>1, <1>2, <2>1 DEF LockPasses
  <2>2. CASE tenantLock' # q
    BY <1>1, <1>2, <1>3, <2>2 DEF LockPasses
  <2>3. QED
    BY <2>1, <2>2
<1>5. ASSUME perTenant, NEW p \in McpCallers \ {q}, caller'[p].pc \in UnderLock
      PROVE  tenantLock' = p
  <2>1. tenantLock = p
    BY <1>1, <1>5 DEF McpInv, TenantInv, LockHeld
  <2>2. QED
    BY <2>1 DEF LockPasses
<1>6. QED
  BY <1>1, <1>3, <1>4, <1>5

\* With the tenant's lock nobody else is where the lock is needed.
LEMMA AloneUnderLock ==
  ASSUME McpInv, perTenant, NEW q \in McpCallers, caller[q].pc \in UnderLock
  PROVE  /\ tenantLock = q
         /\ \A p \in McpCallers \ {q} : caller[p].pc \notin UnderLock
BY DEF McpInv, TenantInv, LockHeld

-----------------------------------------------------------------------------
(* Steps that leave the servers and clients alone                          *)

\* What has to be on its way stays on its way when q goes on as k.
KeepsFixing(q, k) ==
  /\ \A s \in Servers \ excused' :
       Fixing(caller[q], s) => Fixing(k, s) \/ (~loaded /\ NobodyLoads)
  /\ Headers \notin excused' =>
       (Forwarding(caller[q]) => Forwarding(k) \/ (~loaded /\ NobodyLoads))

LEMMA FixedStays ==
  ASSUME McpInv, NEW q \in McpCallers, NEW k \in CallerRecord,
         caller' = [caller EXCEPT ![q] = k], UNCHANGED serverRows, KeepsFixing(q, k),
         loaded \/ ~NobodyLoads
  PROVE  /\ \A s \in Servers \ excused' : Fixed(s) => Fixed(s)'
         /\ Headers \notin excused' => (Forwarded => Forwarded')
<1>1. caller'[q] = k /\ \A p \in McpCallers \ {q} : caller'[p] = caller[p]
  BY OneCaller
<1>2. ASSUME NEW s \in Servers \ excused', Fixed(s)
      PROVE  Fixed(s)'
  <2>1. PICK p \in McpCallers : Fixing(caller[p], s)
    BY <1>2 DEF Fixed
  <2>2. CASE p = q
    <3>1. Fixing(k, s)
      BY <2>1, <2>2 DEF KeepsFixing
    <3>2. QED
      BY <1>1, <3>1 DEF Fixed, Fixing
  <2>3. CASE p # q
    BY <1>1, <2>1, <2>3 DEF Fixed, Fixing
  <2>4. QED
    BY <2>2, <2>3
<1>3. ASSUME Headers \notin excused', Forwarded
      PROVE  Forwarded'
  <2>1. PICK p \in McpCallers : Forwarding(caller[p])
    BY <1>3 DEF Forwarded
  <2>2. CASE p = q
    <3>1. Forwarding(k)
      BY <1>3, <2>1, <2>2 DEF KeepsFixing
    <3>2. QED
      BY <1>1, <3>1 DEF Forwarded, Forwarding, Fixing
  <2>3. CASE p # q
    BY <1>1, <2>1, <2>3 DEF Forwarded, Forwarding, Fixing
  <2>4. QED
    BY <2>2, <2>3
<1>4. QED
  BY <1>2, <1>3

\* What the record of a call says of itself.
RecordFits(k) ==
  /\ k \in CallerRecord
  /\ k.pc # "idle" => k.op # "none"
  /\ k.op \in {"reconnect", "disconnect"} => k.server \in Servers
  /\ k.pc \in {"row", "dial", "forward"} => k.op \in {"reconnect", "disconnect"}
  /\ k.op = "reconnect" /\ k.pc \notin {"idle", "row"} => k.row # 0
  /\ k.pc = "load" => \A s \in k.todo : k.list[s] # 0

LEMMA IdleFitsRecord == RecordFits(IdleCaller) /\ IdleCaller.pc = "idle"
BY IdleCallerTyped DEF RecordFits, IdleCaller

LEMMA CallersFit ==
  ASSUME McpInv, NEW q \in McpCallers, NEW k, RecordFits(k), caller' = [caller EXCEPT ![q] = k]
  PROVE  \A p \in McpCallers : CallerFits(p)'
<1>1. caller'[q] = k /\ \A p \in McpCallers \ {q} : caller'[p] = caller[p]
  BY OneCaller
<1>2. \A p \in McpCallers : CallerFits(p)
  BY DEF McpInv
<1>3. QED
  BY <1>1, <1>2 DEF CallerFits, RecordFits

\* A caller goes on, outside the loads, and touches nothing but the excuses.
LEMMA CallerGoesOn ==
  ASSUME McpInv, NEW q \in McpCallers, NEW k, RecordFits(k),
         caller' = [caller EXCEPT ![q] = k], LockPasses(q, k),
         UNCHANGED <<perTenant, serverRows, writes, client, loaded, clients, tasks, ticking, headers>>,
         excused \subseteq excused', excused' \subseteq Servers \cup {Headers},
         caller[q].pc # "load", k.pc # "load",
         perTenant => /\ KeepsFixing(q, k)
                      /\ k.pc \in UnderLock => tenantLock' = q
                      /\ k.pc = "list" /\ k.op # "reload" => ~loaded
                      /\ k.pc \in {"dial", "forward"} => loaded
  PROVE  McpInv'
<1>1. k \in CallerRecord
  BY DEF RecordFits
<1>2. /\ caller' \in [McpCallers -> CallerRecord]
      /\ caller'[q] = k /\ \A p \in McpCallers \ {q} : caller'[p] = caller[p]
      /\ tenantLock' \in McpCallers \cup {None}
      /\ tenantLock' # None => caller'[tenantLock'].pc \notin BeforeLock
      /\ perTenant => \A p \in McpCallers : caller'[p].pc \in UnderLock => tenantLock' = p
  BY <1>1, CallerMoves
<1>3. McpTypeOK'
  BY <1>2 DEF McpInv, McpTypeOK, CallerRecord, BeforeLock
<1>4. ClientsApart' /\ RegisteredOpen'
  BY DEF McpInv, ClientsApart, RegisteredOpen
<1>5. NobodyLoads' <=> NobodyLoads
  BY <1>2 DEF NobodyLoads
<1>6. \A s \in Servers : Shows(s)' <=> Shows(s)
  BY DEF Shows
<1>7. ASSUME perTenant
      PROVE  TenantInv'
  <2>1. LockHeld' /\ NoClientLost'
    BY <1>2, <1>7 DEF LockHeld, McpInv, TenantInv, NoClientLost
  <2>2. Unloaded'
    BY <1>2, <1>5, <1>7 DEF McpInv, TenantInv, Unloaded
  <2>3. loaded \/ ~NobodyLoads =>
          /\ \A s \in Servers \ excused' : Fixed(s) => Fixed(s)'
          /\ Headers \notin excused' => (Forwarded => Forwarded')
    BY <1>1, <1>7, FixedStays
  <2>4. ASSUME NEW p \in McpCallers
        PROVE  LoaderFits(p)'
    <3> SUFFICES ASSUME caller'[p].pc = "load"
                 PROVE  LoaderFits(p)'
      BY DEF LoaderFits
    <3>1. caller'[p] = caller[p] /\ caller[p].pc = "load" /\ ~NobodyLoads
      BY <1>2 DEF NobodyLoads
    <3>2. LoaderFits(p)
      BY <1>7 DEF McpInv, TenantInv
    <3>3. QED
      BY <1>6, <2>3, <3>1, <3>2 DEF LoaderFits
  <2>5. Settled' /\ HeadersSettled'
    BY <1>5, <1>6, <1>7, <2>3 DEF McpInv, TenantInv, Settled, HeadersSettled
  <2>6. QED
    BY <2>1, <2>2, <2>4, <2>5 DEF TenantInv
<1>8. \A p \in McpCallers : CallerFits(p)'
  BY CallersFit
<1>9. QED
  BY <1>3, <1>4, <1>7, <1>8 DEF McpInv

\* A caller returns: what it was to put right is excused, or there is nothing to.
LEMMA CallerReturns ==
  ASSUME McpInv, NEW q \in McpCallers, ReturnFrom(q), caller[q].pc # "load",
         UNCHANGED <<perTenant, serverRows, writes, client, loaded, clients, tasks, ticking, headers>>,
         excused \subseteq excused', excused' \subseteq Servers \cup {Headers},
         perTenant => KeepsFixing(q, IdleCaller)
  PROVE  McpInv'
<1>1. caller' = [caller EXCEPT ![q] = IdleCaller] /\ LockPasses(q, IdleCaller)
  BY DEF ReturnFrom, LockPasses
<1>2. IdleCaller.pc = "idle" /\ RecordFits(IdleCaller)
  BY IdleFitsRecord
<1>3. QED
  BY <1>1, <1>2, CallerGoesOn DEF UnderLock

LEMMA EnterInv ==
  ASSUME McpInv, NEW q \in McpCallers, Reload(q) \/ GetForContext(q)
  PROVE  McpInv'
<1>1. PICK op \in {"reload", "get"} :
        /\ Enter(q, op, None, "lock") /\ UNCHANGED <<AfterStart, serverRows, writes, excused>>
  BY DEF Reload, GetForContext
<1>2. PICK k : k = [IdleCaller EXCEPT !.pc = "lock", !.op = op, !.server = None]
  OBVIOUS
<1>3. k \in CallerRecord /\ k.pc = "lock" /\ k.op = op
  BY <1>2, IdleCallerTyped DEF CallerRecord
<1>4. RecordFits(k)
  BY <1>3 DEF RecordFits
<1>5. caller[q].pc = "idle" /\ caller' = [caller EXCEPT ![q] = k]
  BY <1>1, <1>2 DEF Enter, CallerAt
<1>6. LockPasses(q, k)
  BY <1>1, <1>5, McpAssumption DEF LockPasses, AfterStart, McpInv, McpTypeOK
<1>7. KeepsFixing(q, k)
  BY <1>5 DEF KeepsFixing, Fixing, Forwarding
<1>8. QED
  BY <1>1, <1>3, <1>4, <1>5, <1>6, <1>7, CallerGoesOn
  DEF AfterStart, UnderLock, McpInv, McpTypeOK

LEMMA GetByNameInv ==
  ASSUME McpInv, NEW q \in McpCallers, GetByName(q)
  PROVE  McpInv'
<1>1. PICK s \in Servers : s = caller[q].server
  BY OneCaller DEF GetByName, CallerFits, CallerAt
<1>2. caller[q].pc = "row" /\ caller[q] \in CallerRecord
      /\ caller[q].op \in {"reconnect", "disconnect"}
  BY OneCaller DEF GetByName, CallerAt, CallerFits
<1>3. UNCHANGED <<perTenant, serverRows, writes, client, loaded, clients, tasks, ticking, headers>>
  BY DEF GetByName
<1>4. excused \subseteq Servers \cup {Headers} /\ serverRows[s] \in Versions
      /\ tenantLock # q
  BY <1>2, McpAssumption DEF McpInv, McpTypeOK
<1>5. CASE /\ serverRows[s] # 0 /\ UNCHANGED <<tenantLock, excused>>
           /\ caller' = [caller EXCEPT ![q].pc = "lock", ![q].row = serverRows[s]]
  <2>1. PICK k : k = [caller[q] EXCEPT !.pc = "lock", !.row = serverRows[s]]
    OBVIOUS
  <2>2. /\ k \in CallerRecord /\ k.pc = "lock" /\ k.row = serverRows[s] /\ k.row # 0
        /\ k.op = caller[q].op /\ k.server = s
    BY <1>1, <1>2, <1>4, <1>5, <2>1 DEF CallerRecord
  <2>3. caller' = [caller EXCEPT ![q] = k]
    BY <1>5, <2>1, OneCaller DEF CallerRecord
  <2>4. RecordFits(k)
    BY <1>2, <2>2 DEF RecordFits
  <2>5. LockPasses(q, k)
    BY <1>4, <1>5 DEF LockPasses
  <2>6. KeepsFixing(q, k)
    BY <1>1, <1>2, <2>2 DEF KeepsFixing, Fixing, Forwarding
  <2>7. QED
    BY <1>2, <1>3, <1>4, <1>5, <2>2, <2>3, <2>4, <2>5, <2>6, CallerGoesOn DEF UnderLock
<1>6. CASE /\ ReturnFrom(q)
           /\ excused' = IF serverRows[s] = 0 THEN excused ELSE excused \cup {s, Headers}
  <2>1. KeepsFixing(q, IdleCaller)
    BY <1>1, <1>2, <1>6 DEF KeepsFixing, Fixing, Forwarding
  <2>2. QED
    BY <1>2, <1>3, <1>4, <1>6, <2>1, CallerReturns
<1>7. QED
  BY <1>1, <1>5, <1>6 DEF GetByName, ServerOf

\* A step under the lock that only moves on.
LEMMA LockTenantInv ==
  ASSUME McpInv, NEW q \in McpCallers, LockTenant(q)
  PROVE  McpInv'
<1>1. caller[q].pc = "lock" /\ caller[q] \in CallerRecord /\ CallerFits(q)
  BY OneCaller DEF LockTenant, CallerAt
<1>2. PICK k : k = [caller[q] EXCEPT !.pc = "lookup"]
  OBVIOUS
<1>3. /\ k \in CallerRecord /\ k.pc = "lookup" /\ k.op = caller[q].op
      /\ k.server = caller[q].server /\ k.row = caller[q].row
  BY <1>1, <1>2 DEF CallerRecord
<1>4. caller' = [caller EXCEPT ![q] = k]
      /\ UNCHANGED <<perTenant, serverRows, writes, client, loaded, clients, tasks, ticking, headers, excused>>
  BY <1>2, OneCaller DEF LockTenant, CallerGoto, CallerRecord
<1>5. RecordFits(k)
  BY <1>1, <1>3 DEF RecordFits, CallerFits
<1>6. LockPasses(q, k) /\ (perTenant => tenantLock' = q)
  BY <1>3 DEF LockTenant, LockPasses, BeforeLock
<1>7. KeepsFixing(q, k)
  BY <1>1, <1>3 DEF KeepsFixing, Fixing, Forwarding
<1>8. QED
  BY <1>1, <1>3, <1>4, <1>5, <1>6, <1>7, CallerGoesOn DEF McpInv, McpTypeOK

LEMMA LookupInv ==
  ASSUME McpInv, NEW q \in McpCallers, Lookup(q)
  PROVE  McpInv'
<1>1. caller[q].pc = "lookup" /\ caller[q] \in CallerRecord /\ CallerFits(q)
  BY OneCaller DEF Lookup, CallerAt
<1>2. UNCHANGED <<perTenant, serverRows, writes, client, loaded, clients, tasks, ticking, headers, excused>>
      /\ excused \subseteq Servers \cup {Headers}
  BY DEF Lookup, McpInv, McpTypeOK
<1>3. perTenant => tenantLock = q /\ NobodyLoads
  BY <1>1, AloneUnderLock DEF UnderLock, NobodyLoads
<1>4. ASSUME NEW step \in {"list", "dial"}, CallerGoto(q, step), UNCHANGED tenantLock,
             step = "list" => Doing(q, "reload") \/ ~loaded,
             step = "list" => ~Doing(q, "disconnect"),
             step = "dial" => loaded /\ ~Doing(q, "get") /\ ~Doing(q, "reload")
                              /\ ~Doing(q, "none")
      PROVE  McpInv'
  <2>1. PICK k : k = [caller[q] EXCEPT !.pc = step]
    OBVIOUS
  <2>2. /\ k \in CallerRecord /\ k.pc = step /\ k.op = caller[q].op
        /\ k.server = caller[q].server /\ k.row = caller[q].row
    BY <1>1, <2>1 DEF CallerRecord
  <2>3. caller' = [caller EXCEPT ![q] = k]
    BY <1>4, <2>1 DEF CallerGoto
  <2>4. k.op \in {"none", "get", "reload", "reconnect", "disconnect"}
    BY <2>2 DEF CallerRecord
  <2>5. RecordFits(k)
    BY <1>1, <1>4, <2>2, <2>4 DEF RecordFits, CallerFits, Doing
  <2>6. LockPasses(q, k)
    BY <1>4, <2>2 DEF LockPasses, BeforeLock
  <2>7. KeepsFixing(q, k)
    BY <1>1, <1>4, <2>2 DEF KeepsFixing, Fixing, Forwarding, Doing
  <2>8. QED
    BY <1>1, <1>2, <1>3, <1>4, <2>2, <2>3, <2>5, <2>6, <2>7, CallerGoesOn DEF Doing
<1>5. ASSUME ReturnFrom(q), Doing(q, "get") \/ (~loaded /\ Doing(q, "disconnect"))
      PROVE  McpInv'
  <2>1. perTenant => KeepsFixing(q, IdleCaller)
    BY <1>1, <1>3, <1>5 DEF KeepsFixing, Fixing, Forwarding, Doing
  <2>2. QED
    BY <1>1, <1>2, <1>5, <2>1, CallerReturns
<1>6. caller[q].op # "none"
  BY <1>1 DEF CallerFits
<1>7. QED
  BY <1>4, <1>5, <1>6 DEF Lookup, Doing

LEMMA ReconnectFailsInv ==
  ASSUME McpInv, NEW q \in McpCallers, ReconnectFails(q)
  PROVE  McpInv'
<1>1. caller[q].pc = "dial" /\ caller[q].op = "reconnect" /\ ReturnFrom(q)
      /\ excused' = excused \cup {caller[q].server, Headers}
      /\ UNCHANGED <<perTenant, serverRows, writes, client, loaded, clients, tasks, ticking, headers>>
  BY DEF ReconnectFails, CallerAt, Doing, ServerOf
<1>2. caller[q].server \in Servers
  BY <1>1, OneCaller DEF CallerFits
<1>3. excused \subseteq Servers \cup {Headers}
  BY DEF McpInv, McpTypeOK
<1>4. KeepsFixing(q, IdleCaller)
  BY <1>1 DEF KeepsFixing, Fixing, Forwarding
<1>5. QED
  BY <1>1, <1>2, <1>3, <1>4, CallerReturns

-----------------------------------------------------------------------------
(* Writes                                                                  *)

\* A row is written or deleted, and the hook that follows it starts.
LEMMA RowChanges ==
  ASSUME McpInv, NEW q \in McpCallers, NEW s \in Servers, NEW k, RecordFits(k),
         caller' = [caller EXCEPT ![q] = k], caller[q].pc = "idle", k.pc \in BeforeLock,
         serverRows' \in [Servers -> Versions], writes' \in Versions,
         \A t \in Servers \ {s} : serverRows'[t] = serverRows[t],
         UNCHANGED <<AfterStart, excused>>,
         Fixing(k, s)'
  PROVE  McpInv'
<1>1. k \in CallerRecord
  BY DEF RecordFits
<1>2. LockPasses(q, k) /\ UNCHANGED tenantLock
  BY McpAssumption DEF LockPasses, AfterStart, McpInv, McpTypeOK
<1>3. /\ caller' \in [McpCallers -> CallerRecord]
      /\ caller'[q] = k /\ \A p \in McpCallers \ {q} : caller'[p] = caller[p]
      /\ tenantLock' \in McpCallers \cup {None}
      /\ tenantLock' # None => caller'[tenantLock'].pc \notin BeforeLock
      /\ perTenant => \A p \in McpCallers : caller'[p].pc \in UnderLock => tenantLock' = p
  BY <1>1, <1>2, CallerMoves DEF UnderLock, BeforeLock
<1>4. McpTypeOK'
  BY <1>3 DEF AfterStart, McpInv, McpTypeOK, CallerRecord, BeforeLock
<1>5. ClientsApart' /\ RegisteredOpen'
  BY DEF AfterStart, McpInv, ClientsApart, RegisteredOpen
<1>6. NobodyLoads' <=> NobodyLoads
  BY <1>3 DEF NobodyLoads, BeforeLock
<1>7. Fixed(s)'
  BY <1>3 DEF Fixed
<1>8. \A t \in Servers \ {s} : (Fixed(t) => Fixed(t)') /\ (Shows(t)' <=> Shows(t))
  BY <1>3 DEF AfterStart, Fixed, Fixing, Shows
<1>9. Forwarded'
  BY <1>3 DEF Forwarded, Forwarding
<1>10. ASSUME perTenant
       PROVE  TenantInv'
  <2>1. LockHeld' /\ NoClientLost'
    BY <1>3, <1>10 DEF AfterStart, LockHeld, McpInv, TenantInv, NoClientLost
  <2>2. Unloaded'
    BY <1>3, <1>6, <1>10 DEF AfterStart, BeforeLock, McpInv, TenantInv, Unloaded
  <2>3. ASSUME NEW p \in McpCallers
        PROVE  LoaderFits(p)'
    <3> SUFFICES ASSUME caller'[p].pc = "load"
                 PROVE  LoaderFits(p)'
      BY DEF LoaderFits
    <3>1. caller'[p] = caller[p] /\ LoaderFits(p)
      BY <1>3, <1>10 DEF BeforeLock, McpInv, TenantInv
    <3>2. QED
      BY <1>7, <1>8, <1>9, <3>1 DEF LoaderFits, AfterStart
  <2>4. Settled' /\ HeadersSettled'
    BY <1>6, <1>7, <1>8, <1>9, <1>10
    DEF AfterStart, McpInv, TenantInv, Settled, HeadersSettled
  <2>5. QED
    BY <2>1, <2>2, <2>3, <2>4 DEF TenantInv
<1>11. \A p \in McpCallers : CallerFits(p)'
  BY CallersFit
<1>12. QED
  BY <1>4, <1>5, <1>10, <1>11 DEF AfterStart, McpInv

LEMMA WriteRowInv ==
  ASSUME McpInv, NEW q \in McpCallers, NEW s \in Servers, WriteRow(q, s)
  PROVE  McpInv'
<1>1. PICK k : k = [IdleCaller EXCEPT !.pc = "row", !.op = "reconnect", !.server = s]
  OBVIOUS
<1>2. k \in CallerRecord /\ k.pc = "row" /\ k.op = "reconnect" /\ k.server = s
  BY <1>1, IdleCallerTyped DEF CallerRecord
<1>3. caller[q].pc = "idle" /\ caller' = [caller EXCEPT ![q] = k]
      /\ UNCHANGED <<AfterStart, excused>>
  BY <1>1 DEF WriteRow, Enter, CallerAt
<1>4. writes + 1 \in Versions /\ writes + 1 # 0 /\ writes' = writes + 1
      /\ serverRows' = [serverRows EXCEPT ![s] = writes + 1]
      /\ serverRows \in [Servers -> Versions]
  BY McpAssumption DEF WriteRow, McpInv, McpTypeOK, Versions
<1>5. serverRows' \in [Servers -> Versions] /\ serverRows'[s] # 0
      /\ \A t \in Servers \ {s} : serverRows'[t] = serverRows[t]
  BY <1>4
<1>6. RecordFits(k)
  BY <1>2 DEF RecordFits
<1>7. Fixing(k, s)'
  BY <1>2, <1>5 DEF Fixing
<1>8. QED
  BY <1>2, <1>3, <1>4, <1>5, <1>6, <1>7, RowChanges DEF BeforeLock

LEMMA DeleteRowInv ==
  ASSUME McpInv, NEW q \in McpCallers, NEW s \in Servers, DeleteRow(q, s)
  PROVE  McpInv'
<1>1. PICK k : k = [IdleCaller EXCEPT !.pc = "lock", !.op = "disconnect", !.server = s]
  OBVIOUS
<1>2. k \in CallerRecord /\ k.pc = "lock" /\ k.op = "disconnect" /\ k.server = s
  BY <1>1, IdleCallerTyped DEF CallerRecord
<1>3. caller[q].pc = "idle" /\ caller' = [caller EXCEPT ![q] = k]
      /\ UNCHANGED <<AfterStart, excused, writes>>
  BY <1>1 DEF DeleteRow, Enter, CallerAt
<1>4. serverRows' = [serverRows EXCEPT ![s] = 0] /\ serverRows \in [Servers -> Versions]
      /\ writes \in Versions /\ 0 \in Versions
  BY McpAssumption DEF DeleteRow, McpInv, McpTypeOK, Versions
<1>5. serverRows' \in [Servers -> Versions]
      /\ \A t \in Servers \ {s} : serverRows'[t] = serverRows[t]
  BY <1>4
<1>6. RecordFits(k)
  BY <1>2 DEF RecordFits
<1>7. Fixing(k, s)'
  BY <1>2 DEF Fixing
<1>8. QED
  BY <1>2, <1>3, <1>4, <1>5, <1>6, <1>7, RowChanges DEF BeforeLock

-----------------------------------------------------------------------------
(* Loads                                                                   *)

LEMMA Dialed ==
  ASSUME McpInv, NEW v, NEW c, Dial(v, c)
  PROVE  /\ c \in 1..MaxClients /\ c # 0 /\ client[c] = 0
         /\ \A s \in Servers : clients[s] # c
<1>1. c \in 1..MaxClients /\ client[c] = 0
  BY DEF Dial, FreeClients, McpInv, McpTypeOK
<1>2. c # 0
  BY <1>1
<1>3. QED
  BY <1>1, <1>2 DEF McpInv, RegisteredOpen

\* ListForTenant: what is listed is what the rows are, and nothing is dialed yet.
LEMMA ListSucceeds ==
  ASSUME McpInv, NEW q \in McpCallers, caller[q].pc = "list",
         caller' = [caller EXCEPT ![q].pc = "load", ![q].list = serverRows,
                                  ![q].todo = {s \in Servers : serverRows[s] # 0}],
         IF Doing(q, "reload")
           THEN /\ CloseClients({clients[s] : s \in Servers})
                /\ clients' = NoClients
                /\ loaded' = TRUE
           ELSE UNCHANGED <<client, clients, loaded>>,
         UNCHANGED <<perTenant, serverRows, writes, tasks, ticking, headers, tenantLock, excused>>
  PROVE  McpInv'
<1>1. caller[q] \in CallerRecord /\ CallerFits(q)
  BY OneCaller
<1>2. serverRows \in [Servers -> Versions]
  BY DEF McpInv, McpTypeOK
<1>3. PICK k : k = [caller[q] EXCEPT !.pc = "load", !.list = serverRows,
                                     !.todo = {s \in Servers : serverRows[s] # 0}]
  OBVIOUS
<1>4. /\ k \in CallerRecord /\ k.pc = "load" /\ k.list = serverRows /\ k.op = caller[q].op
      /\ k.todo = {s \in Servers : serverRows[s] # 0}
      /\ k.server = caller[q].server /\ k.row = caller[q].row
  BY <1>1, <1>2, <1>3 DEF CallerRecord
<1>5. caller' = [caller EXCEPT ![q] = k]
  BY <1>1, <1>3, OneCaller DEF CallerRecord
<1>6. LockPasses(q, k)
  BY <1>4 DEF LockPasses, BeforeLock
<1>7. /\ caller' \in [McpCallers -> CallerRecord]
      /\ caller'[q] = k /\ \A p \in McpCallers \ {q} : caller'[p] = caller[p]
      /\ tenantLock' \in McpCallers \cup {None}
      /\ tenantLock' # None => caller'[tenantLock'].pc \notin BeforeLock
  BY <1>4, <1>5, <1>6, CallerMoves
<1>8. /\ client' \in [1..MaxClients -> Versions] /\ clients' \in [Servers -> 0..MaxClients]
      /\ loaded' \in BOOLEAN
  <2>1. 0 \in Versions
    BY McpAssumption DEF Versions
  <2>2. CASE Doing(q, "reload")
    BY <2>1, <2>2, NoClientsTyped DEF McpInv, McpTypeOK, CloseClients
  <2>3. CASE ~Doing(q, "reload")
    BY <2>3 DEF McpInv, McpTypeOK
  <2>4. QED
    BY <2>2, <2>3
<1>9. McpTypeOK'
  BY <1>7, <1>8 DEF McpInv, McpTypeOK, CallerRecord, BeforeLock
<1>10. RecordFits(k)
  BY <1>1, <1>4 DEF RecordFits, CallerFits
<1>11. \A p \in McpCallers : CallerFits(p)'
  BY <1>5, <1>10, CallersFit
<1>12. ClientsApart' /\ RegisteredOpen'
  BY NoClientsTyped DEF McpInv, ClientsApart, RegisteredOpen
<1>13. ASSUME perTenant
       PROVE  TenantInv'
  <2>1. tenantLock = q /\ NobodyLoads /\ \A p \in McpCallers \ {q} : caller[p].pc \notin UnderLock
    BY <1>13, AloneUnderLock DEF UnderLock, NobodyLoads
  <2>2. LockHeld'
    BY <1>7, <2>1 DEF LockHeld
  <2>3. \A s \in Servers : clients'[s] = 0
    BY <1>13, <2>1, NoClientsTyped DEF McpInv, TenantInv, Unloaded, Doing
  <2>4. Unloaded'
    BY <1>4, <1>7, <1>13, <2>1, <2>3 DEF McpInv, TenantInv, Unloaded, Doing, UnderLock
  <2>5. NoClientLost'
    <3>1. /\ \A c \in DOMAIN client : client[c] # 0 => \E s \in Servers : clients[s] = c
          /\ client \in [1..MaxClients -> Versions]
      BY <1>13 DEF McpInv, McpTypeOK, TenantInv, NoClientLost
    <3>2. CASE Doing(q, "reload")
      <4>1. client' = [c \in DOMAIN client |->
                        IF c \in {clients[s] : s \in Servers} THEN 0 ELSE client[c]]
        BY <3>2 DEF CloseClients
      <4>2. \A c \in DOMAIN client : client'[c] = 0
        BY <3>1, <4>1
      <4>3. DOMAIN client' = DOMAIN client
        BY <4>1
      <4>4. QED
        BY <4>2, <4>3 DEF NoClientLost
    <3>3. CASE ~Doing(q, "reload")
      BY <3>1, <3>3 DEF NoClientLost
    <3>4. QED
      BY <3>2, <3>3
  <2>6. ASSUME NEW p \in McpCallers
        PROVE  LoaderFits(p)'
    <3> SUFFICES ASSUME caller'[p].pc = "load"
                 PROVE  LoaderFits(p)'
      BY DEF LoaderFits
    <3>1. p = q
      BY <1>7, <2>1 DEF UnderLock
    <3>2. \A s \in Servers \ excused :
            Fixed(s)' \/ (s \in tasks => serverRows[s] \in TimedVersions)
      <4>1. ~loaded => tasks = {}
        BY <1>13 DEF McpInv, TenantInv, Unloaded
      <4>2. \A s \in Servers : Fixing(caller[q], s) => Fixing(k, s)
        BY <1>4 DEF Fixing
      <4>3. \A s \in Servers : Fixed(s) => Fixed(s)'
        <5>1. SUFFICES ASSUME NEW s \in Servers, Fixed(s)
                       PROVE  Fixed(s)'
          OBVIOUS
        <5>2. PICK r \in McpCallers : Fixing(caller[r], s)
          BY <5>1 DEF Fixed
        <5>3. CASE r = q
          <6>1. Fixing(k, s)
            BY <4>2, <5>2, <5>3
          <6>2. QED
            BY <1>7, <6>1 DEF Fixed, Fixing
        <5>4. CASE r # q
          BY <1>7, <5>2, <5>4 DEF Fixed, Fixing
        <5>5. QED
          BY <5>3, <5>4
      <4>4. loaded => \A s \in Servers \ excused :
              Fixed(s) \/ (s \in tasks => serverRows[s] \in TimedVersions)
        BY <1>13, <2>1 DEF McpInv, TenantInv, Settled
      <4>5. QED
        BY <4>1, <4>3, <4>4 DEF McpInv, McpTypeOK
    <3>3. \A s \in Servers : s \notin k.todo => Shows(s)'
      BY <1>4, <2>3 DEF Shows
    <3>4. QED
      BY <1>4, <1>7, <2>3, <3>1, <3>2, <3>3 DEF LoaderFits
  <2>7. Settled'
    BY <1>4, <1>7 DEF Settled, NobodyLoads
  <2>8. HeadersSettled'
    BY <1>4, <1>7 DEF HeadersSettled, NobodyLoads
  <2>9. QED
    BY <2>2, <2>4, <2>5, <2>6, <2>7, <2>8 DEF TenantInv
<1>14. QED
  BY <1>9, <1>11, <1>12, <1>13 DEF McpInv

LEMMA ListInv ==
  ASSUME McpInv, NEW q \in McpCallers, List(q)
  PROVE  McpInv'
<1>1. caller[q].pc = "list" /\ CallerFits(q)
  BY OneCaller DEF List, CallerAt
<1>2. UNCHANGED <<perTenant, serverRows, writes, tasks, ticking, headers>>
  BY DEF List
<1>3. ASSUME ReturnFrom(q), UNCHANGED <<client, clients, loaded>>,
             excused' = IF Doing(q, "reconnect") THEN excused \cup {ServerOf(q), Headers}
                                                 ELSE excused
      PROVE  McpInv'
  <2>1. excused \subseteq excused' /\ excused' \subseteq Servers \cup {Headers}
    BY <1>1, <1>3 DEF CallerFits, Doing, ServerOf, McpInv, McpTypeOK
  <2>2. KeepsFixing(q, IdleCaller)
    BY <1>1, <1>3 DEF KeepsFixing, Fixing, Forwarding, Doing, ServerOf
  <2>3. QED
    BY <1>1, <1>2, <1>3, <2>1, <2>2, CallerReturns
<1>4. QED
  BY <1>1, <1>2, <1>3, ListSucceeds DEF List

\* What is on its way and not q's stays on its way.
LEMMA OthersFix ==
  ASSUME McpInv, NEW q \in McpCallers, NEW k \in CallerRecord,
         caller' = [caller EXCEPT ![q] = k], UNCHANGED serverRows
  PROVE  /\ \A s \in Servers : Fixed(s) => Fixed(s)' \/ Fixing(caller[q], s)
         /\ Forwarded => Forwarded' \/ Forwarding(caller[q])
         /\ Forwarding(k) => Forwarded'
<1>1. caller'[q] = k /\ \A p \in McpCallers \ {q} : caller'[p] = caller[p]
  BY OneCaller
<1>2. ASSUME NEW s \in Servers, Fixed(s)
      PROVE  Fixed(s)' \/ Fixing(caller[q], s)
  <2>1. PICK p \in McpCallers : Fixing(caller[p], s)
    BY <1>2 DEF Fixed
  <2>2. CASE p = q
    BY <2>1, <2>2
  <2>3. CASE p # q
    BY <1>1, <2>1, <2>3 DEF Fixed, Fixing
  <2>4. QED
    BY <2>2, <2>3
<1>3. ASSUME Forwarded
      PROVE  Forwarded' \/ Forwarding(caller[q])
  <2>1. PICK p \in McpCallers : Forwarding(caller[p])
    BY <1>3 DEF Forwarded
  <2>2. CASE p = q
    BY <2>1, <2>2
  <2>3. CASE p # q
    BY <1>1, <2>1, <2>3 DEF Forwarded, Forwarding, Fixing
  <2>4. QED
    BY <2>2, <2>3
<1>4. Forwarding(k) => Forwarded'
  BY <1>1 DEF Forwarded, Forwarding, Fixing
<1>5. QED
  BY <1>2, <1>3, <1>4

\* A load goes on to the next server: s is dialed, or excused.
LEMMA LoadGoesOn ==
  ASSUME McpInv, NEW q \in McpCallers, NEW s \in caller[q].todo, caller[q].pc = "load",
         caller' = [caller EXCEPT ![q].todo = @ \ {s}],
         UNCHANGED <<perTenant, serverRows, writes, loaded, tasks, ticking, headers, tenantLock>>,
         client' \in [1..MaxClients -> Versions], clients' \in [Servers -> 0..MaxClients],
         excused \subseteq excused', excused' \subseteq Servers \cup {Headers},
         ClientsApart', RegisteredOpen', perTenant => NoClientLost',
         \A t \in Servers \ {s} : clients'[t] = clients[t] /\ (Shows(t)' <=> Shows(t)),
         s \notin excused' => (caller[q].list[s] = serverRows[s] => Shows(s)')
  PROVE  McpInv'
<1>1. caller[q] \in CallerRecord /\ CallerFits(q)
  BY OneCaller
<1>2. PICK k : k = [caller[q] EXCEPT !.todo = @ \ {s}]
  OBVIOUS
<1>3. /\ k \in CallerRecord /\ k.pc = "load" /\ k.list = caller[q].list /\ k.op = caller[q].op
      /\ k.todo = caller[q].todo \ {s}
      /\ k.server = caller[q].server /\ k.row = caller[q].row
  BY <1>1, <1>2 DEF CallerRecord
<1>4. caller' = [caller EXCEPT ![q] = k]
  BY <1>2
<1>5. LockPasses(q, k)
  BY <1>3 DEF LockPasses, BeforeLock
<1>6. /\ caller' \in [McpCallers -> CallerRecord]
      /\ caller'[q] = k /\ \A p \in McpCallers \ {q} : caller'[p] = caller[p]
      /\ tenantLock' \in McpCallers \cup {None}
      /\ tenantLock' # None => caller'[tenantLock'].pc \notin BeforeLock
  BY <1>3, <1>4, <1>5, CallerMoves
<1>7. McpTypeOK'
  BY <1>6 DEF McpInv, McpTypeOK, CallerRecord, BeforeLock
<1>8. RecordFits(k)
  BY <1>1, <1>3 DEF RecordFits, CallerFits
<1>9. \A p \in McpCallers : CallerFits(p)'
  BY <1>4, <1>8, CallersFit
<1>10. ASSUME perTenant
       PROVE  TenantInv'
  <2>1. tenantLock = q /\ \A p \in McpCallers \ {q} : caller[p].pc \notin UnderLock
    BY <1>10, AloneUnderLock DEF UnderLock
  <2>2. LockHeld'
    BY <1>6, <2>1 DEF LockHeld
  <2>3. ~NobodyLoads /\ ~NobodyLoads'
    BY <1>3, <1>6 DEF NobodyLoads
  <2>4. Unloaded'
    BY <1>3, <1>6, <1>10, <2>1, <2>3 DEF McpInv, TenantInv, Unloaded, UnderLock
  <2>5. KeepsFixing(q, k)
    BY <1>3 DEF KeepsFixing, Fixing, Forwarding
  <2>6. /\ \A t \in Servers \ excused' : Fixed(t) => Fixed(t)'
        /\ Headers \notin excused' => (Forwarded => Forwarded')
    BY <1>3, <1>4, <2>3, <2>5, FixedStays
  <2>7. ASSUME NEW p \in McpCallers
        PROVE  LoaderFits(p)'
    <3> SUFFICES ASSUME caller'[p].pc = "load"
                 PROVE  LoaderFits(p)'
      BY DEF LoaderFits
    <3>1. p = q
      BY <1>6, <2>1 DEF UnderLock
    <3>2. LoaderFits(q)
      BY <1>10 DEF McpInv, TenantInv
    <3>3. \A t \in k.todo : clients'[t] = 0
      BY <1>1, <1>3, <3>2 DEF LoaderFits, CallerRecord
    <3>4. ASSUME NEW t \in Servers \ excused', ~Fixed(t)'
          PROVE  /\ k.list[t] = serverRows[t]
                 /\ t \in tasks => serverRows[t] \in TimedVersions
                 /\ t \notin k.todo => Shows(t)'
      <4>1. /\ caller[q].list[t] = serverRows[t]
            /\ t \in tasks => serverRows[t] \in TimedVersions
            /\ t \notin caller[q].todo => Shows(t)
        BY <2>6, <3>2, <3>4 DEF LoaderFits
      <4>2. QED
        BY <1>3, <4>1
    <3>5. Headers \notin excused' => Forwarded' \/ k.list = serverRows
      BY <1>3, <2>6, <3>2 DEF LoaderFits
    <3>6. QED
      BY <1>6, <3>1, <3>3, <3>4, <3>5 DEF LoaderFits
  <2>8. Settled' /\ HeadersSettled'
    BY <2>3 DEF Settled, HeadersSettled
  <2>9. QED
    BY <1>10, <2>2, <2>4, <2>7, <2>8 DEF TenantInv
<1>11. QED
  BY <1>7, <1>9, <1>10 DEF McpInv

LEMMA LoadServerInv ==
  ASSUME McpInv, NEW q \in McpCallers, NEW s \in Servers, LoadServer(q, s)
  PROVE  McpInv'
<1>1. /\ caller[q].pc = "load" /\ s \in caller[q].todo
      /\ caller' = [caller EXCEPT ![q].todo = @ \ {s}]
      /\ UNCHANGED <<perTenant, serverRows, writes, loaded, tasks, ticking, headers, tenantLock>>
  BY DEF LoadServer, CallerAt
<1>2. caller[q] \in CallerRecord /\ CallerFits(q)
  BY OneCaller
<1>3. /\ client \in [1..MaxClients -> Versions] /\ clients \in [Servers -> 0..MaxClients]
      /\ excused \subseteq Servers \cup {Headers} /\ ClientsApart /\ RegisteredOpen
  BY DEF McpInv, McpTypeOK
<1>4. perTenant => NoClientLost /\ clients[s] = 0
  BY <1>1 DEF McpInv, TenantInv, LoaderFits
<1>5. ASSUME NEW c \in DOMAIN client, Dial(caller[q].list[s], c),
             client' = [client EXCEPT ![c] = caller[q].list[s]],
             clients' = [clients EXCEPT ![s] = c],
             UNCHANGED excused
      PROVE  McpInv'
  <2>1. PICK v \in Versions : v = caller[q].list[s] /\ v # 0
    BY <1>1, <1>2 DEF CallerFits, CallerRecord
  <2>2. /\ c \in 1..MaxClients /\ c # 0 /\ client[c] = 0
        /\ \A t \in Servers : clients[t] # c
    BY <1>5, Dialed
  <2>3. c \in 0..MaxClients
    BY <2>2, McpAssumption
  <2>4. client' = [client EXCEPT ![c] = v]
    BY <1>5, <2>1
  <2>5. /\ client' \in [1..MaxClients -> Versions] /\ client'[c] = v
        /\ \A d \in 1..MaxClients \ {c} : client'[d] = client[d]
    BY <1>3, <2>1, <2>2, <2>4
  <2>6. /\ clients' \in [Servers -> 0..MaxClients] /\ clients'[s] = c
        /\ \A t \in Servers \ {s} : clients'[t] = clients[t]
    BY <1>3, <1>5, <2>3
  <2>7. \A t \in Servers : clients[t] # 0 => clients[t] \in 1..MaxClients \ {c}
    BY <1>3, <2>2, McpAssumption
  <2>8. ClientsApart'
    BY <1>3, <2>2, <2>6 DEF ClientsApart
  <2>9. RegisteredOpen'
    BY <1>3, <2>1, <2>5, <2>6, <2>7 DEF RegisteredOpen
  <2>10. perTenant => NoClientLost'
    <3>1. SUFFICES ASSUME perTenant, NEW d \in 1..MaxClients, client'[d] # 0
                   PROVE  \E t \in Servers : clients'[t] = d
      BY <2>5 DEF NoClientLost
    <3>2. CASE d = c
      BY <2>6, <3>2
    <3>3. CASE d # c
      <4>1. client[d] # 0 /\ d # 0
        BY <2>5, <3>1, <3>3
      <4>2. PICK t \in Servers : clients[t] = d
        BY <1>3, <1>4, <3>1, <4>1 DEF NoClientLost
      <4>3. QED
        BY <1>4, <2>6, <3>1, <4>1, <4>2
    <3>4. QED
      BY <3>2, <3>3
  <2>11. \A t \in Servers \ {s} : clients'[t] = clients[t] /\ (Shows(t)' <=> Shows(t))
    BY <1>1, <2>5, <2>6, <2>7 DEF Shows
  <2>12. caller[q].list[s] = serverRows[s] => Shows(s)'
    BY <1>1, <2>1, <2>2, <2>5, <2>6 DEF Shows
  <2>13. QED
    BY <1>1, <1>3, <1>5, <2>5, <2>6, <2>8, <2>9, <2>10, <2>11, <2>12, LoadGoesOn
<1>6. ASSUME excused' = excused \cup {s}, UNCHANGED <<client, clients>>
      PROVE  McpInv'
  <2>1. ClientsApart' /\ RegisteredOpen' /\ (perTenant => NoClientLost')
    BY <1>1, <1>3, <1>4, <1>6 DEF ClientsApart, RegisteredOpen, NoClientLost
  <2>2. \A t \in Servers \ {s} : clients'[t] = clients[t] /\ (Shows(t)' <=> Shows(t))
    BY <1>1, <1>6 DEF Shows
  <2>3. QED
    BY <1>1, <1>3, <1>6, <2>1, <2>2, LoadGoesOn
<1>7. QED
  BY <1>5, <1>6 DEF LoadServer

\* The registry is published as it was listed; from then on whatever differs is on its way.
LEMMA FinishLoadInv ==
  ASSUME McpInv, NEW q \in McpCallers, FinishLoad(q)
  PROVE  McpInv'
<1>1. /\ caller[q].pc = "load" /\ caller[q].todo = {} /\ loaded' = TRUE
      /\ headers' = caller[q].list /\ tasks' = tasks \cup TimedIn(caller[q].list)
      /\ UNCHANGED <<perTenant, serverRows, writes, client, clients, ticking, excused>>
  BY DEF FinishLoad, CallerAt
<1>2. caller[q] \in CallerRecord /\ CallerFits(q)
  BY OneCaller
<1>3. PICK k \in CallerRecord :
        /\ caller' = [caller EXCEPT ![q] = k] /\ RecordFits(k) /\ LockPasses(q, k)
        /\ k.pc \in {"dial", "idle"} /\ (k.pc = "dial" => tenantLock' = tenantLock)
        /\ caller[q].op = "reconnect" =>
             k.pc = "dial" /\ k.op = "reconnect" /\ k.server = caller[q].server
  <2>1. CASE /\ caller[q].op = "reconnect" /\ UNCHANGED tenantLock
             /\ caller' = [caller EXCEPT ![q].pc = "dial", ![q].list = NoClients]
    <3>1. PICK k : k = [caller[q] EXCEPT !.pc = "dial", !.list = NoClients]
      OBVIOUS
    <3>2. /\ k \in CallerRecord /\ k.pc = "dial" /\ k.op = "reconnect"
          /\ k.server = caller[q].server /\ k.row = caller[q].row
      BY <1>2, <2>1, <3>1, NoClientsTyped DEF CallerRecord
    <3>3. caller' = [caller EXCEPT ![q] = k]
      BY <2>1, <3>1, OneCaller DEF CallerRecord
    <3>4. RecordFits(k) /\ LockPasses(q, k)
      BY <1>1, <1>2, <2>1, <3>2 DEF RecordFits, CallerFits, LockPasses, BeforeLock
    <3>5. QED
      BY <2>1, <3>2, <3>3, <3>4
  <2>2. CASE caller[q].op # "reconnect" /\ ReturnFrom(q)
    BY <2>2, IdleFitsRecord, IdleCallerTyped DEF ReturnFrom, LockPasses
  <2>3. QED
    BY <2>1, <2>2 DEF FinishLoad, Doing
<1>4. /\ caller' \in [McpCallers -> CallerRecord]
      /\ caller'[q] = k /\ \A p \in McpCallers \ {q} : caller'[p] = caller[p]
      /\ tenantLock' \in McpCallers \cup {None}
      /\ tenantLock' # None => caller'[tenantLock'].pc \notin BeforeLock
  BY <1>3, CallerMoves
<1>5. McpTypeOK'
  <2>1. caller[q].list \in [Servers -> Versions] /\ TimedIn(caller[q].list) \subseteq Servers
    BY <1>2 DEF CallerRecord, TimedIn
  <2>2. QED
    BY <1>1, <1>4, <2>1 DEF McpInv, McpTypeOK, CallerRecord, BeforeLock
<1>6. \A p \in McpCallers : CallerFits(p)'
  BY <1>3, CallersFit
<1>7. ClientsApart' /\ RegisteredOpen'
  BY <1>1 DEF McpInv, ClientsApart, RegisteredOpen
<1>8. ASSUME perTenant
      PROVE  TenantInv'
  <2>1. tenantLock = q /\ ~NobodyLoads
        /\ \A p \in McpCallers \ {q} : caller[p].pc \notin UnderLock
    BY <1>1, <1>8, AloneUnderLock DEF UnderLock, NobodyLoads
  <2>2. LockHeld'
    BY <1>3, <1>4, <2>1 DEF LockHeld, UnderLock
  <2>3. \A p \in McpCallers : caller'[p].pc \notin {"list", "load"}
    BY <1>3, <1>4, <2>1 DEF UnderLock
  <2>4. Unloaded'
    BY <1>1, <2>3 DEF Unloaded
  <2>5. NoClientLost'
    BY <1>1, <1>8 DEF McpInv, TenantInv, NoClientLost
  <2>6. \A p \in McpCallers : LoaderFits(p)'
    BY <2>3 DEF LoaderFits
  <2>7. KeepsFixing(q, k)
    BY <1>1, <1>3 DEF KeepsFixing, Fixing, Forwarding
  <2>8. /\ \A s \in Servers \ excused : Fixed(s) => Fixed(s)'
        /\ Headers \notin excused => (Forwarded => Forwarded')
    BY <1>1, <1>3, <2>1, <2>7, FixedStays
  <2>9. LoaderFits(q)
    BY <1>8 DEF McpInv, TenantInv
  <2>10. Settled'
    <3>1. SUFFICES ASSUME NEW s \in Servers \ excused, ~Fixed(s)'
                   PROVE  Shows(s)' /\ (s \in tasks' <=> serverRows[s] \in TimedVersions)
      BY <1>1 DEF Settled
    <3>2. /\ caller[q].list[s] = serverRows[s] /\ Shows(s)
          /\ s \in tasks => serverRows[s] \in TimedVersions
      BY <1>1, <2>8, <2>9, <3>1 DEF LoaderFits
    <3>3. QED
      BY <1>1, <3>2 DEF Shows, TimedIn
  <2>11. HeadersSettled'
    BY <1>1, <2>8, <2>9 DEF LoaderFits, HeadersSettled
  <2>12. QED
    BY <2>2, <2>4, <2>5, <2>6, <2>10, <2>11 DEF TenantInv
<1>9. QED
  BY <1>1, <1>5, <1>6, <1>7, <1>8 DEF McpInv

-----------------------------------------------------------------------------
(* The hooks of a write                                                    *)

\* A hook has put its server right, or excused it, and goes on to the headers.
LEMMA HookGoesOn ==
  ASSUME McpInv, NEW q \in McpCallers, NEW s \in Servers,
         caller[q].pc = "dial", caller[q].server = s, CallerGoto(q, "forward"),
         UNCHANGED <<perTenant, serverRows, writes, loaded, ticking, headers, tenantLock>>,
         client' \in [1..MaxClients -> Versions], clients' \in [Servers -> 0..MaxClients],
         tasks' \subseteq Servers,
         excused \subseteq excused', excused' \subseteq Servers \cup {Headers},
         ClientsApart', RegisteredOpen', perTenant => NoClientLost',
         \A t \in Servers \ {s} : (Shows(t)' <=> Shows(t)) /\ (t \in tasks' <=> t \in tasks),
         s \notin excused' => Shows(s)' /\ (s \in tasks' <=> serverRows[s] \in TimedVersions)
  PROVE  McpInv'
<1>1. caller[q] \in CallerRecord /\ CallerFits(q)
  BY OneCaller
<1>2. PICK k : k = [caller[q] EXCEPT !.pc = "forward"]
  OBVIOUS
<1>3. /\ k \in CallerRecord /\ k.pc = "forward" /\ k.op = caller[q].op
      /\ k.server = s /\ k.row = caller[q].row
  BY <1>1, <1>2 DEF CallerRecord
<1>4. caller' = [caller EXCEPT ![q] = k]
  BY <1>2 DEF CallerGoto
<1>5. LockPasses(q, k)
  BY <1>3 DEF LockPasses, BeforeLock
<1>6. /\ caller' \in [McpCallers -> CallerRecord]
      /\ caller'[q] = k /\ \A p \in McpCallers \ {q} : caller'[p] = caller[p]
      /\ tenantLock' \in McpCallers \cup {None}
      /\ tenantLock' # None => caller'[tenantLock'].pc \notin BeforeLock
  BY <1>3, <1>4, <1>5, CallerMoves
<1>7. McpTypeOK'
  BY <1>6 DEF McpInv, McpTypeOK, CallerRecord, BeforeLock
<1>8. RecordFits(k)
  BY <1>1, <1>3 DEF RecordFits, CallerFits
<1>9. \A p \in McpCallers : CallerFits(p)'
  BY <1>4, <1>8, CallersFit
<1>10. ASSUME perTenant
       PROVE  TenantInv'
  <2>1. tenantLock = q /\ loaded
        /\ \A p \in McpCallers \ {q} : caller[p].pc \notin UnderLock
    BY <1>10, AloneUnderLock DEF UnderLock, McpInv, TenantInv, Unloaded
  <2>2. LockHeld'
    BY <1>6, <2>1 DEF LockHeld
  <2>3. NobodyLoads /\ \A p \in McpCallers : caller'[p].pc \notin {"list", "load"}
    BY <1>3, <1>6, <2>1 DEF NobodyLoads, UnderLock
  <2>4. Unloaded'
    BY <2>1, <2>3 DEF Unloaded
  <2>5. \A p \in McpCallers : LoaderFits(p)'
    BY <2>3 DEF LoaderFits
  <2>6. /\ \A t \in Servers : Fixed(t) => Fixed(t)' \/ Fixing(caller[q], t)
        /\ Forwarded'
    BY <1>3, <1>4, OthersFix DEF Forwarding
  <2>7. Settled'
    <3>1. SUFFICES ASSUME NEW t \in Servers \ excused', ~Fixed(t)'
                   PROVE  Shows(t)' /\ (t \in tasks' <=> serverRows[t] \in TimedVersions)
      BY DEF Settled
    <3>2. CASE t = s
      BY <3>1, <3>2
    <3>3. CASE t # s
      <4>1. ~Fixed(t)
        BY <2>6, <3>1, <3>3 DEF Fixing
      <4>2. Shows(t) /\ (t \in tasks <=> serverRows[t] \in TimedVersions)
        BY <1>10, <2>1, <2>3, <3>1, <4>1 DEF McpInv, TenantInv, Settled
      <4>3. QED
        BY <3>3, <4>2
    <3>4. QED
      BY <3>2, <3>3
  <2>8. HeadersSettled'
    BY <2>6 DEF HeadersSettled
  <2>9. QED
    BY <1>10, <2>2, <2>4, <2>5, <2>7, <2>8 DEF TenantInv
<1>11. QED
  BY <1>7, <1>9, <1>10 DEF McpInv

LEMMA ReconnectInv ==
  ASSUME McpInv, NEW q \in McpCallers, Reconnect(q)
  PROVE  McpInv'
<1>1. PICK s \in Servers : s = caller[q].server
  BY OneCaller DEF Reconnect, Doing, CallerFits
<1>2. PICK v \in Versions : v = caller[q].row /\ v # 0
  BY OneCaller DEF Reconnect, Doing, CallerAt, CallerFits, CallerRecord
<1>3. PICK c \in DOMAIN client :
        Dial(v, c) /\ client' = Swap(s, c, v) /\ clients' = [clients EXCEPT ![s] = c]
  BY <1>1, <1>2 DEF Reconnect, ServerOf
<1>4. /\ caller[q].pc = "dial" /\ CallerGoto(q, "forward")
      /\ tasks' = IF v \in TimedVersions THEN tasks \cup {s} ELSE tasks \ {s}
      /\ excused' = IF v = serverRows[s] THEN excused ELSE excused \cup {s}
      /\ UNCHANGED <<perTenant, serverRows, writes, loaded, ticking, headers, tenantLock>>
  BY <1>1, <1>2 DEF Reconnect, ServerOf, CallerAt
<1>5. /\ client \in [1..MaxClients -> Versions] /\ clients \in [Servers -> 0..MaxClients]
      /\ tasks \subseteq Servers
      /\ excused \subseteq Servers \cup {Headers} /\ ClientsApart /\ RegisteredOpen
      /\ perTenant => NoClientLost
  BY DEF McpInv, McpTypeOK, TenantInv
<1>6. /\ c \in 1..MaxClients /\ c # 0 /\ client[c] = 0
      /\ \A t \in Servers : clients[t] # c
  BY <1>3, Dialed
<1>7. c \in 0..MaxClients /\ 0 \in Versions
  BY <1>6, McpAssumption DEF Versions
<1>8. /\ client' \in [1..MaxClients -> Versions] /\ client'[c] = v
      /\ \A d \in 1..MaxClients \ {c} : client'[d] = IF d = clients[s] THEN 0 ELSE client[d]
  BY <1>3, <1>5, <1>6, <1>7 DEF Swap
<1>9. /\ clients' \in [Servers -> 0..MaxClients] /\ clients'[s] = c
      /\ \A t \in Servers \ {s} : clients'[t] = clients[t]
  BY <1>3, <1>5, <1>7
<1>10. \A t \in Servers \ {s} : clients[t] # 0 =>
         clients[t] \in 1..MaxClients \ {c} /\ clients[t] # clients[s]
  BY <1>5, <1>6, McpAssumption DEF ClientsApart
<1>11. \A t \in Servers \ {s} : clients[t] # 0 => client'[clients[t]] = client[clients[t]]
  BY <1>8, <1>10
<1>12. ClientsApart'
  BY <1>5, <1>6, <1>9 DEF ClientsApart
<1>13. RegisteredOpen'
  BY <1>2, <1>5, <1>8, <1>9, <1>11 DEF RegisteredOpen
<1>14. perTenant => NoClientLost'
  <2>1. SUFFICES ASSUME perTenant, NEW d \in 1..MaxClients, client'[d] # 0
                 PROVE  \E t \in Servers : clients'[t] = d
    BY <1>8 DEF NoClientLost
  <2>2. CASE d = c
    BY <1>9, <2>2
  <2>3. CASE d # c
    <3>1. client[d] # 0 /\ d # clients[s]
      BY <1>8, <2>1, <2>3
    <3>2. PICK t \in Servers : clients[t] = d
      BY <1>5, <2>1, <3>1 DEF NoClientLost
    <3>3. QED
      BY <1>9, <3>1, <3>2
  <2>4. QED
    BY <2>2, <2>3
<1>15. \A t \in Servers \ {s} : (Shows(t)' <=> Shows(t)) /\ (t \in tasks' <=> t \in tasks)
  BY <1>4, <1>9, <1>11 DEF Shows
<1>16. s \notin excused' => Shows(s)' /\ (s \in tasks' <=> serverRows[s] \in TimedVersions)
  BY <1>4, <1>6, <1>8, <1>9 DEF Shows
<1>17. tasks' \subseteq Servers /\ excused \subseteq excused' /\ excused' \subseteq Servers \cup {Headers}
  BY <1>4, <1>5
<1>18. QED
  BY <1>1, <1>4, <1>8, <1>9, <1>12, <1>13, <1>14, <1>15, <1>16, <1>17, HookGoesOn

LEMMA DisconnectInv ==
  ASSUME McpInv, NEW q \in McpCallers, Disconnect(q)
  PROVE  McpInv'
<1>1. PICK s \in Servers : s = caller[q].server
  BY OneCaller DEF Disconnect, Doing, CallerFits
<1>2. /\ caller[q].pc = "dial" /\ CallerGoto(q, "forward")
      /\ client' = [c \in DOMAIN client |-> IF c \in {clients[s]} THEN 0 ELSE client[c]]
      /\ clients' = [clients EXCEPT ![s] = 0] /\ tasks' = tasks \ {s}
      /\ excused' = IF serverRows[s] = 0 THEN excused ELSE excused \cup {s}
      /\ UNCHANGED <<perTenant, serverRows, writes, loaded, ticking, headers, tenantLock>>
  BY <1>1 DEF Disconnect, ServerOf, CallerAt, CloseClients
<1>3. /\ client \in [1..MaxClients -> Versions] /\ clients \in [Servers -> 0..MaxClients]
      /\ tasks \subseteq Servers
      /\ excused \subseteq Servers \cup {Headers} /\ ClientsApart /\ RegisteredOpen
      /\ perTenant => NoClientLost
  BY DEF McpInv, McpTypeOK, TenantInv
<1>4. 0 \in Versions /\ 0 \in 0..MaxClients /\ 0 \notin TimedVersions
  BY McpAssumption DEF Versions
<1>5. /\ client' \in [1..MaxClients -> Versions]
      /\ \A d \in 1..MaxClients : client'[d] = IF d = clients[s] THEN 0 ELSE client[d]
  BY <1>2, <1>3, <1>4
<1>6. /\ clients' \in [Servers -> 0..MaxClients] /\ clients'[s] = 0
      /\ \A t \in Servers \ {s} : clients'[t] = clients[t]
  BY <1>2, <1>3, <1>4
<1>7. \A t \in Servers \ {s} : clients[t] # 0 =>
        clients[t] \in 1..MaxClients /\ clients[t] # clients[s]
  BY <1>3, McpAssumption DEF ClientsApart
<1>8. \A t \in Servers \ {s} : clients[t] # 0 => client'[clients[t]] = client[clients[t]]
  BY <1>5, <1>7
<1>9. ClientsApart'
  BY <1>3, <1>6 DEF ClientsApart
<1>10. RegisteredOpen'
  BY <1>3, <1>6, <1>8 DEF RegisteredOpen
<1>11. perTenant => NoClientLost'
  <2>1. SUFFICES ASSUME perTenant, NEW d \in 1..MaxClients, client'[d] # 0
                 PROVE  \E t \in Servers : clients'[t] = d
    BY <1>5 DEF NoClientLost
  <2>2. client[d] # 0 /\ d # clients[s]
    BY <1>5, <2>1
  <2>3. PICK t \in Servers : clients[t] = d
    BY <1>3, <2>1, <2>2 DEF NoClientLost
  <2>4. QED
    BY <1>6, <2>2, <2>3
<1>12. \A t \in Servers \ {s} : (Shows(t)' <=> Shows(t)) /\ (t \in tasks' <=> t \in tasks)
  BY <1>2, <1>6, <1>8 DEF Shows
<1>13. s \notin excused' => Shows(s)' /\ (s \in tasks' <=> serverRows[s] \in TimedVersions)
  BY <1>2, <1>4, <1>6 DEF Shows
<1>14. tasks' \subseteq Servers /\ excused \subseteq excused' /\ excused' \subseteq Servers \cup {Headers}
  BY <1>2, <1>3
<1>15. QED
  BY <1>1, <1>2, <1>5, <1>6, <1>9, <1>10, <1>11, <1>12, <1>13, <1>14, HookGoesOn

LEMMA ForwardInv ==
  ASSUME McpInv, NEW q \in McpCallers, Forward(q)
  PROVE  McpInv'
<1>1. /\ caller[q].pc = "forward" /\ ReturnFrom(q)
      /\ UNCHANGED <<perTenant, serverRows, writes, client, loaded, clients, tasks, ticking>>
  BY DEF Forward, CallerAt
<1>2. CASE excused' = excused \cup {Headers} /\ UNCHANGED headers
  <2>1. KeepsFixing(q, IdleCaller)
    BY <1>1, <1>2 DEF KeepsFixing, Fixing
  <2>2. excused \subseteq excused' /\ excused' \subseteq Servers \cup {Headers}
    BY <1>2 DEF McpInv, McpTypeOK
  <2>3. QED
    BY <1>1, <1>2, <2>1, <2>2, CallerReturns
<1>3. CASE headers' = serverRows /\ UNCHANGED excused
  <2>1. caller' = [caller EXCEPT ![q] = IdleCaller] /\ LockPasses(q, IdleCaller)
    BY <1>1 DEF ReturnFrom, LockPasses
  <2>2. /\ caller' \in [McpCallers -> CallerRecord]
        /\ caller'[q] = IdleCaller /\ \A p \in McpCallers \ {q} : caller'[p] = caller[p]
        /\ tenantLock' \in McpCallers \cup {None}
        /\ tenantLock' # None => caller'[tenantLock'].pc \notin BeforeLock
    BY <2>1, IdleCallerTyped, CallerMoves
  <2>3. McpTypeOK'
    BY <1>1, <1>3, <2>2 DEF McpInv, McpTypeOK, CallerRecord, BeforeLock
  <2>4. \A p \in McpCallers : CallerFits(p)'
    BY <2>1, IdleFitsRecord, CallersFit
  <2>5. ClientsApart' /\ RegisteredOpen'
    BY <1>1 DEF McpInv, ClientsApart, RegisteredOpen
  <2>6. ASSUME perTenant
        PROVE  TenantInv'
    <3>1. tenantLock = q /\ loaded
          /\ \A p \in McpCallers \ {q} : caller[p].pc \notin UnderLock
      BY <1>1, <2>6, AloneUnderLock DEF UnderLock, McpInv, TenantInv, Unloaded
    <3>2. LockHeld'
      BY <2>2, <3>1, IdleFitsRecord DEF LockHeld, UnderLock
    <3>3. NobodyLoads /\ \A p \in McpCallers : caller'[p].pc \notin UnderLock
      BY <1>1, <2>2, <3>1, IdleFitsRecord DEF NobodyLoads, UnderLock
    <3>4. Unloaded'
      BY <1>1, <3>1, <3>3 DEF Unloaded, UnderLock
    <3>5. NoClientLost'
      BY <1>1, <2>6 DEF McpInv, TenantInv, NoClientLost
    <3>6. \A p \in McpCallers : LoaderFits(p)'
      BY <3>3 DEF LoaderFits, UnderLock
    <3>7. \A s \in Servers : Fixed(s) => Fixed(s)'
      BY <1>1, <2>1, IdleCallerTyped, OthersFix DEF Fixing
    <3>8. \A s \in Servers : Shows(s)' <=> Shows(s)
      BY <1>1 DEF Shows
    <3>9. Settled'
      BY <1>1, <1>3, <2>6, <3>1, <3>3, <3>7, <3>8 DEF McpInv, TenantInv, Settled
    <3>10. HeadersSettled'
      BY <1>1, <1>3 DEF HeadersSettled
    <3>11. QED
      BY <3>2, <3>4, <3>5, <3>6, <3>9, <3>10 DEF TenantInv
  <2>7. QED
    BY <1>1, <2>3, <2>4, <2>5, <2>6 DEF McpInv
<1>4. QED
  BY <1>2, <1>3 DEF Forward

-----------------------------------------------------------------------------
(* The refresher, and the theorem                                          *)

\* Only refreshers change: one of s may stop where no client of s is, or is excused.
LEMMA TicksInv ==
  ASSUME McpInv, NEW s \in Servers, TickMissing(s) \/ TickStop(s)
  PROVE  McpInv'
<1>1. /\ ticking' \subseteq Servers /\ tasks' \subseteq tasks
      /\ \A t \in Servers \ {s} : t \in tasks' <=> t \in tasks
      /\ excused \subseteq excused' /\ excused' \subseteq Servers \cup {Headers}
      /\ UNCHANGED <<perTenant, serverRows, writes, client, loaded, clients, headers, tenantLock,
                     caller>>
  BY DEF TickMissing, TickStop, McpInv, McpTypeOK
<1>2. \/ tasks' = tasks
      \/ clients[s] # 0 /\ s \in excused'
      \/ clients[s] = 0 /\ s \notin tasks'
  BY DEF TickMissing, TickStop
<1>3. /\ McpTypeOK' /\ \A q \in McpCallers : CallerFits(q)'
      /\ ClientsApart' /\ RegisteredOpen'
  BY <1>1 DEF McpInv, McpTypeOK, CallerFits, ClientsApart, RegisteredOpen
<1>4. /\ \A t \in Servers : (Fixed(t)' <=> Fixed(t)) /\ (Shows(t)' <=> Shows(t))
      /\ Forwarded' <=> Forwarded
      /\ NobodyLoads' <=> NobodyLoads
  BY <1>1 DEF Fixed, Fixing, Forwarded, Forwarding, Shows, NobodyLoads
<1>5. ASSUME perTenant
      PROVE  TenantInv'
  <2>1. LockHeld' /\ Unloaded' /\ NoClientLost'
    BY <1>1, <1>4, <1>5 DEF McpInv, TenantInv, LockHeld, Unloaded, NoClientLost
  <2>2. \A q \in McpCallers : LoaderFits(q)'
    BY <1>1, <1>4, <1>5 DEF McpInv, TenantInv, LoaderFits
  <2>3. Settled'
    <3>1. SUFFICES ASSUME loaded, NobodyLoads, NEW t \in Servers \ excused', ~Fixed(t)
                   PROVE  Shows(t) /\ (t \in tasks' <=> serverRows[t] \in TimedVersions)
      BY <1>1, <1>4 DEF Settled
    <3>2. Shows(t) /\ (t \in tasks <=> serverRows[t] \in TimedVersions)
      BY <1>1, <1>5, <3>1 DEF McpInv, TenantInv, Settled
    <3>3. 0 \notin TimedVersions
      BY McpAssumption
    <3>4. QED
      BY <1>1, <1>2, <3>1, <3>2, <3>3 DEF Shows
  <2>4. HeadersSettled'
    BY <1>1, <1>4, <1>5 DEF McpInv, TenantInv, HeadersSettled
  <2>5. QED
    BY <2>1, <2>2, <2>3, <2>4 DEF TenantInv
<1>6. QED
  BY <1>1, <1>3, <1>5 DEF McpInv

LEMMA McpInitInv == McpInit => McpInv
<1> SUFFICES ASSUME McpInit PROVE McpInv
  OBVIOUS
<1>1. 0 \in Versions /\ 0 \in 0..MaxClients
  BY McpAssumption DEF Versions
<1>2. \A q \in McpCallers : caller[q] = IdleCaller
  BY DEF McpInit
<1>3. McpTypeOK
  BY <1>1, NoClientsTyped, IdleCallerTyped DEF McpInit, McpTypeOK, CallerRecord
<1>4. \A q \in McpCallers : CallerFits(q)
  BY <1>2 DEF CallerFits, IdleCaller
<1>5. ClientsApart /\ RegisteredOpen
  BY NoClientsTyped DEF McpInit, ClientsApart, RegisteredOpen
<1>6. ASSUME perTenant
      PROVE  TenantInv
  <2>1. LockHeld /\ \A q \in McpCallers : LoaderFits(q)
    BY <1>2 DEF LockHeld, UnderLock, LoaderFits, IdleCaller
  <2>2. Unloaded /\ Settled /\ HeadersSettled
    BY <1>2, <1>6, NoClientsTyped DEF McpInit, Unloaded, Settled, HeadersSettled, IdleCaller
  <2>3. NoClientLost
    BY DEF McpInit, NoClientLost
  <2>4. QED
    BY <2>1, <2>2, <2>3 DEF TenantInv
<1>7. QED
  BY <1>3, <1>4, <1>5, <1>6 DEF McpInv

LEMMA McpStepInv == McpInv /\ [McpNext]_mcpVars => McpInv'
<1> SUFFICES ASSUME McpInv, [McpNext]_mcpVars PROVE McpInv'
  OBVIOUS
<1>1. CASE UNCHANGED mcpVars
  <2>1. /\ McpTypeOK' /\ \A q \in McpCallers : CallerFits(q)'
        /\ ClientsApart' /\ RegisteredOpen'
    BY <1>1 DEF mcpVars, McpInv, McpTypeOK, CallerFits, ClientsApart, RegisteredOpen
  <2>2. perTenant => TenantInv'
    BY <1>1
    DEF mcpVars, McpInv, TenantInv, LockHeld, Unloaded, NoClientLost, LoaderFits, Settled,
        HeadersSettled, Fixed, Fixing, Forwarded, Forwarding, Shows, NobodyLoads
  <2>3. QED
    BY <1>1, <2>1, <2>2 DEF mcpVars, McpInv
<1>2. CASE McpNext
  <2>1. CASE \E q \in McpCallers :
               \/ \E s \in Servers : WriteRow(q, s) \/ DeleteRow(q, s) \/ LoadServer(q, s)
               \/ Reload(q) \/ GetForContext(q) \/ GetByName(q) \/ LockTenant(q) \/ Lookup(q)
               \/ List(q) \/ FinishLoad(q) \/ Reconnect(q) \/ ReconnectFails(q)
               \/ Disconnect(q) \/ Forward(q)
    BY <2>1, WriteRowInv, DeleteRowInv, LoadServerInv, EnterInv, GetByNameInv, LockTenantInv,
       LookupInv, ListInv, FinishLoadInv, ReconnectInv, ReconnectFailsInv, DisconnectInv,
       ForwardInv
  <2>2. CASE \E s \in Servers : TickMissing(s) \/ TickStop(s)
    BY <2>2, TicksInv
  <2>3. QED
    BY <1>2, <2>1, <2>2 DEF McpNext
<1>3. QED
  BY <1>1, <1>2

\* Rows, clients, refreshers and calls keep their types, and the tenant's lock is held only
\* by a call that is past taking it (Manager.lockForTenant).
THEOREM ClientsWellFormed == McpSpec => []McpTypeOK
<1>1. McpInv => McpTypeOK
  BY DEF McpInv
<1>2. QED
  BY <1>1, McpInitInv, McpStepInv, PTL DEF McpSpec

\* A client that is dialed is registered or closed, whatever interleaves, and when no call
\* is under way the clients, the headers and the refreshers are those of the rows, but
\* for what a failure or an overtaken write excused (Manager, ClientRegistry, Refresher).
THEOREM FollowsServers == McpSpec => []ServersFollowed
<1>1. McpInv => ServersFollowed
  <2> SUFFICES ASSUME McpInv PROVE ServersFollowed
    OBVIOUS
  <2>1. RegisteredOpen /\ NoClientLost
    BY DEF McpInv, TenantInv, NoClientLost
  <2>2. ASSUME perTenant, loaded, Quiet
        PROVE  /\ \A s \in Servers \ excused :
                    Shows(s) /\ (s \in tasks <=> serverRows[s] \in TimedVersions)
               /\ Headers \notin excused => headers = serverRows
    <3>1. NobodyLoads /\ ~Forwarded /\ \A s \in Servers : ~Fixed(s)
      BY <2>2 DEF Quiet, CallerAt, NobodyLoads, Forwarded, Forwarding, Fixed, Fixing
    <3>2. QED
      BY <2>2, <3>1 DEF McpInv, TenantInv, Settled, HeadersSettled
  <2>3. CatalogFresh /\ HeadersFresh
    BY <2>2 DEF CatalogFresh, HeadersFresh, Shows
  <2>4. RefresherFollowsRow
    BY <2>2 DEF RefresherFollowsRow, Shows
  <2>5. QED
    BY <2>1, <2>3, <2>4 DEF ServersFollowed
<1>2. QED
  BY <1>1, McpInitInv, McpStepInv, PTL DEF McpSpec

-----------------------------------------------------------------------------
(***************************************************************************)
(* The SSE transport.  Only the stream that t.cancel cancels can be live;  *)
(* a reconnect cancels it before it dials another, which stays its own     *)
(* until an endpoint is announced, the attempt fails or Close comes.       *)
(***************************************************************************)

\* Whatever is live can be cancelled.
LiveIsCancelOf == \A g \in Streams : Live(g) => cancelOf = g

\* What a reconnect under way knows of the streams.
ReconnectorFits ==
  /\ reconnector.actor = None <=> reconnector.step = "none"
  /\ reconnector.actor \in Streams =>
       reader[reconnector.actor] = "reconnect" /\ reconnector.stream # reconnector.actor
  /\ reconnector.step \in {"attempt", "dial"} => \A g \in Streams : ~Live(g)
  /\ reconnector.step \in {"dial", "endpoint"} =>
       /\ reconnector.stream \in Streams /\ cancelOf = reconnector.stream
       /\ ~closed => reconnector.stream \notin cancelled
  /\ reconnector.step = "dial" => reader[reconnector.stream] = "none"
  /\ reconnector.step = "endpoint" /\ ~closed =>
       reader[reconnector.stream] \in {"reading", "reconnect"}

SomeLive == ~closed /\ ~Reconnecting /\ ~gaveUp => \E g \in Streams : Live(g)

StreamInv == StreamTypeOK /\ LiveIsCancelOf /\ ReconnectorFits /\ SomeLive

LEMMA StreamInitInv == StreamInit => StreamInv
<1> SUFFICES ASSUME StreamInit PROVE StreamInv
  OBVIOUS
<1> USE StreamAssumption
<1>1. PICK g \in Streams : g = CHOOSE h \in Streams : TRUE
  OBVIOUS
<1>2. /\ endpoint = g /\ cancelOf = g /\ cancelled = {} /\ alive = {g}
      /\ reader = [h \in Streams |-> IF h = g THEN "reading" ELSE "none"]
  BY <1>1 DEF StreamInit
<1>3. StreamTypeOK
  <2>1. /\ closed \in BOOLEAN /\ ready \in BOOLEAN /\ gaveUp \in BOOLEAN /\ silent \in BOOLEAN
        /\ endpoint \in Streams \cup {None} /\ cancelOf \in Streams \cup {None}
        /\ cancelled \subseteq Streams /\ alive \subseteq Streams /\ registered \subseteq Senders
    BY <1>2 DEF StreamInit
  <2>2. /\ reader \in [Streams -> {"none", "reading", "reconnect"}]
        /\ line \in [Streams -> Senders \cup {None, "endpoint"}]
        /\ wire \in [Streams -> SUBSET (Senders \cup {"endpoint"})]
        /\ answerTo \in [Senders -> {"nothing", "answer", "closed"}]
    BY <1>2 DEF StreamInit
  <2>3. sender \in [Senders -> [pc : {"idle", "url", "post", "await", "reconnect"},
                                retried : BOOLEAN, url : Streams \cup {None}]]
    BY DEF StreamInit, NewSend
  <2>4. reconnector \in [actor : Actors \cup {None}, step : {"none", "attempt", "dial", "endpoint"},
                         attempt : 0..MaxAttempts, stream : Streams \cup {None}]
    BY DEF StreamInit, Nobody
  <2>5. QED
    BY <2>1, <2>2, <2>3, <2>4 DEF StreamTypeOK
<1>4. Live(g) /\ \A h \in Streams : Live(h) => h = g
  BY <1>2 DEF Live
<1>5. ReconnectorFits
  BY DEF StreamInit, ReconnectorFits, Nobody
<1>6. QED
  BY <1>2, <1>3, <1>4, <1>5 DEF StreamInv, LiveIsCancelOf, SomeLive

\* A step that touches neither the streams nor a reconnect.
LEMMA ApartFromStreams ==
  ASSUME StreamInv, StreamTypeOK',
         UNCHANGED <<closed, cancelOf, reader, cancelled, reconnector, gaveUp>>,
         \A a \in Actors : AtReconnect(a) => AtReconnect(a)'
  PROVE  StreamInv'
<1>1. \A g \in Streams : Live(g)' <=> Live(g)
  BY DEF Live
<1>2. LiveIsCancelOf' /\ ReconnectorFits'
  BY <1>1 DEF StreamInv, LiveIsCancelOf, ReconnectorFits
<1>3. SomeLive'
  BY <1>1 DEF StreamInv, SomeLive, Reconnecting
<1>4. QED
  BY <1>2, <1>3 DEF StreamInv

SenderRecord ==
  [pc : {"idle", "url", "post", "await", "reconnect"}, retried : BOOLEAN,
   url : Streams \cup {None}]

\* A Send that goes on leaves no reconnect.
LEMMA SenderMoves ==
  ASSUME StreamInv, NEW s \in Senders, NEW new \in SenderRecord,
         sender[s].pc # "reconnect", sender' = [sender EXCEPT ![s] = new],
         UNCHANGED reader
  PROVE  /\ \A a \in Actors : AtReconnect(a) => AtReconnect(a)'
         /\ sender' \in [Senders -> SenderRecord]
BY StreamAssumption DEF StreamInv, StreamTypeOK, SenderRecord, AtReconnect, Actors

\* A Send returns, or goes on to another step.
LEMMA SendReturns ==
  ASSUME StreamInv, NEW s \in Senders, NEW result, sender[s].pc # "reconnect",
         Return(s, result), UNCHANGED reader
  PROVE  /\ \A a \in Actors : AtReconnect(a) => AtReconnect(a)'
         /\ sender' \in [Senders -> SenderRecord]
         /\ registered' \subseteq Senders /\ silent' \in BOOLEAN
<1>1. NewSend \in SenderRecord
  BY DEF NewSend, SenderRecord
<1>2. registered' \subseteq Senders /\ silent' \in BOOLEAN
  BY DEF Return, StreamInv, StreamTypeOK
<1>3. QED
  BY <1>1, <1>2, SenderMoves DEF Return

LEMMA SendSteps ==
  ASSUME StreamInv, NEW s \in Senders, NEW step \in {"url", "await", "reconnect"},
         SendGoto(s, step), sender[s].pc # "reconnect", UNCHANGED reader
  PROVE  /\ \A a \in Actors : AtReconnect(a) => AtReconnect(a)'
         /\ sender' \in [Senders -> SenderRecord]
<1>1. PICK new : new = [sender[s] EXCEPT !.pc = step]
  OBVIOUS
<1>2. sender \in [Senders -> SenderRecord]
  BY DEF StreamInv, StreamTypeOK, SenderRecord
<1>3. new \in SenderRecord /\ sender' = [sender EXCEPT ![s] = new]
  BY <1>1, <1>2 DEF SenderRecord, SendGoto
<1>4. QED
  BY <1>3, SenderMoves

LEMMA SendInv ==
  ASSUME StreamInv, NEW s \in Senders, Send(s)
  PROVE  StreamInv'
<1>1. sender[s].pc # "reconnect" /\ UNCHANGED reader
  BY DEF Send
<1>2. /\ \A a \in Actors : AtReconnect(a) => AtReconnect(a)'
      /\ sender' \in [Senders -> SenderRecord]
      /\ registered' \subseteq Senders /\ silent' \in BOOLEAN
      /\ answerTo' \in [Senders -> {"nothing", "answer", "closed"}]
  <2>1. CASE closed
    BY <1>1, <2>1, SendReturns DEF Send, Register, StreamInv, StreamTypeOK
  <2>2. CASE ~closed
    BY <1>1, <2>2, SendSteps DEF Send, Register, StreamInv, StreamTypeOK
  <2>3. QED
    BY <2>1, <2>2
<1>3. wire' \in [Streams -> SUBSET (Senders \cup {"endpoint"})]
  BY DEF Send, StreamInv, StreamTypeOK
<1>4. line' \in [Streams -> Senders \cup {None, "endpoint"}]
  BY DEF Send, StreamInv, StreamTypeOK
<1>5. StreamTypeOK'
  BY <1>2, <1>3, <1>4 DEF Send, StreamInv, StreamTypeOK, SenderRecord
<1>6. QED
  BY <1>2, <1>5, ApartFromStreams DEF Send

LEMMA ReadURLInv ==
  ASSUME StreamInv, NEW s \in Senders, ReadURL(s)
  PROVE  StreamInv'
<1>1. sender[s].pc # "reconnect" /\ UNCHANGED reader
  BY DEF ReadURL, connection
<1>2. /\ \A a \in Actors : AtReconnect(a) => AtReconnect(a)'
      /\ sender' \in [Senders -> SenderRecord]
      /\ registered' \subseteq Senders /\ silent' \in BOOLEAN
  <2>1. CASE endpoint = None
    BY <1>1, <2>1, SendReturns DEF ReadURL
  <2>2. CASE endpoint # None
    <3>1. PICK new : new = [sender[s] EXCEPT !.pc = "post", !.url = endpoint]
      OBVIOUS
    <3>2. sender \in [Senders -> SenderRecord] /\ endpoint \in Streams
      BY <2>2 DEF StreamInv, StreamTypeOK, SenderRecord
    <3>3. new \in SenderRecord /\ sender' = [sender EXCEPT ![s] = new]
      BY <2>2, <3>1, <3>2 DEF SenderRecord, ReadURL
    <3>4. UNCHANGED <<registered, silent>>
      BY <2>2 DEF ReadURL
    <3>5. QED
      BY <1>1, <3>3, <3>4, SenderMoves DEF StreamInv, StreamTypeOK
  <2>3. QED
    BY <2>1, <2>2
<1>3. StreamTypeOK'
  BY <1>2 DEF ReadURL, connection, serverSide, StreamInv, StreamTypeOK, SenderRecord
<1>4. QED
  BY <1>2, <1>3, ApartFromStreams DEF ReadURL, connection

LEMMA SessionErrorInv ==
  ASSUME StreamInv, NEW s \in Senders, SessionError(s)
  PROVE  StreamInv'
<1>1. sender[s].pc # "reconnect" /\ UNCHANGED reader
  BY DEF SessionError, connection
<1>2. /\ \A a \in Actors : AtReconnect(a) => AtReconnect(a)'
      /\ sender' \in [Senders -> SenderRecord]
      /\ registered' \subseteq Senders /\ silent' \in BOOLEAN
  <2>1. CASE sender[s].retried
    BY <1>1, <2>1, SendReturns DEF SessionError
  <2>2. CASE ~sender[s].retried
    BY <1>1, <2>2, SendSteps DEF SessionError, StreamInv, StreamTypeOK
  <2>3. QED
    BY <2>1, <2>2
<1>3. StreamTypeOK'
  BY <1>2 DEF SessionError, connection, serverSide, StreamInv, StreamTypeOK, SenderRecord
<1>4. QED
  BY <1>2, <1>3, ApartFromStreams DEF SessionError, connection

LEMMA PostInv ==
  ASSUME StreamInv, NEW s \in Senders, Post(s)
  PROVE  StreamInv'
<1>1. sender[s].pc # "reconnect" /\ UNCHANGED reader
  BY DEF Post, connection
<1>2. /\ \A a \in Actors : AtReconnect(a) => AtReconnect(a)'
      /\ sender' \in [Senders -> SenderRecord]
      /\ registered' \subseteq Senders /\ silent' \in BOOLEAN
      /\ wire' \in [Streams -> SUBSET (Senders \cup {"endpoint"})]
  <2>1. CASE UNCHANGED wire /\ (Return(s, "error") \/ Return(s, "answer"))
    BY <1>1, <2>1, SendReturns DEF StreamInv, StreamTypeOK
  <2>2. CASE /\ wire' = [wire EXCEPT ![sender[s].url] = @ \cup {s}]
             /\ SendGoto(s, "await") /\ UNCHANGED <<registered, silent>>
    <3>1. wire' \in [Streams -> SUBSET (Senders \cup {"endpoint"})]
      BY <2>2 DEF StreamInv, StreamTypeOK
    <3>2. QED
      BY <1>1, <2>2, <3>1, SendSteps DEF StreamInv, StreamTypeOK
  <2>3. QED
    BY <2>1, <2>2 DEF Post
<1>3. StreamTypeOK'
  BY <1>2 DEF Post, connection, StreamInv, StreamTypeOK, SenderRecord
<1>4. QED
  BY <1>2, <1>3, ApartFromStreams DEF Post, connection

LEMMA AwaitInv ==
  ASSUME StreamInv, NEW s \in Senders, Await(s)
  PROVE  StreamInv'
<1>1. sender[s].pc # "reconnect" /\ UNCHANGED reader
  BY DEF Await, connection
<1>2. /\ \A a \in Actors : AtReconnect(a) => AtReconnect(a)'
      /\ sender' \in [Senders -> SenderRecord]
      /\ registered' \subseteq Senders /\ silent' \in BOOLEAN
  BY <1>1, SendReturns DEF Await
<1>3. StreamTypeOK'
  BY <1>2 DEF Await, connection, serverSide, StreamInv, StreamTypeOK, SenderRecord
<1>4. QED
  BY <1>2, <1>3, ApartFromStreams DEF Await, connection

-----------------------------------------------------------------------------
\* The goroutine of a live stream that ends goes to reconnect.
LEMMA StreamEndsInv ==
  ASSUME StreamInv, NEW g \in Streams, StreamEnds(g)
  PROVE  StreamInv'
<1>1. reader' = [reader EXCEPT ![g] = IF g \in cancelled THEN "none" ELSE "reconnect"]
      /\ reader[g] = "reading" /\ reader \in [Streams -> {"none", "reading", "reconnect"}]
      /\ UNCHANGED <<closed, cancelOf, cancelled, reconnector, gaveUp>>
  BY DEF StreamEnds, StreamInv, StreamTypeOK
<1>2. StreamTypeOK'
  <2>1. reader' \in [Streams -> {"none", "reading", "reconnect"}]
    BY <1>1
  <2>2. QED
    BY <2>1 DEF StreamEnds, serverSide, sends, StreamInv, StreamTypeOK
<1>3. \A h \in Streams : Live(h)' => Live(h)
  BY <1>1 DEF Live
<1>4. LiveIsCancelOf'
  BY <1>1, <1>3 DEF StreamInv, LiveIsCancelOf
<1>5. ReconnectorFits'
  BY <1>1, <1>3 DEF StreamInv, ReconnectorFits
<1>6. SomeLive'
  <2> SUFFICES ASSUME ~closed', ~Reconnecting', ~gaveUp'
               PROVE  \E h \in Streams : Live(h)'
    BY DEF SomeLive
  <2>1. \A a \in Senders : ~AtReconnect(a)
    BY DEF Reconnecting, StreamEnds, sends, AtReconnect, Actors
  <2>2. \A h \in Streams : reader'[h] # "reconnect"
    BY StreamAssumption DEF Reconnecting, AtReconnect, Actors
  <2>3. g \in cancelled
    BY <1>1, <2>2
  <2>4. \A h \in Streams : ~AtReconnect(h)
    BY <1>1, <2>2, StreamAssumption DEF AtReconnect
  <2>5. PICK h \in Streams : Live(h)
    BY <1>1, <2>1, <2>4 DEF StreamInv, SomeLive, Reconnecting, Actors
  <2>6. h # g /\ reader'[h] = "reading" /\ h \notin cancelled'
    BY <1>1, <2>3, <2>5 DEF Live
  <2>7. QED
    BY <2>6 DEF Live
<1>7. QED
  BY <1>2, <1>4, <1>5, <1>6 DEF StreamInv

LEMMA ReadLineInv ==
  ASSUME StreamInv, NEW g \in Streams, ReadLine(g)
  PROVE  StreamInv'
<1>1. PICK what \in wire[g] : /\ line' = [line EXCEPT ![g] = what]
                              /\ wire' = [wire EXCEPT ![g] = @ \ {what}]
  BY DEF ReadLine
<1>2. what \in Senders \cup {"endpoint"}
  BY DEF StreamInv, StreamTypeOK
<1>3. /\ line' \in [Streams -> Senders \cup {None, "endpoint"}]
      /\ wire' \in [Streams -> SUBSET (Senders \cup {"endpoint"})]
  BY <1>1, <1>2 DEF StreamInv, StreamTypeOK
<1>4. StreamTypeOK'
  BY <1>3 DEF ReadLine, sends, StreamInv, StreamTypeOK
<1>5. QED
  BY <1>4, ApartFromStreams DEF ReadLine, sends, AtReconnect

LEMMA HandleLineInv ==
  ASSUME StreamInv, NEW g \in Streams, HandleLine(g)
  PROVE  StreamInv'
<1>1. /\ line' \in [Streams -> Senders \cup {None, "endpoint"}]
      /\ answerTo' \in [Senders -> {"nothing", "answer", "closed"}]
  BY DEF HandleLine, StreamInv, StreamTypeOK
<1>2. endpoint' \in Streams \cup {None} /\ ready' \in BOOLEAN
  BY DEF HandleLine, StreamInv, StreamTypeOK
<1>3. StreamTypeOK'
  BY <1>1, <1>2 DEF HandleLine, serverSide, StreamInv, StreamTypeOK
<1>4. QED
  BY <1>3, ApartFromStreams DEF HandleLine, AtReconnect

LEMMA ServerDropsInv ==
  ASSUME StreamInv, NEW g \in Streams, ServerDrops(g)
  PROVE  StreamInv'
<1>1. wire' \in [Streams -> SUBSET (Senders \cup {"endpoint"})] /\ alive' \subseteq Streams
  BY DEF ServerDrops, StreamInv, StreamTypeOK
<1>2. StreamTypeOK'
  BY <1>1 DEF ServerDrops, connection, sends, StreamInv, StreamTypeOK
<1>3. QED
  BY <1>2, ApartFromStreams DEF ServerDrops, connection, sends, AtReconnect

-----------------------------------------------------------------------------
ReconnectorRecord ==
  [actor : Actors \cup {None}, step : {"none", "attempt", "dial", "endpoint"},
   attempt : 0..MaxAttempts, stream : Streams \cup {None}]

\* A reconnect that returns takes no stream from a reader but its own actor's.
LEMMA ReturnsFromReconnect ==
  ASSUME StreamInv, NEW a \in Actors, NEW ok, ReconnectReturns(a, ok)
  PROVE  /\ reconnector' = Nobody /\ Nobody \in ReconnectorRecord
         /\ reconnector'.actor = None /\ reconnector'.step = "none"
         /\ reader' \in [Streams -> {"none", "reading", "reconnect"}]
         /\ \A g \in Streams : reader'[g] = IF g = a THEN "none" ELSE reader[g]
         /\ sender' \in [Senders -> SenderRecord]
         /\ registered' \subseteq Senders /\ silent' \in BOOLEAN
         /\ answerTo' \in [Senders -> {"nothing", "answer", "closed"}]
<1>1. /\ reconnector' = Nobody /\ Nobody \in ReconnectorRecord
      /\ reconnector'.actor = None /\ reconnector'.step = "none"
  BY StreamAssumption DEF ReconnectReturns, Nobody, ReconnectorRecord
<1>2. /\ sender \in [Senders -> SenderRecord] /\ registered \subseteq Senders
      /\ silent \in BOOLEAN /\ answerTo \in [Senders -> {"nothing", "answer", "closed"}]
      /\ reader \in [Streams -> {"none", "reading", "reconnect"}]
  BY DEF StreamInv, StreamTypeOK, SenderRecord
<1>3. CASE a \in Streams
  <2>1. reader' = [reader EXCEPT ![a] = "none"] /\ UNCHANGED <<sender, registered, silent, answerTo>>
    BY <1>3 DEF ReconnectReturns, sends
  <2>2. QED
    BY <1>1, <1>2, <2>1
<1>4. CASE a \notin Streams
  <2>1. a \in Senders /\ UNCHANGED reader
    BY <1>4 DEF Actors, ReconnectReturns
  <2>2. \A g \in Streams : g # a
    BY <1>4
  <2>3. CASE ok /\ ~closed
    <3>1. PICK new : new = [pc |-> "url", retried |-> TRUE, url |-> None]
      OBVIOUS
    <3>2. new \in SenderRecord /\ sender' = [sender EXCEPT ![a] = new]
      BY <1>4, <2>3, <3>1 DEF ReconnectReturns, SenderRecord
    <3>3. /\ registered' = registered \cup {a} /\ UNCHANGED silent
          /\ answerTo' = [answerTo EXCEPT ![a] = "nothing"]
      BY <1>4, <2>3 DEF ReconnectReturns
    <3>4. sender' \in [Senders -> SenderRecord]
      BY <1>2, <3>2
    <3>5. answerTo' \in [Senders -> {"nothing", "answer", "closed"}]
      BY <1>2, <3>3
    <3>6. QED
      BY <1>1, <1>2, <2>1, <2>2, <3>3, <3>4, <3>5
  <2>4. CASE ~(ok /\ ~closed)
    <3>1. NewSend \in SenderRecord
      BY DEF NewSend, SenderRecord
    <3>2. /\ sender' = [sender EXCEPT ![a] = NewSend] /\ UNCHANGED answerTo
          /\ registered' = registered \ {a} /\ silent' \in BOOLEAN
      BY <1>2, <1>4, <2>4 DEF ReconnectReturns, Return
    <3>3. sender' \in [Senders -> SenderRecord]
      BY <1>2, <3>1, <3>2
    <3>4. QED
      BY <1>1, <1>2, <2>1, <2>2, <3>2, <3>3
  <2>5. QED
    BY <2>3, <2>4
<1>5. QED
  BY <1>3, <1>4

\* A reconnect begins with the old stream cancelled, or finds the transport closed.
LEMMA LockReconnectInv ==
  ASSUME StreamInv, NEW a \in Actors, LockReconnect(a)
  PROVE  StreamInv'
<1>1. AtReconnect(a) /\ reconnector.actor = None
      /\ UNCHANGED <<closed, endpoint, ready, cancelOf, line, alive, wire, gaveUp>>
  BY DEF LockReconnect, serverSide
<1>2. CASE closed
  <2>1. ReconnectReturns(a, FALSE) /\ UNCHANGED cancelled
    BY <1>2 DEF LockReconnect
  <2>2. StreamTypeOK'
    BY <1>1, <2>1, ReturnsFromReconnect
    DEF StreamInv, StreamTypeOK, SenderRecord, ReconnectorRecord
  <2>3. \A g \in Streams : Live(g)' => Live(g)
    BY <2>1, ReturnsFromReconnect DEF Live
  <2>4. LiveIsCancelOf'
    BY <1>1, <2>3 DEF StreamInv, LiveIsCancelOf
  <2>5. ReconnectorFits'
    BY <2>1, ReturnsFromReconnect, StreamAssumption DEF ReconnectorFits
  <2>6. SomeLive'
    BY <1>1, <1>2 DEF SomeLive
  <2>7. QED
    BY <2>2, <2>4, <2>5, <2>6 DEF StreamInv
<1>3. CASE ~closed
  <2>1. /\ reconnector' = [actor |-> a, step |-> "attempt", attempt |-> 1, stream |-> None]
        /\ cancelled' = cancelled \cup ({cancelOf} \ {None})
        /\ UNCHANGED <<reader, sender, registered, answerTo, silent>>
    BY <1>3 DEF LockReconnect, sends
  <2>2. reconnector' \in ReconnectorRecord
    BY <2>1, StreamAssumption DEF ReconnectorRecord
  <2>3. cancelled' \subseteq Streams
    BY <2>1 DEF StreamInv, StreamTypeOK
  <2>4. StreamTypeOK'
    BY <1>1, <2>1, <2>2, <2>3 DEF StreamInv, StreamTypeOK, ReconnectorRecord
  <2>5. \A g \in Streams : ~Live(g)'
    BY <2>1, StreamAssumption DEF StreamInv, LiveIsCancelOf, Live
  <2>6. a \in Streams => reader[a] = "reconnect" /\ a # None
    BY <1>1, StreamAssumption DEF AtReconnect
  <2>7. a # None
    BY StreamAssumption DEF Actors
  <2>8. ReconnectorFits'
    BY <2>1, <2>5, <2>6, <2>7 DEF ReconnectorFits
  <2>9. SomeLive'
    BY <2>1, <2>7 DEF SomeLive, Reconnecting
  <2>10. QED
    BY <2>4, <2>5, <2>8, <2>9 DEF StreamInv, LiveIsCancelOf
<1>4. QED
  BY <1>2, <1>3

\* An attempt fails, whose stream, if it had one, is cancelled.
LEMMA AttemptFailsInv ==
  ASSUME StreamInv, reconnector.step # "none", AttemptFails,
         UNCHANGED <<closed, endpoint, ready, line, alive, wire>>,
         cancelOf' \in Streams \cup {None}, cancelled' \subseteq Streams,
         \A g \in Streams : reader[g] = "reading" => g \in cancelled'
  PROVE  StreamInv'
<1>1. reconnector \in ReconnectorRecord /\ reconnector.actor \in Actors
  BY DEF StreamInv, StreamTypeOK, ReconnectorRecord, ReconnectorFits
<1>2. PICK a \in Actors : a = reconnector.actor
  BY <1>1
<1>3. a # None /\ (a \in Streams => reader[a] = "reconnect")
  BY <1>2, StreamAssumption DEF Actors, StreamInv, ReconnectorFits
<1>4. CASE reconnector.attempt < MaxAttempts
  <2>1. /\ reconnector' = [reconnector EXCEPT !.step = "attempt", !.attempt = @ + 1, !.stream = None]
        /\ UNCHANGED <<reader, sender, registered, answerTo, silent, gaveUp>>
    BY <1>4 DEF AttemptFails, sends
  <2>2. /\ reconnector' \in ReconnectorRecord /\ reconnector'.actor = a
        /\ reconnector'.step = "attempt" /\ reconnector'.stream = None
    <3>1. reconnector.attempt + 1 \in 0..MaxAttempts
      BY <1>1, <1>4, StreamAssumption DEF ReconnectorRecord
    <3>2. QED
      BY <1>1, <1>2, <2>1, <3>1 DEF ReconnectorRecord
  <2>3. StreamTypeOK'
    BY <2>1, <2>2 DEF StreamInv, StreamTypeOK, ReconnectorRecord
  <2>4. \A g \in Streams : ~Live(g)'
    BY <2>1 DEF Live
  <2>5. ReconnectorFits'
    BY <1>3, <2>1, <2>2, <2>4 DEF ReconnectorFits
  <2>6. SomeLive'
    BY <1>3, <2>2 DEF SomeLive, Reconnecting
  <2>7. QED
    BY <2>3, <2>4, <2>5, <2>6 DEF StreamInv, LiveIsCancelOf
<1>5. CASE ~(reconnector.attempt < MaxAttempts)
  <2>1. ReconnectReturns(a, FALSE) /\ gaveUp' = TRUE
    BY <1>2, <1>5 DEF AttemptFails
  <2>2. StreamTypeOK'
    BY <2>1, ReturnsFromReconnect
    DEF StreamInv, StreamTypeOK, SenderRecord, ReconnectorRecord
  <2>3. \A g \in Streams : ~Live(g)'
    BY <2>1, ReturnsFromReconnect DEF Live
  <2>4. ReconnectorFits'
    BY <2>1, ReturnsFromReconnect, StreamAssumption DEF ReconnectorFits
  <2>5. QED
    BY <2>1, <2>2, <2>3, <2>4 DEF StreamInv, LiveIsCancelOf, SomeLive
<1>6. QED
  BY <1>4, <1>5

LEMMA AttemptInv ==
  ASSUME StreamInv, Attempt
  PROVE  StreamInv'
<1>1. /\ reconnector.step = "attempt" /\ UNCHANGED <<closed, endpoint, ready, line>>
      /\ \A g \in Streams : ~Live(g)
  BY DEF Attempt, StreamInv, ReconnectorFits
<1>2. CASE FreeStreams = {}
  BY <1>1, <1>2, AttemptFailsInv DEF Attempt, serverSide, Live, StreamInv, StreamTypeOK
<1>3. CASE FreeStreams # {}
  <2>1. PICK g \in FreeStreams : g = CHOOSE h \in FreeStreams : TRUE
    BY <1>3
  <2>2. /\ reconnector' = [reconnector EXCEPT !.step = "dial", !.stream = g]
        /\ cancelOf' = g /\ cancelled' = cancelled \ {g} /\ alive' = alive \ {g}
        /\ wire' = [wire EXCEPT ![g] = {}]
        /\ UNCHANGED <<reader, sender, registered, answerTo, silent, gaveUp>>
    BY <1>3, <2>1 DEF Attempt, sends
  <2>3. g \in Streams /\ reader[g] = "none"
    BY <2>1 DEF FreeStreams
  <2>4. reconnector \in ReconnectorRecord
    BY DEF StreamInv, StreamTypeOK, ReconnectorRecord
  <2>5. /\ reconnector' \in ReconnectorRecord /\ reconnector'.actor = reconnector.actor
        /\ reconnector'.step = "dial" /\ reconnector'.stream = g
    BY <2>2, <2>3, <2>4 DEF ReconnectorRecord
  <2>6. wire' \in [Streams -> SUBSET (Senders \cup {"endpoint"})]
    BY <2>2 DEF StreamInv, StreamTypeOK
  <2>7. StreamTypeOK'
    BY <1>1, <2>2, <2>3, <2>5, <2>6 DEF StreamInv, StreamTypeOK, ReconnectorRecord
  <2>8. \A h \in Streams : ~Live(h)'
    BY <1>1, <2>2, <2>3 DEF Live
  <2>9. reconnector.actor # None
    BY <1>1 DEF StreamInv, ReconnectorFits
  <2>10. reconnector.actor \in Streams => reader[reconnector.actor] = "reconnect"
    BY DEF StreamInv, ReconnectorFits
  <2>11. ReconnectorFits'
    BY <2>2, <2>3, <2>5, <2>8, <2>9, <2>10 DEF ReconnectorFits
  <2>12. SomeLive'
    BY <2>5, <2>9 DEF SomeLive, Reconnecting
  <2>13. QED
    BY <2>7, <2>8, <2>11, <2>12 DEF StreamInv, LiveIsCancelOf
<1>4. QED
  BY <1>2, <1>3

LEMMA ConnectInv ==
  ASSUME StreamInv, Connect
  PROVE  StreamInv'
<1>1. PICK g \in Streams :
        g = reconnector.stream /\ cancelOf = g /\ reader[g] = "none" /\ g \notin cancelled
  BY DEF Connect, StreamInv, ReconnectorFits
<1>2. /\ reader' = [reader EXCEPT ![g] = "reading"] /\ alive' = alive \cup {g}
      /\ wire' = [wire EXCEPT ![g] = {"endpoint"}]
      /\ reconnector' = [reconnector EXCEPT !.step = "endpoint"]
      /\ reconnector.step = "dial" /\ endpoint' = None /\ ready' = FALSE
      /\ UNCHANGED <<closed, cancelOf, cancelled, line, sender, registered, answerTo, silent, gaveUp>>
  BY <1>1 DEF Connect, sends
<1>3. reconnector \in ReconnectorRecord
  BY DEF StreamInv, StreamTypeOK, ReconnectorRecord
<1>4. /\ reconnector' \in ReconnectorRecord /\ reconnector'.actor = reconnector.actor
      /\ reconnector'.step = "endpoint" /\ reconnector'.stream = g
  BY <1>1, <1>2, <1>3 DEF ReconnectorRecord
<1>5. /\ reader \in [Streams -> {"none", "reading", "reconnect"}]
      /\ reader' \in [Streams -> {"none", "reading", "reconnect"}]
      /\ wire' \in [Streams -> SUBSET (Senders \cup {"endpoint"})]
  BY <1>2 DEF StreamInv, StreamTypeOK
<1>6. StreamTypeOK'
  BY <1>2, <1>4, <1>5 DEF StreamInv, StreamTypeOK, ReconnectorRecord
<1>7. \A h \in Streams : ~Live(h)
  BY <1>2 DEF StreamInv, ReconnectorFits
<1>8. \A h \in Streams : Live(h)' => h = g
  BY <1>2, <1>5, <1>7 DEF Live
<1>9. reconnector.actor # None
  BY <1>2 DEF StreamInv, ReconnectorFits
<1>10. reconnector.actor \in Streams =>
         reader'[reconnector.actor] = "reconnect" /\ reconnector.actor # g
  BY <1>1, <1>2, <1>5 DEF StreamInv, ReconnectorFits
<1>11. ReconnectorFits'
  BY <1>1, <1>2, <1>4, <1>5, <1>9, <1>10 DEF ReconnectorFits
<1>12. SomeLive'
  BY <1>4, <1>9 DEF SomeLive, Reconnecting
<1>13. QED
  BY <1>1, <1>2, <1>6, <1>8, <1>11, <1>12 DEF StreamInv, LiveIsCancelOf

LEMMA ConnectFailsInv ==
  ASSUME StreamInv, ConnectFails
  PROVE  StreamInv'
<1>1. reconnector.step = "dial" /\ AttemptFails /\ UNCHANGED <<closed, endpoint, ready, cancelOf, line, alive, wire>>
      /\ cancelled' = cancelled \cup {reconnector.stream}
  BY DEF ConnectFails, serverSide
<1>2. reconnector.stream \in Streams /\ \A g \in Streams : ~Live(g)
  BY <1>1 DEF StreamInv, ReconnectorFits
<1>3. QED
  BY <1>1, <1>2, AttemptFailsInv DEF Live, StreamInv, StreamTypeOK

LEMMA EndpointTimeoutInv ==
  ASSUME StreamInv, EndpointTimeout
  PROVE  StreamInv'
<1>1. reconnector.step = "endpoint" /\ AttemptFails /\ UNCHANGED <<closed, endpoint, ready, cancelOf, line, alive, wire>>
      /\ cancelled' = cancelled \cup {reconnector.stream}
  BY DEF EndpointTimeout, serverSide
<1>2. reconnector.stream \in Streams /\ \A g \in Streams : Live(g) => g = reconnector.stream
  BY <1>1 DEF StreamInv, ReconnectorFits, LiveIsCancelOf
<1>3. QED
  BY <1>1, <1>2, AttemptFailsInv DEF Live, StreamInv, StreamTypeOK

\* A stream whose endpoint is announced is live, or its goroutine reconnects already.
LEMMA EndpointReadyInv ==
  ASSUME StreamInv, EndpointReady
  PROVE  StreamInv'
<1>1. PICK a \in Actors : a = reconnector.actor
  BY DEF EndpointReady, StreamInv, StreamTypeOK, ReconnectorFits
<1>2. /\ reconnector.step = "endpoint" /\ ReconnectReturns(a, TRUE) /\ gaveUp' = FALSE
      /\ UNCHANGED <<closed, endpoint, ready, cancelOf, cancelled, line, alive, wire>>
  BY <1>1 DEF EndpointReady, serverSide
<1>3. StreamTypeOK'
  BY <1>2, ReturnsFromReconnect
  DEF StreamInv, StreamTypeOK, SenderRecord, ReconnectorRecord
<1>4. \A g \in Streams : Live(g)' => Live(g)
  BY <1>2, ReturnsFromReconnect DEF Live
<1>5. LiveIsCancelOf'
  BY <1>2, <1>4 DEF StreamInv, LiveIsCancelOf
<1>6. ReconnectorFits'
  BY <1>2, ReturnsFromReconnect, StreamAssumption DEF ReconnectorFits
<1>7. SomeLive'
  <2> SUFFICES ASSUME ~closed', ~Reconnecting'
               PROVE  \E g \in Streams : Live(g)'
    BY DEF SomeLive
  <2>1. PICK g \in Streams : g = reconnector.stream
    BY <1>2 DEF StreamInv, ReconnectorFits
  <2>2. reader[g] \in {"reading", "reconnect"} /\ g \notin cancelled
    BY <1>2, <2>1 DEF StreamInv, ReconnectorFits
  <2>3. a \in Streams => reader[a] = "reconnect" /\ g # a
    BY <1>1, <2>1 DEF StreamInv, ReconnectorFits
  <2>4. reader'[g] = reader[g]
    BY <1>2, <2>3, ReturnsFromReconnect
  <2>5. reader'[g] # "reconnect"
    BY StreamAssumption DEF Reconnecting, AtReconnect, Actors
  <2>6. QED
    BY <1>2, <2>2, <2>4, <2>5 DEF Live
<1>8. QED
  BY <1>3, <1>5, <1>6, <1>7 DEF StreamInv

\* Close cancels the one stream that can be live.
LEMMA CloseInv ==
  ASSUME StreamInv, Close
  PROVE  StreamInv'
<1>1. /\ closed' = TRUE /\ cancelled' = cancelled \cup ({cancelOf} \ {None}) /\ registered' = {}
      /\ UNCHANGED <<endpoint, ready, cancelOf, reader, line, alive, wire, sender, silent,
                     reconnector, gaveUp>>
  BY DEF Close, serverSide
<1>2. answerTo' \in [Senders -> {"nothing", "answer", "closed"}] /\ cancelled' \subseteq Streams
  BY DEF Close, StreamInv, StreamTypeOK
<1>3. StreamTypeOK'
  BY <1>1, <1>2 DEF StreamInv, StreamTypeOK
<1>4. \A g \in Streams : Live(g)' => Live(g)
  BY <1>1 DEF Live
<1>5. LiveIsCancelOf'
  BY <1>1, <1>4 DEF StreamInv, LiveIsCancelOf
<1>6. ReconnectorFits'
  BY <1>1, <1>4 DEF StreamInv, ReconnectorFits
<1>7. QED
  BY <1>1, <1>3, <1>5, <1>6 DEF StreamInv, SomeLive

LEMMA StreamStepInv == StreamInv /\ [StreamNext]_streamVars => StreamInv'
<1> SUFFICES ASSUME StreamInv, [StreamNext]_streamVars
             PROVE  StreamInv'
  OBVIOUS
<1>1. CASE UNCHANGED streamVars
  BY <1>1, ApartFromStreams DEF streamVars, StreamInv, StreamTypeOK, AtReconnect
<1>2. CASE StreamNext
  BY <1>2, SendInv, ReadURLInv, SessionErrorInv, PostInv, AwaitInv, StreamEndsInv, ReadLineInv,
     HandleLineInv, ServerDropsInv, LockReconnectInv, AttemptInv, ConnectInv, ConnectFailsInv,
     EndpointReadyInv, EndpointTimeoutInv, CloseInv
  DEF StreamNext, SenderStep, ReaderStep, ReconnectStep
<1>3. QED
  BY <1>1, <1>2

\* A transport never has two live streams, and is without one only while it reconnects,
\* after the last attempts all failed or when it is closed (SSETransport.reconnect).
THEOREM KeepsStream == StreamSpec => []StreamKept
<1>1. StreamInv => StreamKept
  BY DEF StreamInv, LiveIsCancelOf, SomeLive, StreamKept
<1>2. QED
  BY <1>1, StreamInitInv, StreamStepInv, PTL DEF StreamSpec

\* Streams, readers, senders and the reconnect keep their types (sse_transport.go).
THEOREM StreamsWellFormed == StreamSpec => []StreamTypeOK
<1>1. StreamInv => StreamTypeOK
  BY DEF StreamInv
<1>2. QED
  BY <1>1, StreamInitInv, StreamStepInv, PTL DEF StreamSpec
=============================================================================
