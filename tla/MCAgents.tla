----------------------------- MODULE MCAgents -----------------------------
(* Instances, for TLC, of what stands behind an agent's tools and shares no state: the  *)
(* agent pool, for those that spawn, and the circuit breakers, for those of MCP servers. *)
(* One run explores the behaviours of each of Parts, none mixed with another.            *)
EXTENDS AgentPool, CircuitBreaker

CONSTANTS
  Parts,   \* the components this run explores
  a1, a2, b1, b2, t1, w1

VARIABLE part  \* the component this behaviour is of

agentsVars == <<part, vars, breakerVars>>

AgentsInit == part \in Parts /\ Init /\ BreakerInit

AgentsNext ==
  /\ UNCHANGED part
  /\ \/ part = "pool" /\ Next /\ UNCHANGED breakerVars
     \/ part = "breakers" /\ BreakerNext /\ UNCHANGED vars

\* The fairness of AgentPool and of CircuitBreaker.
AgentsSpec ==
  /\ AgentsInit /\ [][AgentsNext]_agentsVars
  /\ \A a \in Agents :
       /\ WF_vars(part = "pool" /\ GoOn(a))
       /\ WF_vars(part = "pool" /\ UpdateRun(a))
  /\ \A w \in Waiters : WF_vars(part = "pool" /\ Wake(w))
  /\ WF_breakerVars(part = "breakers" /\ Tick)
  /\ \A a \in ToolUsers :
       /\ WF_breakerVars(part = "breakers" /\ Allow(a))
       /\ WF_breakerVars(part = "breakers" /\ (RecordSuccess(a) \/ RecordFailure(a)))

\* Agents are alike and spawning is not fair, so behaviours that spawn a2 first show nothing new.
SpawnedInOrder == a1 \in Unborn => a2 \in Unborn
\* Of an agent with a task and one without, the first spawned is the one with the task.
TaskFirst == goroutine[a2].task # NoTask => goroutine[a1].task # NoTask
\* Rows that tell of nothing are explored while nobody waits: no step of a wait, and no other
\* step that a wait depends on, reads a row.
LossesAmongIdle ==
  unrecorded.runs \cup unrecorded.tasks # {} => \A w \in Waiters : waiter[w].pc = "idle"
=============================================================================
