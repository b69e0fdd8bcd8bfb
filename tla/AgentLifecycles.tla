-------------------------- MODULE AgentLifecycles --------------------------
(***************************************************************************)
(* Agents delegated to by other agents (service/lifecycle/manager.go, its  *)
(* instances of domain/agent_lifecycle.go, and app/lifecycle_adapter.go in *)
(* front of it).  A spawn tool calls SpawnAgent, which runs the agent to   *)
(* its end and stashes the answer, then WaitForAgent, which takes it.  The *)
(* instance of an agent in a session is shared by reference among calls    *)
(* that overlap; its state changes without the manager's lock.  An agent   *)
(* is in spawn mode, fresh at every task, or in persistent mode, with the  *)
(* record of its earlier tasks before the new one; an administrator may    *)
(* change the mode at any time.                                            *)
(***************************************************************************)
EXTENDS Nil, Naturals, Sequences, Functions

CONSTANTS
  AgentKeys,       \* agents, each in a session
  Delegations,     \* calls of a spawn tool, each made once
  MaxModeChanges   \* bound: changes of an agent's mode

ASSUME LifecycleAssumption ==
  /\ None \notin AgentKeys \cup Delegations
  /\ MaxModeChanges \in Nat

VARIABLES
  agentMode,     \* the configured mode of each agent
  modeChanges,
  instances,     \* Manager.instances: the instance of each agent, by the call that created it
  instance,      \* the instance each call created
  contexts,      \* Manager.contexts: the calls whose task and answer are recorded
  delegation,    \* per call, where it is and its local variables
  stash          \* CompositeAgentSpawner.completed

lifecycleVars == <<agentMode, modeChanges, instances, instance, contexts, delegation, stash>>

LifecycleModes == {"spawn", "persistent"}

LifecycleStates == {"initializing", "ready", "running", "blocked", "finished"}

\* validTransitions, among the states the manager uses.
Transitions ==
  { <<"initializing", "ready">>, <<"initializing", "blocked">>,
    <<"ready", "running">>, <<"ready", "finished">>,
    <<"running", "blocked">>, <<"running", "finished">>,
    <<"blocked", "running">>, <<"blocked", "finished">>,
    <<"finished", "ready">> }

\* NewAgentInstance
NewInstance(m) == [mode |-> m, state |-> "initializing"]

NoDelegation ==
  [pc |-> "idle", key |-> None, mode |-> "spawn", holds |-> None,
   recalls |-> <<>>, alone |-> TRUE, after |-> {}]

LifecycleTypeOK ==
  /\ agentMode \in [AgentKeys -> LifecycleModes]
  /\ modeChanges \in 0..MaxModeChanges
  /\ instances \in [AgentKeys -> Delegations \cup {None}]
  /\ instance \in [Delegations -> [mode : LifecycleModes, state : LifecycleStates]]
  /\ contexts \in [AgentKeys -> Seq(Delegations)]
  /\ \A c \in Delegations :
       /\ delegation[c].pc \in
            {"idle", "get", "reset", "isInitial", "markReady", "isReady", "markRunning", "recall",
             "run", "record", "finish", "reopen", "clean", "stash", "wait",
             "answered", "failed", "refused"}
       /\ delegation[c].holds \in Delegations \cup {None}
       /\ delegation[c].pc \notin {"idle", "get"} => delegation[c].holds # None
  /\ stash \subseteq Delegations

LifecycleInit ==
  /\ agentMode \in [AgentKeys -> LifecycleModes]
  /\ modeChanges = 0
  /\ instances = [k \in AgentKeys |-> None]
  /\ instance = [c \in Delegations |-> NewInstance("spawn")]
  /\ contexts = [k \in AgentKeys |-> <<>>]
  /\ delegation = [c \in Delegations |-> NoDelegation]
  /\ stash = {}

EndedSteps == {"answered", "failed", "refused"}
Held(c) == instance[delegation[c].holds]
DelegationAt(c, step) == delegation[c].pc = step
DelegationGoto(c, step) == delegation' = [delegation EXCEPT ![c].pc = step]

\* The calls for an agent that have begun and not ended.
Active(k) == {c \in Delegations : delegation[c].key = k /\ delegation[c].pc \notin EndedSteps}

\* TransitionTo: the instance changes state and the call goes on, or nothing changes
\* and the call ends with an error.
TransitionOf(c, state, step) ==
  IF <<Held(c).state, state>> \in Transitions
  THEN /\ instance' = [instance EXCEPT ![delegation[c].holds].state = state]
       /\ DelegationGoto(c, step)
  ELSE /\ UNCHANGED instance
       /\ DelegationGoto(c, "refused")

-----------------------------------------------------------------------------
(* An agent is changed                                                     *)

ChangeMode(k) ==
  /\ modeChanges < MaxModeChanges
  /\ modeChanges' = modeChanges + 1
  /\ \E m \in LifecycleModes \ {agentMode[k]} : agentMode' = [agentMode EXCEPT ![k] = m]
  /\ UNCHANGED <<instances, instance, contexts, delegation, stash>>

-----------------------------------------------------------------------------
(* A task                                                                  *)

\* SpawnAgent reads the mode before it calls ExecuteTask.
SpawnAgent(c, k) ==
  /\ DelegationAt(c, "idle")
  /\ delegation' = [delegation EXCEPT ![c] =
       [NoDelegation EXCEPT !.pc = "get", !.key = k, !.mode = agentMode[k],
          !.after = {d \in Delegations : delegation[d].key = k /\ delegation[d].pc = "answered"}]]
  /\ UNCHANGED <<agentMode, modeChanges, instances, instance, contexts, stash>>

\* Variant: an instance that exists is used again in either mode.
CreatesMissing(k, m) == instances[k] = None

\* The instance a call of an agent gets: in spawn mode always a new one.
CreatesInstance(k, m) == instances[k] = None \/ m = "spawn"

\* getOrCreateInstance, under the manager's lock.
GetOrCreateInstance(c) ==
  LET k == delegation[c].key
      m == delegation[c].mode
      created == CreatesInstance(k, m)
      with == Active(k) \ {c}
  IN /\ DelegationAt(c, "get")
     /\ instances' = IF created THEN [instances EXCEPT ![k] = c] ELSE instances
     /\ instance' = IF created THEN [instance EXCEPT ![c] = NewInstance(m)] ELSE instance
     /\ delegation' = [d \in Delegations |->
          IF d = c THEN [delegation[c] EXCEPT !.pc = IF m = "spawn" THEN "reset" ELSE "isInitial",
                                              !.holds = instances'[k],
                                              !.alone = with = {}]
          ELSE IF d \in with THEN [delegation[d] EXCEPT !.alone = FALSE]
          ELSE delegation[d]]
     /\ UNCHANGED <<agentMode, modeChanges, contexts, stash>>

\* In spawn mode the context is dropped, under the lock.
ResetContext(c) ==
  /\ DelegationAt(c, "reset")
  /\ contexts' = [contexts EXCEPT ![delegation[c].key] = <<>>]
  /\ DelegationGoto(c, "isInitial")
  /\ UNCHANGED <<agentMode, modeChanges, instances, instance, stash>>

\* The state is read, and changed in a step of its own, with no lock.
CheckInitializing(c) ==
  /\ DelegationAt(c, "isInitial")
  /\ DelegationGoto(c, IF Held(c).state = "initializing" THEN "markReady" ELSE "isReady")
  /\ UNCHANGED <<agentMode, modeChanges, instances, instance, contexts, stash>>

MarkReady(c) ==
  /\ DelegationAt(c, "markReady")
  /\ TransitionOf(c, "ready", "isReady")
  /\ UNCHANGED <<agentMode, modeChanges, instances, contexts, stash>>

CheckReady(c) ==
  /\ DelegationAt(c, "isReady")
  /\ DelegationGoto(c, IF Held(c).state = "ready" THEN "markRunning" ELSE "recall")
  /\ UNCHANGED <<agentMode, modeChanges, instances, instance, contexts, stash>>

MarkRunning(c) ==
  /\ DelegationAt(c, "markRunning")
  /\ TransitionOf(c, "running", "recall")
  /\ UNCHANGED <<agentMode, modeChanges, instances, contexts, stash>>

\* The record a persistent agent gets before its task.
Recall(c) ==
  /\ DelegationAt(c, "recall")
  /\ delegation' = [delegation EXCEPT ![c].pc = "run",
       ![c].recalls = IF Held(c).mode = "persistent" THEN contexts[delegation[c].key] ELSE <<>>]
  /\ UNCHANGED <<agentMode, modeChanges, instances, instance, contexts, stash>>

RunAgent(c) ==
  /\ DelegationAt(c, "run")
  /\ DelegationGoto(c, "record")
  /\ UNCHANGED <<agentMode, modeChanges, instances, instance, contexts, stash>>

\* RunAgent returns an error; that the instance cannot be blocked is ignored.
RunAgentFails(c) ==
  /\ DelegationAt(c, "run")
  /\ DelegationGoto(c, "failed")
  /\ instance' = IF <<Held(c).state, "blocked">> \in Transitions
                 THEN [instance EXCEPT ![delegation[c].holds].state = "blocked"] ELSE instance
  /\ UNCHANGED <<agentMode, modeChanges, instances, contexts, stash>>

\* Variant: what a call recalled is written back with its own task.
RecordRecalled(c) ==
  /\ DelegationAt(c, "record")
  /\ contexts' = IF Held(c).mode = "persistent"
                 THEN [contexts EXCEPT ![delegation[c].key] = Append(delegation[c].recalls, c)]
                 ELSE contexts
  /\ DelegationGoto(c, "finish")
  /\ UNCHANGED <<agentMode, modeChanges, instances, instance, stash>>

\* The task and its answer are added to the record, under the lock.
Record(c) ==
  /\ DelegationAt(c, "record")
  /\ contexts' = IF Held(c).mode = "persistent"
                 THEN [contexts EXCEPT ![delegation[c].key] = Append(@, c)] ELSE contexts
  /\ DelegationGoto(c, "finish")
  /\ UNCHANGED <<agentMode, modeChanges, instances, instance, stash>>

\* FinishTask; an error takes the answer with it.
FinishTask(c) ==
  /\ DelegationAt(c, "finish")
  /\ TransitionOf(c, "finished", IF Held(c).mode = "persistent" THEN "reopen" ELSE "clean")
  /\ UNCHANGED <<agentMode, modeChanges, instances, contexts, stash>>

\* A persistent instance is ready again.
ReopenInstance(c) ==
  /\ DelegationAt(c, "reopen")
  /\ TransitionOf(c, "ready", "clean")
  /\ UNCHANGED <<agentMode, modeChanges, instances, contexts, stash>>

\* A call in spawn mode deletes whatever is registered under its agent.
DeleteInstance(c) ==
  /\ DelegationAt(c, "clean")
  /\ LET k == delegation[c].key IN
       IF delegation[c].mode = "spawn"
       THEN /\ instances' = [instances EXCEPT ![k] = None]
            /\ contexts' = [contexts EXCEPT ![k] = <<>>]
       ELSE UNCHANGED <<instances, contexts>>
  /\ DelegationGoto(c, "stash")
  /\ UNCHANGED <<agentMode, modeChanges, instance, stash>>

\* SpawnAgent returns the id of the answer; the tool waits for it.
StashAnswer(c) ==
  /\ DelegationAt(c, "stash")
  /\ stash' = stash \cup {c}
  /\ DelegationGoto(c, "wait")
  /\ UNCHANGED <<agentMode, modeChanges, instances, instance, contexts>>

TakeStashed(c) ==
  /\ DelegationAt(c, "wait") /\ c \in stash
  /\ stash' = stash \ {c}
  /\ DelegationGoto(c, "answered")
  /\ UNCHANGED <<agentMode, modeChanges, instances, instance, contexts>>

-----------------------------------------------------------------------------
TaskStep(c) ==
  \/ GetOrCreateInstance(c) \/ ResetContext(c)
  \/ CheckInitializing(c) \/ MarkReady(c) \/ CheckReady(c) \/ MarkRunning(c)
  \/ Recall(c) \/ RunAgent(c) \/ RunAgentFails(c) \/ Record(c)
  \/ FinishTask(c) \/ ReopenInstance(c) \/ DeleteInstance(c)
  \/ StashAnswer(c) \/ TakeStashed(c)

LifecycleNext ==
  \/ \E k \in AgentKeys : ChangeMode(k) \/ \E c \in Delegations : SpawnAgent(c, k)
  \/ \E c \in Delegations : TaskStep(c)

LifecycleSpec == LifecycleInit /\ [][LifecycleNext]_lifecycleVars

-----------------------------------------------------------------------------
(* Properties                                                              *)

(* A task in spawn mode starts with no context, also when the agent was persistent before *)
(* and its tasks of that time still run and record their answers.                         *)
SpawnStartsBare ==
  \A c \in Delegations : delegation[c].mode = "spawn" => delegation[c].recalls = <<>>

(* A persistent agent has before it every task of its session that was answered before    *)
(* this one began, none twice and none of another agent or session, however its tasks     *)
(* overlap.  (A task in spawn mode drops the record: those agents are left out.)          *)
PersistentRemembers ==
  \A c \in Delegations :
    LET k == delegation[c].key
        told == delegation[c].recalls
    IN /\ \A i \in DOMAIN told : delegation[told[i]].key = k
       /\ IsInjective(told)
       /\ /\ delegation[c].pc \in {"run", "record", "finish", "reopen", "clean", "stash", "wait", "answered"}
          /\ \A d \in Delegations : delegation[d].key = k => delegation[d].mode = "persistent"
          => delegation[c].after \subseteq Range(told)

(* A task whose agent ran well is refused by the state of its instance only when another  *)
(* task of the agent ran at the same time, or when the agent's mode was changed.          *)
RefusedOnlyByOverlap ==
  \A c \in Delegations :
    DelegationAt(c, "refused") => ~delegation[c].alone \/ Held(c).mode # delegation[c].mode

SessionMemory == SpawnStartsBare /\ PersistentRemembers /\ RefusedOnlyByOverlap
=============================================================================
