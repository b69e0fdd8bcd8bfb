---------------------------- MODULE MCServices ----------------------------
(* Instances, for TLC, of the components around a chat that share no state: one run  *)
(* explores the behaviours of each one of Parts in turn, none mixed with another.    *)
EXTENDS TurnAdmission, HumanInterrupts, McpClients, ConfigCaches, AgentLoop, Transcripts,
        AgentLifecycles, KnowledgeDocs, TLC

CONSTANTS
  Parts,   \* the components this run explores
  c1, c2, u1, u2, u3, i1, i2, q1, q2, t1, t2, t3

\* The requests, resumers, callers, readers and removers of each part are alike.
Alike == Permutations({q1, q2})

VARIABLE part  \* the component this behaviour is of

\* Each user talks in a session of their own; u1's turns make a step.
OwnUser == [s \in Sessions |-> s]
StepsOfUser == [s \in Sessions |-> IF s = u1 THEN 1 ELSE 0]

\* One tool with two arguments, two tools, a return-directly tool next to another.
Call(tool, args) == [tool |-> tool, args |-> args]
RoundsOfTools ==
  { <<Call("t1", "x")>>, <<Call("t1", "y")>>,
    <<Call("t1", "x"), Call("t2", "x")>>, <<Call("t2", "x"), Call("w", "x")>> }
OneOrTwoCalls == {<<"t1">>, <<"t1", "t2">>}

\* Without the lock of a tenant two calls overlap at once: one row is enough for that.
FewUnlockedWrites == ~perTenant => writes <= 1

\* Any two of the cached tables change.
FewChanges == Cardinality({d \in Data : table[d] > 1}) <= 2

\* Calls of a spawn tool begin in one order, for they are alike, and overlap in pairs.
PairsOfCalls ==
  /\ ~DelegationAt(t2, "idle") => ~DelegationAt(t1, "idle")
  /\ ~DelegationAt(t3, "idle") => ~DelegationAt(t2, "idle")
  /\ \A k \in AgentKeys : Cardinality(Active(k)) <= 2

ServicesInit ==
  /\ part \in Parts
  /\ AdmissionInit /\ InterruptInit /\ McpInit /\ CacheInit /\ LoopInit /\ TranscriptInit
  /\ LifecycleInit /\ KnowledgeInit
  \* The components that are not explored stay in one initial state.
  /\ part # "mcp" => perTenant
  /\ part # "loop" => maxSteps = 0
  /\ part # "transcripts" => mode = "sequential"
  /\ part # "lifecycles" => \A k \in AgentKeys : agentMode[k] = "spawn"

ServicesNext ==
  /\ UNCHANGED part
  /\ \/ /\ part = "admission" /\ AdmissionNext
        /\ UNCHANGED <<interruptVars, mcpVars, cacheVars, loopVars,
                       transcriptVars, lifecycleVars, knowledgeVars>>
     \/ /\ part = "interrupts" /\ InterruptNext
        /\ UNCHANGED <<admissionVars, mcpVars, cacheVars, loopVars,
                       transcriptVars, lifecycleVars, knowledgeVars>>
     \/ /\ part = "mcp" /\ McpNext
        /\ UNCHANGED <<admissionVars, interruptVars, cacheVars, loopVars,
                       transcriptVars, lifecycleVars, knowledgeVars>>
     \/ /\ part = "caches" /\ CacheNext
        /\ UNCHANGED <<admissionVars, interruptVars, mcpVars, loopVars,
                       transcriptVars, lifecycleVars, knowledgeVars>>
     \/ /\ part = "loop" /\ LoopNext
        /\ UNCHANGED <<admissionVars, interruptVars, mcpVars, cacheVars,
                       transcriptVars, lifecycleVars, knowledgeVars>>
     \/ /\ part = "transcripts" /\ TranscriptNext
        /\ UNCHANGED <<admissionVars, interruptVars, mcpVars, cacheVars,
                       loopVars, lifecycleVars, knowledgeVars>>
     \/ /\ part = "lifecycles" /\ LifecycleNext
        /\ UNCHANGED <<admissionVars, interruptVars, mcpVars, cacheVars,
                       loopVars, transcriptVars, knowledgeVars>>
     \/ /\ part = "knowledge" /\ KnowledgeNext
        /\ UNCHANGED <<admissionVars, interruptVars, mcpVars, cacheVars,
                       loopVars, transcriptVars, lifecycleVars>>

servicesVars == <<part, admissionVars, interruptVars, mcpVars, cacheVars, loopVars,
                  transcriptVars, lifecycleVars, knowledgeVars>>
ServicesSpec == ServicesInit /\ [][ServicesNext]_servicesVars

-----------------------------------------------------------------------------
(* Properties: the invariants of the components, together where one question asks them *)

(* Every variable of every component has its type, the counters of the admission, the     *)
(* rows of the interrupts and documents and the keys that join them included.            *)
ServicesTypeOK ==
  /\ AdmissionTypeOK /\ InterruptTypeOK /\ McpTypeOK /\ CacheTypeOK /\ LoopTypeOK
  /\ TranscriptTypeOK /\ LifecycleTypeOK /\ KnowledgeTypeOK
=============================================================================
