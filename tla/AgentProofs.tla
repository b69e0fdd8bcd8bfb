---------------------------- MODULE AgentProofs ----------------------------
(***************************************************************************)
(* For any number of agents, tasks and waiting calls: the pool keeps its   *)
(* types, a completion channel is closed only after the agent's event or a *)
(* cancellation, and no agent works on unseen.                             *)
(*                                                                         *)
(* The two last facts are inductive once it is known that the pool lists   *)
(* as running only agents that were spawned: those are the ones whose      *)
(* context the removal of the session cancels.                             *)
(*                                                                         *)
(* The second part is about the agents of one session that delegate to     *)
(* others (AgentLifecycles): what a task is told of the earlier ones.      *)
(*                                                                         *)
(* The third is about the breaker that the agents using one server share,  *)
(* for any users, breakers, thresholds and intervals: it is not closed     *)
(* after that many failures in a row, opens for no other reason and stays  *)
(* open for its interval.  What a closed breaker remembers are the last of *)
(* the failures since the last success, and those it no longer remembers   *)
(* are out of the window.                                                  *)
(***************************************************************************)
EXTENDS AgentPool, AgentLifecycles, CircuitBreaker, FiniteSetTheorems, SequenceTheorems, TLAPS

-----------------------------------------------------------------------------
(* The pool                                                                *)

\* An agent that settles its task knows how it ended, one that is about to signal has
\* sent its event, and only spawned agents are listed as running.
Progress ==
  /\ \A a \in Agents : At(a, "settle") \/ At(a, "lost") =>
       goroutine[a].outcome \in {"completed", "failed"}
  /\ \A a \in Agents : At(a, "signal") => a \in announced
  /\ Running \cap Unborn = {}

Goroutine == [pc : {"unborn", "context", "run", "settle", "lost", "announce", "signal", "done"},
              task : Tasks \cup {NoTask}, outcome : {"none", "completed", "failed"}]

IInv == TypeOK /\ Progress /\ SignalAfterEvent /\ NoOrphans

\* In the beginning no agent was spawned.
LEMMA InitInv == Init => IInv
BY DEF Init, IInv, TypeOK, Progress, SignalAfterEvent, NoOrphans, At, Running, Unborn

-----------------------------------------------------------------------------
(* The steps                                                               *)

\* A goroutine that moves on keeps its task and outcome.
LEMMA GoToType ==
  ASSUME IInv, NEW a \in Agents, NEW pc \in {"run", "signal", "done"}, GoTo(a, pc)
  PROVE  goroutine' \in [Agents -> Goroutine]
BY DEF IInv, TypeOK, GoTo, Goroutine

\* Spawn, SpawnWithDescription and RestartAgent.
LEMMA SpawnInv ==
  ASSUME IInv, NEW a \in Agents,
         \/ \E t \in Tasks : Spawn(a, t)
         \/ SpawnWithDescription(a)
         \/ \E former \in Agents : RestartAgent(a, former)
  PROVE  IInv'
<1>1. PICK t \in Tasks \cup {NoTask} :
        /\ Begin(a, t)
        /\ \/ t \in Tasks /\ AssignTask(t)
           \/ UNCHANGED task
  <2>1. ASSUME NEW former \in Agents, RestartAgent(a, former)
        PROVE  \/ SpawnWithDescription(a)
               \/ \E t \in Tasks : Spawn(a, t)
    BY <2>1 DEF RestartAgent, IInv, TypeOK
  <2>2. QED
    BY <2>1 DEF Spawn, SpawnWithDescription
<1>2. UNCHANGED <<pool, cancelled, signalled, run, updating, waiter, announced, unrecorded>>
  BY DEF Spawn, SpawnWithDescription, RestartAgent
<1>3. TypeOK'
  <2>1. goroutine' \in [Agents -> Goroutine]
    BY <1>1 DEF IInv, TypeOK, Begin, Goroutine
  <2>2. task' \in [Tasks -> {"pending", "in_progress", "completed", "failed"}]
    BY <1>1 DEF IInv, TypeOK, AssignTask
  <2>3. QED
    BY <1>2, <2>1, <2>2 DEF IInv, TypeOK, Goroutine
<1>4. Progress'
  BY <1>1, <1>2 DEF IInv, TypeOK, Begin, Progress, At, Running, Unborn
<1>5. SignalAfterEvent' /\ NoOrphans'
  BY <1>1, <1>2 DEF IInv, TypeOK, Begin, SignalAfterEvent, NoOrphans, At
<1>6. QED
  BY <1>3, <1>4, <1>5 DEF IInv

\* registerAgent, with or without a run record.
LEMMA RegisterInv == ASSUME IInv, NEW a \in Agents, RegisterAgent(a) PROVE IInv'
<1>1. TypeOK'
  <2>1. goroutine' \in [Agents -> Goroutine]
    BY GoToType DEF RegisterAgent
  <2>2. run' \in [Agents -> {"none", "running", "ended"}]
    BY DEF IInv, TypeOK, RegisterAgent
  <2>3. pool' \in [Agents -> {"absent", "running"} \cup Finished]
    BY DEF IInv, TypeOK, RegisterAgent
  <2>4. QED
    BY <2>1, <2>2, <2>3 DEF IInv, TypeOK, RegisterAgent, Goroutine
<1>2. Progress'
  BY DEF IInv, TypeOK, RegisterAgent, GoTo, At, Progress, Running, Unborn
<1>3. SignalAfterEvent' /\ NoOrphans'
  BY DEF IInv, TypeOK, RegisterAgent, GoTo, At, SignalAfterEvent, NoOrphans
<1>4. QED
  BY <1>1, <1>2, <1>3 DEF IInv

\* The first part of markCompleted and markFailed.
LEMMA EndInv == ASSUME IInv, NEW a \in Agents, End(a) PROVE IInv'
<1>1. PICK outcome \in {"completed", "failed"}, lost \in {"lost", "done"} :
        Mark(a, outcome, "settle", lost)
  BY DEF End, MarkCompleted, MarkFailed
<1>u. unrecorded' \in [runs : SUBSET Agents, tasks : SUBSET Agents]
  BY DEF End, MarkCompleted, MarkFailed, Unlisted, Unended, IInv, TypeOK
<1>2. TypeOK'
  <2>1. goroutine' \in [Agents -> Goroutine]
    BY <1>1 DEF IInv, TypeOK, Mark, Goroutine
  <2>2. pool' \in [Agents -> {"absent", "running"} \cup Finished]
    BY <1>1 DEF IInv, TypeOK, Mark, Finished
  <2>3. QED
    BY <1>1, <1>u, <2>1, <2>2 DEF IInv, TypeOK, Mark, Goroutine
<1>3. Progress'
  BY <1>1 DEF IInv, TypeOK, Mark, At, Progress, Running, Unborn
<1>4. SignalAfterEvent' /\ NoOrphans'
  BY <1>1 DEF IInv, TypeOK, Mark, At, SignalAfterEvent, NoOrphans
<1>5. QED
  BY <1>2, <1>3, <1>4 DEF IInv

\* Settling the task, sending the event and signalling.
LEMMA WrapInv == ASSUME IInv, NEW a \in Agents, Wrap(a) PROVE IInv'
<1>1. CASE Settle(a)
  <2>1. task' \in [Tasks -> {"pending", "in_progress", "completed", "failed"}]
    BY <1>1 DEF IInv, TypeOK, Settle, SettleTask, Progress
  <2>2. goroutine' \in [Agents -> Goroutine]
    BY <1>1 DEF IInv, TypeOK, Settle, Goroutine
  <2>u. unrecorded' \in [runs : SUBSET Agents, tasks : SUBSET Agents]
    BY <1>1 DEF IInv, TypeOK, Settle, SettleTask
  <2>3. TypeOK'
    BY <1>1, <2>1, <2>2, <2>u DEF IInv, TypeOK, Settle, Unended, Goroutine
  <2>4. Progress'
    BY <1>1 DEF IInv, TypeOK, Settle, At, Progress, Running, Unborn
  <2>5. SignalAfterEvent' /\ NoOrphans'
    BY <1>1 DEF IInv, TypeOK, Settle, At, SignalAfterEvent, NoOrphans
  <2>6. QED
    BY <2>3, <2>4, <2>5 DEF IInv
<1>2. CASE Announce(a)
  <2>1. goroutine' \in [Agents -> Goroutine]
    BY <1>2, GoToType DEF Announce
  <2>2. TypeOK'
    BY <1>2, <2>1 DEF IInv, TypeOK, Announce, Goroutine
  <2>3. Progress'
    BY <1>2 DEF IInv, TypeOK, Announce, GoTo, At, Progress, Running, Unborn
  <2>4. SignalAfterEvent' /\ NoOrphans'
    BY <1>2 DEF IInv, TypeOK, Announce, GoTo, At, Progress, SignalAfterEvent, NoOrphans
  <2>5. QED
    BY <2>2, <2>3, <2>4 DEF IInv
<1>3. CASE SignalCompletion(a)
  <2>1. goroutine' \in [Agents -> Goroutine]
    BY <1>3, GoToType DEF SignalCompletion
  <2>2. TypeOK'
    BY <1>3, <2>1 DEF IInv, TypeOK, SignalCompletion, Goroutine
  <2>3. Progress'
    BY <1>3 DEF IInv, TypeOK, SignalCompletion, GoTo, At, Progress, Running, Unborn
  <2>4. SignalAfterEvent' /\ NoOrphans'
    BY <1>3 DEF IInv, TypeOK, SignalCompletion, GoTo, At, Progress, SignalAfterEvent, NoOrphans
  <2>5. QED
    BY <2>2, <2>3, <2>4 DEF IInv
<1>4. QED
  BY <1>1, <1>2, <1>3 DEF Wrap

\* Stopping one agent or all running ones.
LEMMA HaltInv ==
  ASSUME IInv, NEW S \in SUBSET Running, Halt(S), updating' \in SUBSET Agents,
         UNCHANGED <<goroutine, task, run, waiter, announced, unrecorded>>
  PROVE  IInv'
<1>1. TypeOK'
  BY DEF IInv, TypeOK, Halt, Running, Finished
<1>2. Progress'
  BY DEF IInv, TypeOK, Halt, Progress, At, Running, Unborn
<1>3. SignalAfterEvent' /\ NoOrphans'
  BY DEF IInv, TypeOK, Halt, SignalAfterEvent, NoOrphans, At
<1>4. QED
  BY <1>1, <1>2, <1>3 DEF IInv

\* The removal of the session: whoever it signals, it also cancels.
LEMMA RemoveInv == ASSUME IInv, RemoveSession PROVE IInv'
<1>1. TypeOK'
  BY DEF IInv, TypeOK, RemoveSession, Forget, Derived, Running, Unborn
<1>2. Progress'
  BY DEF IInv, TypeOK, RemoveSession, Forget, Progress, At, Running, Unborn
<1>3. SignalAfterEvent'
  <2>1. Running \subseteq Derived
    BY DEF IInv, Progress, Derived, Running
  <2>2. QED
    BY <2>1 DEF IInv, SignalAfterEvent, RemoveSession, Forget
<1>4. NoOrphans'
  BY DEF IInv, NoOrphans, RemoveSession, Forget, Derived, Unborn, At
<1>5. QED
  BY <1>1, <1>2, <1>3, <1>4 DEF IInv

\* The steps of the waiting calls, and the updates of run records.
LEMMA OtherInv ==
  ASSUME IInv,
         UNCHANGED <<pool, goroutine, cancelled, signalled, task, announced>>,
         run' \in [Agents -> {"none", "running", "ended"}], updating' \in SUBSET Agents,
         unrecorded' \in [runs : SUBSET Agents, tasks : SUBSET Agents],
         waiter' \in [Waiters -> [pc : {"idle", "context", "all", "one"},
                                  channels : SUBSET Agents, lost : BOOLEAN]]
  PROVE  IInv'
BY DEF IInv, TypeOK, Progress, SignalAfterEvent, NoOrphans, At, Running, Unborn

-----------------------------------------------------------------------------
\* Every step keeps the invariant.
LEMMA NextInv == IInv /\ [Next]_vars => IInv'
<1> SUFFICES ASSUME IInv, [Next]_vars PROVE IInv'
  OBVIOUS
<1>1. ASSUME NEW a \in Agents,
             \/ \E t \in Tasks : Spawn(a, t)
             \/ SpawnWithDescription(a)
             \/ \E former \in Agents : RestartAgent(a, former)
      PROVE  IInv'
  BY <1>1, SpawnInv
<1>2. ASSUME NEW a \in Agents, RegisterAgent(a) \/ End(a) \/ Wrap(a)
      PROVE  IInv'
  BY <1>2, RegisterInv, EndInv, WrapInv
<1>3. ASSUME NEW a \in Agents, UpdateRun(a)
      PROVE  IInv'
  <2>1. run' \in [Agents -> {"none", "running", "ended"}]
    BY <1>3 DEF UpdateRun, IInv, TypeOK
  <2>2. unrecorded' \in [runs : SUBSET Agents, tasks : SUBSET Agents]
    BY <1>3 DEF UpdateRun, IInv, TypeOK
  <2>3. /\ updating' \in SUBSET Agents
        /\ UNCHANGED <<pool, goroutine, cancelled, signalled, task, waiter, announced>>
    BY <1>3 DEF UpdateRun, IInv, TypeOK
  <2>4. QED
    BY <2>1, <2>2, <2>3, OtherInv DEF IInv, TypeOK
<1>4. ASSUME NEW a \in Agents, StopAgent(a)
      PROVE  IInv'
  BY <1>4, HaltInv DEF StopAgent, Running, Unended, IInv, TypeOK
<1>5. CASE CancelRunningAgents
  BY <1>5, HaltInv DEF CancelRunningAgents, IInv, TypeOK
<1>6. CASE RemoveSession
  BY <1>6, RemoveInv
<1>7. ASSUME NEW w \in Waiters,
             WaitForAll(w) \/ Wake(w) \/ CallerGone(w) \/ \E a \in Agents : WaitForAgent(w, a)
      PROVE  IInv'
  <2>1. waiter' \in [Waiters -> [pc : {"idle", "context", "all", "one"},
                                  channels : SUBSET Agents, lost : BOOLEAN]]
    <3>1. CASE WaitForAll(w)
      BY <3>1 DEF IInv, TypeOK, WaitForAll
    <3>t. waiter \in [Waiters -> [pc : {"idle", "context", "all", "one"},
                                  channels : SUBSET Agents, lost : BOOLEAN]]
      BY DEF IInv, TypeOK
    <3>2. CASE Resume(w)
      BY <3>2, <3>t DEF Resume
    <3>r. Running \in SUBSET Agents
      BY DEF Running
    <3>3. CASE waiter' = [waiter EXCEPT ![w].pc = "all", ![w].channels = Running]
      BY <3>3, <3>t, <3>r
    <3>4. ASSUME NEW a \in Agents, WaitForAgent(w, a)
          PROVE  waiter' \in [Waiters -> [pc : {"idle", "context", "all", "one"},
                                          channels : SUBSET Agents, lost : BOOLEAN]]
      BY <3>4, <3>t DEF WaitForAgent
    <3>5. QED
      BY <1>7, <3>1, <3>2, <3>3, <3>4 DEF Wake, CollectChannels, AllDone, SessionGone,
                AgentDone, CallerGone
  <2>2. UNCHANGED <<pool, goroutine, cancelled, signalled, task, run, updating, announced,
                  unrecorded>>
    BY <1>7 DEF WaitForAll, Wake, CollectChannels, AllDone, SessionGone,
                AgentDone, CallerGone, WaitForAgent, Resume, WaiterOnly
  <2>3. QED
    BY <2>1, <2>2, OtherInv DEF IInv, TypeOK
<1>8. CASE UNCHANGED vars
  BY <1>8, OtherInv DEF vars, IInv, TypeOK
<1>9. QED
  BY <1>1, <1>2, <1>3, <1>4, <1>5, <1>6, <1>7, <1>8 DEF Next

\* The invariant holds of every behaviour of the pool.
LEMMA Invariance == Spec => []IInv
BY InitInv, NextInv, PTL DEF Spec

-----------------------------------------------------------------------------
(* What follows                                                            *)

\* The statuses, channels, tasks, run records and waits of the pool keep their types,
\* for any number of agents, tasks and waits.
THEOREM TypeCorrect == Spec => []TypeOK
BY Invariance, PTL DEF IInv

\* Whoever waits on the completion channel of an agent that ends by itself finds its
\* last event sent: markCompleted and markFailed emit before they signal, and the other
\* closers of the channel cancel the agent.
THEOREM EventBeforeSignal == Spec => []SignalAfterEvent
BY Invariance, PTL DEF IInv

\* However Spawn, StopAgent and RemoveSession interleave, an agent at work is listed
\* as running or its context is cancelled.
THEOREM NoneUnseen == Spec => []NoOrphans
BY Invariance, PTL DEF IInv

-----------------------------------------------------------------------------
(* What is told of an end                                                  *)

\* The task of an agent that was spawned is not pending: AssignTask has started it.
Started ==
  \A a \in Agents, t \in Tasks : goroutine[a].task = t /\ ~At(a, "unborn") => task[t] # "pending"

TellInv == IInv /\ Started /\ EndsTold

\* Who is not past the end yet, and whose task is none or started, has nothing to tell.
LEMMA TellStays ==
  ASSUME TellInv, UNCHANGED <<goroutine, task, run>>,
         updating \subseteq updating', UNCHANGED unrecorded
  PROVE  Started' /\ EndsTold'
BY DEF TellInv, Started, EndsTold, Past, At

\* Spawn, SpawnWithDescription and RestartAgent: a task that others were done with was
\* not pending, so it is not in progress now unless it was.
LEMMA SpawnTells ==
  ASSUME TellInv, NEW a \in Agents,
         \/ \E t \in Tasks : Spawn(a, t)
         \/ SpawnWithDescription(a)
         \/ \E former \in Agents : RestartAgent(a, former)
  PROVE  Started' /\ EndsTold'
<1>1. PICK t \in Tasks \cup {NoTask} :
        /\ Begin(a, t)
        /\ \/ t \in Tasks /\ AssignTask(t)
           \/ t = NoTask /\ UNCHANGED task
  <2>1. ASSUME NEW former \in Agents, RestartAgent(a, former)
        PROVE  \/ SpawnWithDescription(a)
               \/ \E t \in Tasks : Spawn(a, t)
    BY <2>1 DEF RestartAgent, TellInv, IInv, TypeOK
  <2>2. QED
    BY <2>1 DEF Spawn, SpawnWithDescription
<1>2. UNCHANGED <<run, updating, unrecorded>>
  BY DEF Spawn, SpawnWithDescription, RestartAgent
<1>3. /\ goroutine'[a] = [pc |-> "context", task |-> t, outcome |-> "none"]
      /\ \A b \in Agents \ {a} : goroutine'[b] = goroutine[b]
  BY <1>1 DEF Begin, TellInv, IInv, TypeOK
<1>4. \A s \in Tasks : task'[s] = IF s = t /\ task[s] = "pending" THEN "in_progress" ELSE task[s]
  BY <1>1, PoolAssumption DEF AssignTask, TellInv, IInv, TypeOK
<1>5. Started'
  BY <1>3, <1>4 DEF TellInv, Started, At
<1>6. EndsTold'
  BY <1>2, <1>3, <1>4 DEF TellInv, Started, EndsTold, Past, At
<1>7. QED
  BY <1>5, <1>6

\* A goroutine that goes on without changing tasks or rows, and does not end by it.
LEMMA GoOnTells ==
  ASSUME TellInv, NEW a \in Agents,
         RegisterAgent(a) \/ Announce(a) \/ SignalCompletion(a)
  PROVE  Started' /\ EndsTold'
<1>1. PICK pc \in {"run", "signal", "done"} : GoTo(a, pc) /\ (pc # "run" => Past(a)) /\ ~At(a, "unborn")
  BY DEF RegisterAgent, Announce, SignalCompletion, Past, At
<1>2. /\ goroutine'[a].task = goroutine[a].task /\ goroutine'[a].pc = pc
      /\ \A b \in Agents \ {a} : goroutine'[b] = goroutine[b]
  BY <1>1 DEF GoTo, TellInv, IInv, TypeOK
<1>3. UNCHANGED <<task, updating, unrecorded>>
  BY DEF RegisterAgent, Announce, SignalCompletion
<1>4. \A b \in Agents : run'[b] = run[b] \/ (b = a /\ pc = "run")
  BY <1>1, <1>2 DEF RegisterAgent, Announce, SignalCompletion, TellInv, IInv, TypeOK, GoTo
<1>5. Started'
  BY <1>1, <1>2, <1>3 DEF TellInv, Started, At
<1>6. EndsTold'
  BY <1>1, <1>2, <1>3, <1>4 DEF TellInv, EndsTold, Past, At
<1>7. QED
  BY <1>5, <1>6

\* markCompleted and markFailed: one returns early, which is what is given up.
LEMMA EndTells == ASSUME TellInv, NEW a \in Agents, End(a) PROVE Started' /\ EndsTold'
<1>1. PICK pc \in {"settle", "lost", "done"} :
        /\ At(a, "run")
        /\ goroutine'[a].task = goroutine[a].task /\ goroutine'[a].pc = pc
        /\ \A b \in Agents \ {a} : goroutine'[b] = goroutine[b]
        /\ UNCHANGED <<task, run, updating>>
        /\ pc = "done" => MarkFailed(a) /\ pool[a] = "absent"
  <2>1. CASE MarkCompleted(a)
    BY <2>1 DEF MarkCompleted, Mark, TellInv, IInv, TypeOK
  <2>2. CASE MarkFailed(a)
    BY <2>2 DEF MarkFailed, Mark, TellInv, IInv, TypeOK
  <2>3. QED
    BY <2>1, <2>2 DEF End
<1>2. /\ unrecorded.runs \subseteq unrecorded'.runs /\ unrecorded.tasks \subseteq unrecorded'.tasks
      /\ pc = "done" => /\ run[a] = "running" => a \in unrecorded'.runs
                        /\ goroutine[a].task # NoTask => a \in unrecorded'.tasks
  BY <1>1 DEF End, MarkCompleted, MarkFailed, Unlisted, Unended
<1>3. Started'
  BY <1>1 DEF TellInv, Started, At
<1>4. EndsTold'
  BY <1>1, <1>2, PoolAssumption DEF TellInv, EndsTold, Past, At
<1>5. QED
  BY <1>3, <1>4

\* The task takes the outcome or the outcome is given up; the update of the row is started.
LEMMA SettleTells == ASSUME TellInv, NEW a \in Agents, Settle(a) PROVE Started' /\ EndsTold'
<1>1. /\ ~At(a, "unborn") /\ ~Past(a)
      /\ goroutine'[a].task = goroutine[a].task /\ goroutine'[a].pc \in {"announce", "done"}
      /\ \A b \in Agents \ {a} : goroutine'[b] = goroutine[b]
      /\ goroutine[a].outcome \in {"completed", "failed"}
  BY DEF Settle, At, Past, TellInv, IInv, TypeOK, Progress
<1>2. /\ UNCHANGED run /\ updating \subseteq updating'
      /\ run[a] = "running" => a \in updating'
  BY DEF Settle, Unended
<1>3. /\ \A t \in Tasks : task'[t] = task[t] \/ task'[t] \in {"completed", "failed"}
      /\ unrecorded.runs = unrecorded'.runs /\ unrecorded.tasks \subseteq unrecorded'.tasks
      /\ \A t \in Tasks : goroutine[a].task = t /\ task'[t] = "in_progress" => a \in unrecorded'.tasks
  BY <1>1, PoolAssumption DEF Settle, SettleTask, TellInv, IInv, TypeOK
<1>4. Started'
  BY <1>1, <1>3 DEF TellInv, Started, At
<1>5. EndsTold'
  BY <1>1, <1>2, <1>3 DEF TellInv, EndsTold, Past, At
<1>6. QED
  BY <1>4, <1>5

\* A row is written, or its update given up.
LEMMA UpdateTells == ASSUME TellInv, NEW a \in Agents, UpdateRun(a) PROVE Started' /\ EndsTold'
<1>1. UNCHANGED <<goroutine, task>>
  BY DEF UpdateRun
<1>2. /\ updating \subseteq updating' \cup {a}
      /\ unrecorded.runs \subseteq unrecorded'.runs /\ unrecorded.tasks \subseteq unrecorded'.tasks
      /\ \A b \in Agents \ {a} : run'[b] = run[b]
      /\ run'[a] = "running" => a \in unrecorded'.runs
  BY DEF UpdateRun, TellInv, IInv, TypeOK
<1>3. QED
  BY <1>1, <1>2 DEF TellInv, Started, EndsTold, Past, At

\* Of an agent past its end the rows tell, or what they do not tell was given up: a
\* failed write, or a failure after the session was removed (markCompleted, markFailed,
\* StopAgent), for any agents and tasks.
THEOREM EndsAreTold == Spec => []EndsTold
<1>1. Init => TellInv
  BY InitInv DEF Init, TellInv, Started, EndsTold, Past, At
<1>2. ASSUME TellInv, [Next]_vars PROVE TellInv'
  <2>1. IInv'
    BY <1>2, NextInv DEF TellInv
  <2>2. ASSUME NEW a \in Agents,
               \/ \E t \in Tasks : Spawn(a, t)
               \/ SpawnWithDescription(a)
               \/ \E former \in Agents : RestartAgent(a, former)
               \/ RegisterAgent(a) \/ End(a) \/ Wrap(a) \/ UpdateRun(a)
        PROVE  Started' /\ EndsTold'
    BY <1>2, <2>2, SpawnTells, GoOnTells, EndTells, SettleTells, UpdateTells DEF Wrap
  <2>3. ASSUME \/ \E a \in Agents : StopAgent(a)
               \/ CancelRunningAgents \/ RemoveSession
        PROVE  Started' /\ EndsTold'
    BY <1>2, <2>3, TellStays DEF StopAgent, CancelRunningAgents, RemoveSession, Forget
  <2>4. ASSUME NEW w \in Waiters,
               WaitForAll(w) \/ Wake(w) \/ CallerGone(w) \/ \E a \in Agents : WaitForAgent(w, a)
        PROVE  Started' /\ EndsTold'
    <3>1. UNCHANGED <<pool, goroutine, cancelled, signalled, task, run, updating, announced,
                      unrecorded>>
      BY <2>4 DEF WaitForAll, Wake, CollectChannels, AllDone, SessionGone, AgentDone,
                CallerGone, WaitForAgent, Resume, WaiterOnly
    <3>2. /\ UNCHANGED <<goroutine, task, run>> /\ UNCHANGED unrecorded
          /\ updating \subseteq updating'
      BY <3>1
    <3>3. QED
      BY <1>2, <3>2, TellStays
  <2>5. CASE UNCHANGED vars
    BY <1>2, <2>1, <2>5, TellStays DEF vars, TellInv
  <2>6. QED
    BY <1>2, <2>1, <2>2, <2>3, <2>4, <2>5 DEF Next, TellInv
<1>3. QED
  BY <1>1, <1>2, PTL DEF Spec, TellInv

-----------------------------------------------------------------------------
(***************************************************************************)
(* Delegated agents.  A call in spawn mode holds an instance of its own,   *)
(* one in persistent mode an instance that a call of the same agent made;  *)
(* an instance is finished only by a call that is about to reopen it or to *)
(* delete it, so a call that is alone finds its instance as it left it.    *)
(***************************************************************************)

NotBegun == {"idle", "get"}
Readied == {"isReady", "markRunning", "recall", "run", "record", "finish", "reopen", "clean",
            "stash", "wait", "answered"}
Told == {"run", "record", "finish", "reopen", "clean", "stash", "wait", "answered"}
Recorded == {"finish", "reopen", "clean", "stash", "wait", "answered"}

Delegation ==
  [pc : NotBegun \cup {"reset", "isInitial", "markReady"} \cup Readied \cup {"failed", "refused"},
   key : AgentKeys \cup {None}, mode : LifecycleModes, holds : Delegations \cup {None},
   recalls : Seq(Delegations), alone : BOOLEAN, after : SUBSET Delegations]

MemoryTypeOK ==
  /\ agentMode \in [AgentKeys -> LifecycleModes]
  /\ instances \in [AgentKeys -> Delegations \cup {None}]
  /\ instance \in [Delegations -> [mode : LifecycleModes, state : LifecycleStates]]
  /\ contexts \in [AgentKeys -> Seq(Delegations)]
  /\ delegation \in [Delegations -> Delegation]

\* The instance x is one of agent k, in the mode of the call that created it.
InstanceOf(x, k) ==
  /\ delegation[x].pc \notin NotBegun /\ delegation[x].key = k
  /\ instance[x].mode = delegation[x].mode

\* What a call carries along.
CallFits(c) ==
  LET d == delegation[c] IN
  /\ d.pc = "idle" <=> d.key = None
  /\ d.pc \in NotBegun <=> d.holds = None
  /\ d.pc \notin NotBegun => InstanceOf(d.holds, d.key) /\ (d.mode = "spawn" => d.holds = c)
  /\ d.pc = "reset" => d.mode = "spawn"
  /\ d.recalls # <<>> => d.mode = "persistent" /\ d.pc \in Told \cup {"failed", "refused"}
  /\ \A i \in DOMAIN d.recalls :
       delegation[d.recalls[i]].pc # "idle" /\ delegation[d.recalls[i]].key = d.key
  /\ IsInjective(d.recalls)
  /\ \A e \in d.after : delegation[e].key = d.key /\ delegation[e].pc = "answered"

RegisteredFit == \A k \in AgentKeys : instances[k] # None => InstanceOf(instances[k], k)

\* What is recorded of an agent are calls of it, each once.
ContextsFit ==
  \A k \in AgentKeys :
    /\ \A i \in DOMAIN contexts[k] :
         /\ delegation[contexts[k][i]].key = k
         /\ delegation[contexts[k][i]].pc \in Recorded \cup {"refused"}
    /\ IsInjective(contexts[k])

AllPersistent(k) ==
  \A d \in Delegations : delegation[d].key = k => delegation[d].mode = "persistent"

\* The record of an agent that was never spawned has all its answers.
Remembered ==
  \A k \in AgentKeys : AllPersistent(k) =>
    /\ \A d \in Delegations :
         delegation[d].key = k /\ delegation[d].pc \in Recorded => d \in Range(contexts[k])
    /\ \A d \in Delegations :
         delegation[d].key = k /\ delegation[d].pc \in Told =>
           delegation[d].after \subseteq Range(delegation[d].recalls)

\* A call that is past the first two looks at its instance has one that was made ready.
MadeReady == \A c \in Delegations : delegation[c].pc \in Readied => Held(c).state # "initializing"

\* A call that is alone has its instance as it left it.
AloneFits(c) ==
  LET d == delegation[c] IN
  d.alone /\ d.pc \notin NotBegun \cup EndedSteps =>
    /\ \A e \in Delegations \ {c} :
         delegation[e].key = d.key => delegation[e].pc \in NotBegun \cup EndedSteps
    /\ d.mode = "spawn" => \A e \in Delegations \ {c} : delegation[e].holds # c
    /\ d.pc = "markReady" => Held(c).state = "initializing"
    /\ d.pc = "markRunning" => Held(c).state = "ready"
    /\ d.pc = "reopen" => Held(c).state = "finished"

\* Who finished an instance reopens it or is about to delete it.
FinishedFits ==
  \A x \in Delegations : instance[x].state = "finished" =>
    \E d \in Delegations :
      /\ delegation[d].holds = x
      /\ delegation[d].pc \in {"reopen", "clean", "stash", "wait", "answered"}
      /\ instance[x].mode = "persistent" => delegation[d].pc = "reopen"

\* The inductive invariant.
MemoryInv ==
  /\ MemoryTypeOK /\ \A c \in Delegations : CallFits(c) /\ AloneFits(c)
  /\ RegisteredFit /\ ContextsFit /\ Remembered /\ MadeReady /\ FinishedFits
  /\ RefusedOnlyByOverlap

-----------------------------------------------------------------------------
(* What every step of a task has in common                                 *)

LEMMA OneDelegation ==
  ASSUME MemoryInv, NEW c \in Delegations
  PROVE  delegation[c] \in Delegation /\ CallFits(c) /\ AloneFits(c)
BY DEF MemoryInv, MemoryTypeOK

Deleting == {"reopen", "clean", "stash", "wait", "answered"}

\* A call at pc has finished its instance, of which mode is that, and will see to it.
SeesTo(pc, mode) == pc \in Deleting /\ (mode = "persistent" => pc = "reopen")

\* The call c, which holds the instance h, goes on as k.
GoesOnAs(c, h, k) ==
  /\ k \in Delegation /\ h \in Delegations /\ h = delegation[c].holds
  /\ delegation' = [delegation EXCEPT ![c] = k]
  /\ delegation[c].pc \notin NotBegun \cup EndedSteps
  /\ k.pc \notin NotBegun \cup {"reset"}
  /\ k.key = delegation[c].key /\ k.mode = delegation[c].mode /\ k.holds = h
  /\ k.alone = delegation[c].alone /\ k.after = delegation[c].after

\* What a step of c to pc may do to its instance h.
InstanceGoesOn(c, h, pc) ==
  /\ instance' \in [Delegations -> [mode : LifecycleModes, state : LifecycleStates]]
  /\ \A x \in Delegations : instance'[x].mode = instance[x].mode
  /\ \A x \in Delegations \ {h} : instance'[x] = instance[x]
  /\ instance'[h].state = "initializing" => instance[h].state = "initializing"
  /\ pc \in Readied => instance'[h].state # "initializing"
  /\ delegation[c].alone =>
       /\ pc = "markReady" => instance'[h].state = "initializing"
       /\ pc = "markRunning" => instance'[h].state = "ready"
       /\ pc = "reopen" => instance'[h].state = "finished"
  /\ instance'[h].state = "finished" =>
       \/ SeesTo(pc, instance[h].mode)
       \/ instance[h].state = "finished" /\ ~SeesTo(delegation[c].pc, instance[h].mode)
  /\ pc = "refused" => ~delegation[c].alone \/ instance[h].mode # delegation[c].mode

RecallsFit(k) ==
  /\ k.recalls # <<>> => k.mode = "persistent" /\ k.pc \in Told \cup {"failed", "refused"}
  /\ \A i \in DOMAIN k.recalls :
       delegation[k.recalls[i]].pc # "idle" /\ delegation[k.recalls[i]].key = k.key
  /\ IsInjective(k.recalls)
  /\ AllPersistent(k.key) /\ k.pc \in Told => k.after \subseteq Range(k.recalls)

\* What becomes of the records.
RecordsGoOn(c, k) ==
  /\ contexts' \in [AgentKeys -> Seq(Delegations)] /\ ContextsFit'
  /\ \A j \in AgentKeys : AllPersistent(j) =>
       \A d \in Delegations :
         delegation[d].key = j /\ (IF d = c THEN k.pc ELSE delegation[d].pc) \in Recorded =>
           d \in Range(contexts'[j])

LEMMA TaskGoesOn ==
  ASSUME MemoryInv, NEW c \in Delegations, NEW h, NEW k,
         GoesOnAs(c, h, k), InstanceGoesOn(c, h, k.pc), RecallsFit(k), RecordsGoOn(c, k),
         instances' \in [AgentKeys -> Delegations \cup {None}],
         \A j \in AgentKeys : instances'[j] \in {instances[j], None},
         UNCHANGED agentMode
  PROVE  MemoryInv'
<1>1. /\ delegation' \in [Delegations -> Delegation] /\ delegation'[c] = k
      /\ \A d \in Delegations \ {c} : delegation'[d] = delegation[d]
      /\ h \in Delegations /\ delegation[c].holds = h
  BY DEF GoesOnAs, MemoryInv, MemoryTypeOK
<1>2. \A d \in Delegations :
        /\ delegation'[d].key = delegation[d].key /\ delegation'[d].mode = delegation[d].mode
        /\ delegation'[d].holds = delegation[d].holds /\ delegation'[d].alone = delegation[d].alone
        /\ delegation'[d].after = delegation[d].after
        /\ delegation'[d].pc \in NotBegun <=> delegation[d].pc \in NotBegun
        /\ delegation'[d].pc = "idle" <=> delegation[d].pc = "idle"
  BY <1>1 DEF GoesOnAs, NotBegun
<1>3. MemoryTypeOK'
  BY <1>1 DEF InstanceGoesOn, RecordsGoOn, MemoryInv, MemoryTypeOK
<1>4. \A x \in Delegations, j \in AgentKeys \cup {None} : InstanceOf(x, j) => InstanceOf(x, j)'
  BY <1>2 DEF InstanceOf, InstanceGoesOn
<1>5. \A j : AllPersistent(j)' <=> AllPersistent(j)
  BY <1>2 DEF AllPersistent
<1>6. ASSUME NEW d \in Delegations
      PROVE  CallFits(d)'
  <2>1. CallFits(d) /\ delegation[d] \in Delegation
    BY OneDelegation
  <2>2. delegation'[d].pc \notin NotBegun => InstanceOf(delegation[d].holds, delegation[d].key)'
    <3>1. delegation[d].pc \notin NotBegun => delegation[d].holds \in Delegations
      BY <2>1 DEF CallFits, Delegation
    <3>2. QED
      BY <1>2, <1>4, <2>1, <3>1 DEF CallFits, Delegation
  <2>3. \A e \in delegation[d].after : delegation'[e].key = delegation[d].key
                                       /\ delegation'[e].pc = "answered"
    <3>1. delegation[c].pc # "answered" /\ delegation[d].after \subseteq Delegations
      BY <2>1 DEF GoesOnAs, EndedSteps, Delegation
    <3>2. QED
      BY <1>1, <1>2, <2>1, <3>1 DEF CallFits
  <2>4. CASE d = c
    <3>1. \A i \in DOMAIN k.recalls : k.recalls[i] \in Delegations
      BY DEF GoesOnAs, Delegation
    <3>2. \A i \in DOMAIN k.recalls :
            delegation'[k.recalls[i]].pc # "idle" /\ delegation'[k.recalls[i]].key = k.key
      BY <1>2, <3>1 DEF RecallsFit
    <3>3. k.pc # "idle" /\ k.pc # "reset" /\ k.pc \notin NotBegun
      BY DEF GoesOnAs, NotBegun
    <3>4. QED
      BY <1>1, <1>2, <2>1, <2>2, <2>3, <2>4, <3>2, <3>3 DEF CallFits, RecallsFit, GoesOnAs
  <2>5. CASE d # c
    <3>1. \A i \in DOMAIN delegation[d].recalls : delegation[d].recalls[i] \in Delegations
      BY <2>1 DEF Delegation
    <3>2. \A i \in DOMAIN delegation[d].recalls :
            /\ delegation'[delegation[d].recalls[i]].pc # "idle"
            /\ delegation'[delegation[d].recalls[i]].key = delegation[d].key
      BY <1>2, <2>1, <3>1 DEF CallFits
    <3>3. QED
      BY <1>1, <2>1, <2>2, <2>3, <2>5, <3>2 DEF CallFits
  <2>6. QED
    BY <2>4, <2>5
<1>7. ASSUME NEW d \in Delegations
      PROVE  AloneFits(d)'
  <2>1. SUFFICES ASSUME delegation'[d].alone, delegation'[d].pc \notin NotBegun \cup EndedSteps
                 PROVE  AloneFits(d)'
    BY DEF AloneFits
  <2>2. /\ \A e \in Delegations \ {d} :
             delegation[e].key = delegation[d].key => delegation[e].pc \in NotBegun \cup EndedSteps
        /\ delegation[d].mode = "spawn" => \A e \in Delegations \ {d} : delegation[e].holds # d
        /\ d # c => /\ delegation[d].pc = "markReady" => Held(d).state = "initializing"
                    /\ delegation[d].pc = "markRunning" => Held(d).state = "ready"
                    /\ delegation[d].pc = "reopen" => Held(d).state = "finished"
    BY <1>1, <1>2, <2>1, OneDelegation DEF AloneFits, GoesOnAs
  <2>3. CASE d = c
    BY <1>1, <1>2, <2>1, <2>2, <2>3 DEF AloneFits, InstanceGoesOn, Held, GoesOnAs
  <2>4. CASE d # c
    <3>1. delegation[c].key # delegation[d].key
      BY <2>2, <2>4 DEF GoesOnAs
    <3>2. delegation[d].holds \in Delegations /\ delegation[d].holds # h
      <4>1. /\ InstanceOf(delegation[d].holds, delegation[d].key)
            /\ delegation[d].holds \in Delegations
        BY <1>1, <2>1, <2>4, OneDelegation DEF CallFits, Delegation
      <4>2. InstanceOf(h, delegation[c].key)
        BY <1>1, OneDelegation DEF CallFits, GoesOnAs
      <4>3. QED
        BY <3>1, <4>1, <4>2 DEF InstanceOf
    <3>3. Held(d)' = Held(d)
      BY <1>1, <2>4, <3>2 DEF Held, InstanceGoesOn
    <3>4. \A e \in Delegations \ {d} : delegation'[e].key = delegation'[d].key =>
            delegation'[e].pc \in NotBegun \cup EndedSteps
      BY <1>1, <1>2, <2>2, <3>1
    <3>5. QED
      BY <1>1, <1>2, <2>2, <2>4, <3>3, <3>4 DEF AloneFits
  <2>5. QED
    BY <2>3, <2>4
<1>8. RegisteredFit'
  BY <1>4 DEF MemoryInv, MemoryTypeOK, RegisteredFit
<1>9. Remembered'
  <2>1. SUFFICES ASSUME NEW j \in AgentKeys, AllPersistent(j),
                        NEW d \in Delegations, delegation'[d].key = j
                 PROVE  /\ delegation'[d].pc \in Recorded => d \in Range(contexts'[j])
                        /\ delegation'[d].pc \in Told =>
                             delegation'[d].after \subseteq Range(delegation'[d].recalls)
    BY <1>5 DEF Remembered
  <2>2. delegation'[d].pc \in Recorded => d \in Range(contexts'[j])
    BY <1>1, <1>2, <2>1 DEF RecordsGoOn
  <2>3. CASE d = c
    BY <1>1, <1>2, <2>1, <2>2, <2>3 DEF RecallsFit
  <2>4. CASE d # c
    BY <1>1, <2>1, <2>2, <2>4 DEF MemoryInv, Remembered
  <2>5. QED
    BY <2>3, <2>4
<1>10. MadeReady'
  <2>1. SUFFICES ASSUME NEW d \in Delegations, delegation'[d].pc \in Readied
                 PROVE  Held(d)'.state # "initializing"
    BY DEF MadeReady
  <2>2. CASE d = c
    BY <1>1, <2>1, <2>2 DEF Held, InstanceGoesOn, GoesOnAs
  <2>3. CASE d # c
    <3>1. delegation'[d] = delegation[d] /\ Held(d).state # "initializing"
      BY <1>1, <2>1, <2>3 DEF MemoryInv, MadeReady
    <3>2. delegation[d].holds \in Delegations
      BY <2>1, <3>1, OneDelegation DEF CallFits, Delegation, Readied, NotBegun
    <3>3. QED
      BY <3>1, <3>2 DEF Held, InstanceGoesOn
  <2>4. QED
    BY <2>2, <2>3
<1>11. FinishedFits'
  <2>1. SUFFICES ASSUME NEW x \in Delegations, instance'[x].state = "finished"
                 PROVE  \E d \in Delegations :
                          delegation'[d].holds = x /\ SeesTo(delegation'[d].pc, instance'[x].mode)
    BY DEF FinishedFits, SeesTo, Deleting
  <2>2. instance[x].state = "finished" =>
          \E d \in Delegations : delegation[d].holds = x /\ SeesTo(delegation[d].pc, instance[x].mode)
    BY DEF MemoryInv, FinishedFits, SeesTo, Deleting
  <2>3. instance'[x].mode = instance[x].mode
    BY DEF InstanceGoesOn
  <2>4. CASE x # h
    <3>1. instance[x].state = "finished"
      BY <2>1, <2>4 DEF InstanceGoesOn
    <3>2. PICK d \in Delegations : delegation[d].holds = x /\ SeesTo(delegation[d].pc, instance[x].mode)
      BY <2>2, <3>1
    <3>3. d # c
      BY <1>1, <2>4, <3>2
    <3>4. QED
      BY <1>1, <2>3, <3>2, <3>3
  <2>5. CASE x = h
    <3>1. CASE SeesTo(k.pc, instance[h].mode)
      BY <1>1, <1>2, <2>3, <2>5, <3>1
    <3>2. CASE ~SeesTo(k.pc, instance[h].mode)
      <4>1. instance[h].state = "finished" /\ ~SeesTo(delegation[c].pc, instance[h].mode)
        BY <2>1, <2>5, <3>2 DEF InstanceGoesOn
      <4>2. PICK d \in Delegations :
              delegation[d].holds = h /\ SeesTo(delegation[d].pc, instance[h].mode)
        BY <2>2, <2>5, <4>1
      <4>3. d # c
        BY <4>1, <4>2
      <4>4. QED
        BY <1>1, <2>3, <2>5, <4>2, <4>3
    <3>3. QED
      BY <3>1, <3>2
  <2>6. QED
    BY <2>4, <2>5
<1>12. RefusedOnlyByOverlap'
  <2>1. SUFFICES ASSUME NEW d \in Delegations, delegation'[d].pc = "refused"
                 PROVE  ~delegation'[d].alone \/ Held(d)'.mode # delegation'[d].mode
    BY DEF RefusedOnlyByOverlap, DelegationAt
  <2>2. CASE d = c
    BY <1>1, <1>2, <2>1, <2>2 DEF Held, InstanceGoesOn, GoesOnAs
  <2>3. CASE d # c
    <3>1. delegation'[d] = delegation[d] /\ (~delegation[d].alone \/ Held(d).mode # delegation[d].mode)
      BY <1>1, <2>1, <2>3 DEF MemoryInv, RefusedOnlyByOverlap, DelegationAt
    <3>2. delegation[d].holds \in Delegations
      BY <2>1, <3>1, OneDelegation DEF CallFits, Delegation, NotBegun
    <3>3. QED
      BY <3>1, <3>2 DEF Held, InstanceGoesOn
  <2>4. QED
    BY <2>2, <2>3
<1>13. QED
  BY <1>3, <1>6, <1>7, <1>8, <1>9, <1>10, <1>11, <1>12 DEF MemoryInv, RecordsGoOn

\* The call c goes on at step, having been told r.
GoesOnSome(c, step, r) ==
  \E k \in Delegation :
    GoesOnAs(c, delegation[c].holds, k) /\ k.pc = step /\ k.recalls = r /\ k.key \in AgentKeys

\* A step of c to another place, its record of earlier tasks being r from now on.
LEMMA GoesOn ==
  ASSUME MemoryInv, NEW c \in Delegations, NEW r \in Seq(Delegations),
         NEW step \in {"isInitial", "markReady", "failed", "refused"} \cup Readied,
         delegation[c].pc \notin NotBegun \cup EndedSteps,
         \/ delegation' = [delegation EXCEPT ![c].pc = step, ![c].recalls = r]
         \/ delegation' = [delegation EXCEPT ![c].pc = step] /\ r = delegation[c].recalls
  PROVE  GoesOnSome(c, step, r)
<1>1. delegation[c] \in Delegation /\ CallFits(c)
  BY OneDelegation
<1>2. PICK k : k = [delegation[c] EXCEPT !.pc = step, !.recalls = r]
  OBVIOUS
<1>3. /\ k \in Delegation /\ k.pc = step /\ k.key = delegation[c].key
      /\ k.mode = delegation[c].mode /\ k.holds = delegation[c].holds
      /\ k.recalls = r /\ k.alone = delegation[c].alone
      /\ k.after = delegation[c].after
  BY <1>1, <1>2 DEF Delegation
<1>4. delegation' = [delegation EXCEPT ![c] = k]
  <2>1. CASE delegation' = [delegation EXCEPT ![c].pc = step, ![c].recalls = r]
    BY <1>2, <2>1 DEF MemoryInv, MemoryTypeOK
  <2>2. CASE delegation' = [delegation EXCEPT ![c].pc = step] /\ r = delegation[c].recalls
    <3>1. k = [delegation[c] EXCEPT !.pc = step]
      BY <1>1, <1>2, <2>2 DEF Delegation
    <3>2. QED
      BY <2>2, <3>1
  <2>3. QED
    BY <2>1, <2>2
<1>5. delegation[c].holds \in Delegations /\ k.key \in AgentKeys
  BY <1>1, <1>3 DEF CallFits, Delegation, NotBegun
<1>6. GoesOnAs(c, delegation[c].holds, k)
  BY <1>3, <1>4, <1>5 DEF GoesOnAs, NotBegun, Readied
<1>7. QED
  BY <1>3, <1>5, <1>6 DEF GoesOnSome

LEMMA RecallsKept ==
  ASSUME MemoryInv, NEW c \in Delegations, NEW h, NEW k, GoesOnAs(c, h, k), k.key \in AgentKeys,
         k.recalls = delegation[c].recalls,
         k.pc \in Told => delegation[c].pc \in Told,
         delegation[c].pc \in Told => k.pc \in Told \cup {"failed", "refused"}
  PROVE  RecallsFit(k)
<1>1. AllPersistent(k.key) /\ k.pc \in Told => k.after \subseteq Range(k.recalls)
  BY DEF MemoryInv, Remembered, GoesOnAs
<1>2. QED
  BY <1>1, OneDelegation DEF RecallsFit, CallFits, EndedSteps, GoesOnAs

LEMMA RecordsKept ==
  ASSUME MemoryInv, NEW c \in Delegations, NEW h, NEW k, GoesOnAs(c, h, k), UNCHANGED contexts,
         k.pc \in Recorded => delegation[c].pc \in Recorded,
         delegation[c].pc \in Recorded => k.pc \in Recorded \cup {"refused"}
  PROVE  RecordsGoOn(c, k)
<1>1. /\ delegation'[c] = k /\ \A d \in Delegations \ {c} : delegation'[d] = delegation[d]
  BY DEF GoesOnAs, MemoryInv, MemoryTypeOK
<1>2. contexts \in [AgentKeys -> Seq(Delegations)]
  BY DEF MemoryInv, MemoryTypeOK
<1>3. ASSUME NEW j \in AgentKeys, NEW i \in DOMAIN contexts[j]
      PROVE  /\ delegation'[contexts[j][i]].key = j
             /\ delegation'[contexts[j][i]].pc \in Recorded \cup {"refused"}
  <2>1. contexts[j][i] \in Delegations
    BY <1>2
  <2>2. /\ delegation[contexts[j][i]].key = j
        /\ delegation[contexts[j][i]].pc \in Recorded \cup {"refused"}
    BY DEF MemoryInv, ContextsFit
  <2>3. QED
    BY <1>1, <2>1, <2>2 DEF EndedSteps, GoesOnAs
<1>4. ContextsFit'
  BY <1>3 DEF MemoryInv, ContextsFit
<1>5. \A j \in AgentKeys : AllPersistent(j) =>
        \A d \in Delegations :
          delegation[d].key = j /\ (IF d = c THEN k.pc ELSE delegation[d].pc) \in Recorded =>
            d \in Range(contexts[j])
  BY DEF MemoryInv, Remembered
<1>6. QED
  BY <1>2, <1>4, <1>5 DEF RecordsGoOn

\* A step that leaves the records alone.
LEMMA CallGoesOn ==
  ASSUME MemoryInv, NEW c \in Delegations, NEW h, h = delegation[c].holds,
         NEW step \in {"isInitial", "markReady", "failed", "refused"} \cup Readied,
         delegation[c].pc \notin NotBegun \cup EndedSteps,
         delegation' = [delegation EXCEPT ![c].pc = step],
         InstanceGoesOn(c, h, step),
         step \in Told => delegation[c].pc \in Told,
         delegation[c].pc \in Told => step \in Told \cup {"failed", "refused"},
         step \in Recorded => delegation[c].pc \in Recorded,
         delegation[c].pc \in Recorded => step \in Recorded \cup {"refused"},
         UNCHANGED <<agentMode, instances, contexts>>
  PROVE  MemoryInv'
<1>1. delegation[c].recalls \in Seq(Delegations)
  BY OneDelegation DEF Delegation
<1>2. GoesOnSome(c, step, delegation[c].recalls)
  BY <1>1, GoesOn
<1>3. PICK k \in Delegation :
        /\ GoesOnAs(c, h, k) /\ k.pc = step /\ k.recalls = delegation[c].recalls
        /\ k.key \in AgentKeys
  BY <1>2 DEF GoesOnSome
<1>4. RecallsFit(k) /\ RecordsGoOn(c, k)
  BY <1>3, RecallsKept, RecordsKept
<1>5. QED
  BY <1>3, <1>4, TaskGoesOn DEF MemoryInv, MemoryTypeOK

\* A step that leaves the instances alone, too.
LEMMA InstanceStays ==
  ASSUME MemoryInv, NEW c \in Delegations, NEW step, UNCHANGED instance,
         delegation[c].pc \notin NotBegun \cup EndedSteps,
         step \in Readied => delegation[c].pc \in Readied \/ Held(c).state # "initializing",
         delegation[c].alone =>
           /\ step = "markReady" => Held(c).state = "initializing"
           /\ step = "markRunning" => Held(c).state = "ready",
         step \notin {"reopen", "refused"},
         \A m \in LifecycleModes : SeesTo(delegation[c].pc, m) => SeesTo(step, m)
  PROVE  InstanceGoesOn(c, delegation[c].holds, step)
<1>1. delegation[c].holds \in Delegations
  BY OneDelegation DEF CallFits, Delegation
<1>2. /\ instance \in [Delegations -> [mode : LifecycleModes, state : LifecycleStates]]
      /\ delegation[c].pc \in Readied => Held(c).state # "initializing"
  BY DEF MemoryInv, MemoryTypeOK, MadeReady
<1>3. QED
  BY <1>1, <1>2 DEF InstanceGoesOn, Held

\* The call c goes on to step, or is refused.
LeadsTo(c, step) ==
  \E next \in {step, "refused"} :
    /\ delegation' = [delegation EXCEPT ![c].pc = next]
    /\ InstanceGoesOn(c, delegation[c].holds, next)

\* A transition of the instance of c.
LEMMA TransitionGoesOn ==
  ASSUME MemoryInv, NEW c \in Delegations, NEW state \in {"ready", "running", "finished"}, NEW step,
         TransitionOf(c, state, step),
         delegation[c].pc \notin NotBegun \cup EndedSteps,
         step \notin {"markReady", "markRunning", "refused"},
         step = "reopen" => state = "finished",
         state = "finished" => SeesTo(step, Held(c).mode),
         delegation[c].alone /\ Held(c).mode = delegation[c].mode => <<Held(c).state, state>> \in Transitions,
         SeesTo(delegation[c].pc, Held(c).mode) => <<"finished", state>> \in Transitions
  PROVE  LeadsTo(c, step)
<1>1. PICK h \in Delegations : h = delegation[c].holds
  BY OneDelegation DEF CallFits, Delegation
<1>2. instance \in [Delegations -> [mode : LifecycleModes, state : LifecycleStates]]
      /\ (delegation[c].pc \in Readied => instance[h].state # "initializing")
  BY <1>1 DEF MemoryInv, MemoryTypeOK, MadeReady, Held
<1>3. CASE <<Held(c).state, state>> \in Transitions
  <2>1. /\ instance' = [instance EXCEPT ![h].state = state]
        /\ delegation' = [delegation EXCEPT ![c].pc = step]
    BY <1>1, <1>3 DEF TransitionOf, DelegationGoto
  <2>2. PICK i : i = [instance[h] EXCEPT !.state = state]
    OBVIOUS
  <2>3. i \in [mode : LifecycleModes, state : LifecycleStates] /\ i.mode = instance[h].mode
        /\ i.state = state
    BY <1>1, <1>2, <2>2 DEF LifecycleStates
  <2>4. instance' = [instance EXCEPT ![h] = i]
    BY <2>1, <2>2
  <2>5. /\ instance' \in [Delegations -> [mode : LifecycleModes, state : LifecycleStates]]
        /\ instance'[h].mode = instance[h].mode /\ instance'[h].state = state
        /\ \A x \in Delegations \ {h} : instance'[x] = instance[x]
    BY <1>2, <2>3, <2>4
  <2>6. InstanceGoesOn(c, h, step)
    BY <1>1, <2>5 DEF InstanceGoesOn, Held
  <2>7. QED
    BY <1>1, <2>1, <2>6 DEF LeadsTo
<1>4. CASE <<Held(c).state, state>> \notin Transitions
  <2>1. UNCHANGED instance /\ delegation' = [delegation EXCEPT ![c].pc = "refused"]
    BY <1>4 DEF TransitionOf, DelegationGoto
  <2>2. instance[h].state = "finished" => ~SeesTo(delegation[c].pc, instance[h].mode)
    BY <1>1, <1>4 DEF Held
  <2>3. ~delegation[c].alone \/ instance[h].mode # delegation[c].mode
    BY <1>1, <1>4 DEF Held
  <2>4. InstanceGoesOn(c, h, "refused")
    BY <1>2, <2>1, <2>2, <2>3 DEF InstanceGoesOn, Readied
  <2>5. QED
    BY <1>1, <2>1, <2>4 DEF LeadsTo
<1>5. QED
  BY <1>3, <1>4

-----------------------------------------------------------------------------
(* The steps of a task                                                     *)

LEMMA LooksInv ==
  ASSUME MemoryInv, NEW c \in Delegations,
         \/ CheckInitializing(c) \/ CheckReady(c) \/ RunAgent(c) \/ StashAnswer(c) \/ TakeStashed(c)
  PROVE  MemoryInv'
<1>1. UNCHANGED <<agentMode, instances, instance, contexts>>
  BY DEF CheckInitializing, CheckReady, RunAgent, StashAnswer, TakeStashed
<1>2. PICK step \in Readied \cup {"markReady"} :
        /\ delegation' = [delegation EXCEPT ![c].pc = step]
        /\ \/ delegation[c].pc = "isInitial" /\ step = "markReady" /\ Held(c).state = "initializing"
           \/ delegation[c].pc = "isInitial" /\ step = "isReady" /\ Held(c).state # "initializing"
           \/ delegation[c].pc = "isReady" /\ step = "markRunning" /\ Held(c).state = "ready"
           \/ delegation[c].pc = "isReady" /\ step = "recall"
           \/ delegation[c].pc = "run" /\ step = "record"
           \/ delegation[c].pc = "stash" /\ step = "wait"
           \/ delegation[c].pc = "wait" /\ step = "answered"
  BY DEF CheckInitializing, CheckReady, RunAgent, StashAnswer, TakeStashed, DelegationGoto,
         DelegationAt, Readied
<1>3. delegation[c].pc \notin NotBegun \cup EndedSteps
  BY <1>2 DEF NotBegun, EndedSteps
<1>4. InstanceGoesOn(c, delegation[c].holds, step)
  <2>1. \A m \in LifecycleModes : SeesTo(delegation[c].pc, m) => SeesTo(step, m)
    BY <1>2 DEF SeesTo, Deleting
  <2>2. step \in Readied => delegation[c].pc \in Readied \/ Held(c).state # "initializing"
    BY <1>2 DEF Readied
  <2>3. QED
    BY <1>1, <1>2, <1>3, <2>1, <2>2, InstanceStays
<1>5. /\ step \in Told => delegation[c].pc \in Told
      /\ delegation[c].pc \in Told => step \in Told \cup {"failed", "refused"}
      /\ step \in Recorded => delegation[c].pc \in Recorded
      /\ delegation[c].pc \in Recorded => step \in Recorded \cup {"refused"}
  BY <1>2 DEF Told, Recorded
<1>6. QED
  BY <1>1, <1>2, <1>3, <1>4, <1>5, CallGoesOn

LEMMA MarksInv ==
  ASSUME MemoryInv, NEW c \in Delegations, MarkReady(c) \/ MarkRunning(c) \/ ReopenInstance(c)
  PROVE  MemoryInv'
<1>1. UNCHANGED <<agentMode, instances, contexts>>
  BY DEF MarkReady, MarkRunning, ReopenInstance
<1>2. PICK state \in {"ready", "running"}, step \in {"isReady", "recall", "clean"} :
        /\ TransitionOf(c, state, step)
        /\ \/ delegation[c].pc = "markReady" /\ state = "ready" /\ step = "isReady"
           \/ delegation[c].pc = "markRunning" /\ state = "running" /\ step = "recall"
           \/ delegation[c].pc = "reopen" /\ state = "ready" /\ step = "clean"
  BY DEF MarkReady, MarkRunning, ReopenInstance, DelegationAt
<1>3. delegation[c].pc \notin NotBegun \cup EndedSteps
  BY <1>2 DEF NotBegun, EndedSteps
<1>4. delegation[c].alone => <<Held(c).state, state>> \in Transitions
  BY <1>2, <1>3, OneDelegation DEF AloneFits, Transitions
<1>5. \A m \in LifecycleModes : SeesTo(delegation[c].pc, m) => <<"finished", state>> \in Transitions
  BY <1>2 DEF SeesTo, Deleting, Transitions
<1>6. Held(c).mode \in LifecycleModes
  <2>1. delegation[c].holds \in Delegations
    BY <1>3, OneDelegation DEF CallFits, Delegation
  <2>2. QED
    BY <2>1 DEF Held, MemoryInv, MemoryTypeOK
<1>7. LeadsTo(c, step)
  <2>1. SeesTo(delegation[c].pc, Held(c).mode) => <<"finished", state>> \in Transitions
    BY <1>5, <1>6
  <2>2. QED
    BY <1>2, <1>3, <1>4, <2>1, TransitionGoesOn
<1>8. PICK next \in {step, "refused"} :
        delegation' = [delegation EXCEPT ![c].pc = next]
        /\ InstanceGoesOn(c, delegation[c].holds, next)
  BY <1>7 DEF LeadsTo
<1>9. /\ next \in Told => delegation[c].pc \in Told
      /\ delegation[c].pc \in Told => next \in Told \cup {"failed", "refused"}
      /\ next \in Recorded => delegation[c].pc \in Recorded
      /\ delegation[c].pc \in Recorded => next \in Recorded \cup {"refused"}
      /\ next \in Readied \cup {"refused"}
  BY <1>2, <1>8 DEF Told, Recorded, Readied
<1>10. QED
  BY <1>1, <1>3, <1>8, <1>9, CallGoesOn

\* Whoever is alone finds its instance unfinished: who finished it would still be at work,
\* or it is c's own.
LEMMA FinishTaskInv ==
  ASSUME MemoryInv, NEW c \in Delegations, FinishTask(c)
  PROVE  MemoryInv'
<1>1. UNCHANGED <<agentMode, instances, contexts>> /\ delegation[c].pc = "finish"
  BY DEF FinishTask, DelegationAt
<1>2. PICK step \in {"reopen", "clean"} :
        /\ TransitionOf(c, "finished", step)
        /\ step = IF Held(c).mode = "persistent" THEN "reopen" ELSE "clean"
  BY DEF FinishTask
<1>3. PICK h \in Delegations : h = delegation[c].holds
  BY <1>1, OneDelegation DEF CallFits, Delegation, NotBegun
<1>4. /\ instance[h] \in [mode : LifecycleModes, state : LifecycleStates]
      /\ instance[h].state # "initializing"
  BY <1>1, <1>3 DEF MemoryInv, MemoryTypeOK, MadeReady, Readied, Held
<1>5. ASSUME delegation[c].alone, instance[h].mode = delegation[c].mode
      PROVE  instance[h].state # "finished"
  <2>1. SUFFICES ASSUME instance[h].state = "finished"
                 PROVE  FALSE
    OBVIOUS
  <2>2. PICK d \in Delegations :
          /\ delegation[d].holds = h
          /\ delegation[d].pc \in {"reopen", "clean", "stash", "wait", "answered"}
          /\ instance[h].mode = "persistent" => delegation[d].pc = "reopen"
    BY <2>1 DEF MemoryInv, FinishedFits
  <2>3. d # c
    BY <1>1, <2>2
  <2>4. delegation[d].key = delegation[c].key
    BY <1>1, <1>3, <2>2, OneDelegation DEF CallFits, InstanceOf, NotBegun
  <2>5. /\ delegation[d].pc \in NotBegun \cup EndedSteps
        /\ delegation[c].mode = "spawn" => delegation[d].holds # c
    BY <1>1, <1>5, <2>3, <2>4, OneDelegation DEF AloneFits, NotBegun, EndedSteps
  <2>6. CASE delegation[c].mode = "spawn"
    BY <1>1, <1>3, <2>2, <2>5, <2>6, OneDelegation DEF CallFits, NotBegun
  <2>7. CASE delegation[c].mode = "persistent"
    BY <1>5, <2>2, <2>5, <2>7 DEF NotBegun, EndedSteps
  <2>8. QED
    BY <2>6, <2>7, OneDelegation DEF Delegation, LifecycleModes
<1>6. delegation[c].alone /\ Held(c).mode = delegation[c].mode =>
        <<Held(c).state, "finished">> \in Transitions
  BY <1>3, <1>4, <1>5 DEF Held, LifecycleStates, Transitions
<1>7. SeesTo(step, Held(c).mode) /\ ~SeesTo(delegation[c].pc, Held(c).mode)
  BY <1>1, <1>2 DEF SeesTo, Deleting
<1>8. delegation[c].pc \notin NotBegun \cup EndedSteps
  BY <1>1 DEF NotBegun, EndedSteps
<1>9. PICK next \in {step, "refused"} :
        delegation' = [delegation EXCEPT ![c].pc = next]
        /\ InstanceGoesOn(c, delegation[c].holds, next)
  BY <1>2, <1>6, <1>7, <1>8, TransitionGoesOn DEF LeadsTo
<1>10. QED
  BY <1>1, <1>8, <1>9, CallGoesOn DEF Told, Recorded, Readied

LEMMA RunAgentFailsInv ==
  ASSUME MemoryInv, NEW c \in Delegations, RunAgentFails(c)
  PROVE  MemoryInv'
<1>1. UNCHANGED <<agentMode, instances, contexts>> /\ delegation[c].pc = "run"
      /\ delegation' = [delegation EXCEPT ![c].pc = "failed"]
  BY DEF RunAgentFails, DelegationAt, DelegationGoto
<1>2. PICK h \in Delegations : h = delegation[c].holds
  BY <1>1, OneDelegation DEF CallFits, Delegation, NotBegun
<1>3. instance \in [Delegations -> [mode : LifecycleModes, state : LifecycleStates]]
  BY DEF MemoryInv, MemoryTypeOK
<1>4. InstanceGoesOn(c, h, "failed")
  <2>1. CASE UNCHANGED instance
    BY <1>1, <1>3, <2>1 DEF InstanceGoesOn, SeesTo, Deleting, Readied
  <2>2. CASE instance' = [instance EXCEPT ![h].state = "blocked"]
    <3>1. PICK i : i = [instance[h] EXCEPT !.state = "blocked"]
      OBVIOUS
    <3>2. i \in [mode : LifecycleModes, state : LifecycleStates] /\ i.mode = instance[h].mode
          /\ i.state = "blocked"
      BY <1>2, <1>3, <3>1 DEF LifecycleStates
    <3>3. instance' = [instance EXCEPT ![h] = i]
      BY <2>2, <3>1
    <3>4. /\ instance' \in [Delegations -> [mode : LifecycleModes, state : LifecycleStates]]
          /\ instance'[h].mode = instance[h].mode /\ instance'[h].state = "blocked"
          /\ \A x \in Delegations \ {h} : instance'[x] = instance[x]
      BY <1>3, <3>2, <3>3
    <3>5. QED
      BY <3>4 DEF InstanceGoesOn, Readied
  <2>3. QED
    BY <1>2, <2>1, <2>2 DEF RunAgentFails
<1>5. QED
  BY <1>1, <1>2, <1>4, CallGoesOn DEF Told, Recorded, Readied, NotBegun, EndedSteps

\* A persistent agent is told what is recorded of it: all its answers so far, if none of
\* its calls was in spawn mode.
LEMMA RecallInv ==
  ASSUME MemoryInv, NEW c \in Delegations, Recall(c)
  PROVE  MemoryInv'
<1>1. /\ delegation[c].pc = "recall"
      /\ UNCHANGED <<agentMode, modeChanges, instances, instance, contexts, stash>>
  BY DEF Recall, DelegationAt
<1>2. /\ CallFits(c) /\ delegation[c].key \in AgentKeys /\ delegation[c] \in Delegation
      /\ delegation[c].pc \notin NotBegun \cup EndedSteps
  BY <1>1, OneDelegation DEF CallFits, Delegation, NotBegun, EndedSteps
<1>3. PICK j \in AgentKeys : j = delegation[c].key
  BY <1>2
<1>4. /\ contexts[j] \in Seq(Delegations) /\ IsInjective(contexts[j])
      /\ \A i \in DOMAIN contexts[j] : delegation[contexts[j][i]].key = j
                                       /\ delegation[contexts[j][i]].pc # "idle"
  BY DEF MemoryInv, MemoryTypeOK, ContextsFit, Recorded
<1>5. PICK r \in Seq(Delegations) :
        /\ delegation' = [delegation EXCEPT ![c].pc = "run", ![c].recalls = r]
        /\ r = IF Held(c).mode = "persistent" THEN contexts[j] ELSE <<>>
  <2>1. PICK r : r = IF Held(c).mode = "persistent" THEN contexts[j] ELSE <<>>
    OBVIOUS
  <2>2. r \in Seq(Delegations)
    BY <1>4, <2>1
  <2>3. delegation' = [delegation EXCEPT ![c].pc = "run", ![c].recalls = r]
    BY <1>3, <2>1 DEF Recall
  <2>4. QED
    BY <2>1, <2>2, <2>3
<1>6. PICK k \in Delegation :
        /\ GoesOnAs(c, delegation[c].holds, k) /\ k.pc = "run" /\ k.recalls = r
        /\ k.key \in AgentKeys
  <2>1. GoesOnSome(c, "run", r)
    BY <1>2, <1>5, GoesOn DEF Readied
  <2>2. QED
    BY <2>1 DEF GoesOnSome
<1>7. k.key = j /\ k.mode = delegation[c].mode /\ k.after = delegation[c].after
  BY <1>3, <1>6 DEF GoesOnAs
<1>8. delegation[c].mode = "spawn" => Held(c).mode = "spawn"
  BY <1>2 DEF CallFits, InstanceOf, Held, NotBegun
<1>9. RecallsFit(k)
  <2>1. r # <<>> => k.mode = "persistent" /\ k.pc \in Told
    BY <1>2, <1>5, <1>6, <1>7, <1>8 DEF Told, Delegation, LifecycleModes
  <2>2. \A i \in DOMAIN r : delegation[r[i]].pc # "idle" /\ delegation[r[i]].key = j
    BY <1>4, <1>5
  <2>3. IsInjective(r)
    BY <1>4, <1>5 DEF IsInjective
  <2>4. ASSUME AllPersistent(j)
        PROVE  delegation[c].after \subseteq Range(r)
    <3>1. PICK h \in Delegations : h = delegation[c].holds
      BY <1>2 DEF CallFits, Delegation
    <3>2. Held(c).mode = "persistent"
      BY <1>2, <1>3, <2>4, <3>1 DEF CallFits, InstanceOf, Held, AllPersistent
    <3>3. \A e \in delegation[c].after : e \in Range(contexts[j])
      BY <1>2, <1>3, <2>4 DEF CallFits, Delegation, MemoryInv, Remembered, Recorded
    <3>4. QED
      BY <1>5, <3>2, <3>3
  <2>5. QED
    BY <1>6, <1>7, <2>1, <2>2, <2>3, <2>4 DEF RecallsFit
<1>10. RecordsGoOn(c, k)
  BY <1>1, <1>6, RecordsKept DEF Recorded
<1>11. InstanceGoesOn(c, delegation[c].holds, "run")
  BY <1>1, <1>2, InstanceStays DEF Readied, SeesTo, Deleting
<1>12. QED
  BY <1>1, <1>6, <1>9, <1>10, <1>11, TaskGoesOn DEF MemoryInv, MemoryTypeOK

LEMMA RecordInv ==
  ASSUME MemoryInv, NEW c \in Delegations, Record(c)
  PROVE  MemoryInv'
<1>1. /\ delegation[c].pc = "record" /\ delegation' = [delegation EXCEPT ![c].pc = "finish"]
      /\ UNCHANGED <<agentMode, modeChanges, instances, instance, stash>>
  BY DEF Record, DelegationAt, DelegationGoto
<1>2. /\ CallFits(c) /\ delegation[c].key \in AgentKeys /\ delegation[c] \in Delegation
      /\ delegation[c].pc \notin NotBegun \cup EndedSteps
  BY <1>1, OneDelegation DEF CallFits, Delegation, NotBegun, EndedSteps
<1>3. PICK j \in AgentKeys : j = delegation[c].key
  BY <1>2
<1>4. PICK k \in Delegation :
        /\ GoesOnAs(c, delegation[c].holds, k) /\ k.pc = "finish"
        /\ k.recalls = delegation[c].recalls /\ k.key \in AgentKeys
  <2>1. delegation[c].recalls \in Seq(Delegations)
    BY <1>2 DEF Delegation
  <2>2. GoesOnSome(c, "finish", delegation[c].recalls)
    BY <1>1, <1>2, <2>1, GoesOn DEF Readied
  <2>3. QED
    BY <2>2 DEF GoesOnSome
<1>5. RecallsFit(k)
  BY <1>1, <1>4, RecallsKept DEF Told
<1>6. /\ delegation'[c] = k /\ k.key = j
      /\ \A d \in Delegations \ {c} : delegation'[d] = delegation[d]
  BY <1>3, <1>4 DEF GoesOnAs, MemoryInv, MemoryTypeOK
<1>7. /\ contexts \in [AgentKeys -> Seq(Delegations)]
      /\ \A i \in AgentKeys : IsInjective(contexts[i])
      /\ \A i \in AgentKeys : \A n \in DOMAIN contexts[i] :
           /\ contexts[i][n] \in Delegations /\ contexts[i][n] # c
           /\ delegation[contexts[i][n]].key = i
           /\ delegation[contexts[i][n]].pc \in Recorded \cup {"refused"}
  BY <1>1 DEF MemoryInv, MemoryTypeOK, ContextsFit, Recorded
<1>8. RecordsGoOn(c, k)
  <2>1. CASE UNCHANGED contexts /\ Held(c).mode # "persistent"
    <3>1. ContextsFit'
      BY <1>6, <1>7, <2>1 DEF ContextsFit
    <3>2. ~AllPersistent(j)
      BY <1>2, <1>3, <2>1 DEF AllPersistent, CallFits, InstanceOf, Held, Delegation, NotBegun
    <3>3. QED
      BY <1>3, <1>7, <2>1, <3>1, <3>2 DEF RecordsGoOn, MemoryInv, Remembered
  <2>2. CASE contexts' = [contexts EXCEPT ![j] = Append(contexts[j], c)]
    <3>1. PICK s \in Seq(Delegations) : s = contexts[j]
      BY <1>7
    <3>2. /\ Append(s, c) \in Seq(Delegations)
          /\ DOMAIN Append(s, c) = DOMAIN s \cup {Len(s) + 1}
          /\ Append(s, c)[Len(s) + 1] = c
          /\ \A n \in DOMAIN s : Append(s, c)[n] = s[n] /\ n # Len(s) + 1
      BY <3>1
    <3>3. /\ contexts' \in [AgentKeys -> Seq(Delegations)] /\ contexts'[j] = Append(s, c)
          /\ \A i \in AgentKeys \ {j} : contexts'[i] = contexts[i]
      BY <1>7, <2>2, <3>1, <3>2
    <3>4. IsInjective(Append(s, c))
      BY <1>7, <3>1, <3>2 DEF IsInjective
    <3>5. Range(Append(s, c)) = Range(s) \cup {c}
      BY <3>2 DEF Range
    <3>6. ContextsFit'
      <4>1. ASSUME NEW i \in AgentKeys
            PROVE  /\ \A n \in DOMAIN contexts'[i] :
                        /\ delegation'[contexts'[i][n]].key = i
                        /\ delegation'[contexts'[i][n]].pc \in Recorded \cup {"refused"}
                   /\ IsInjective(contexts'[i])
        <5>1. CASE i = j
          <6>1. ASSUME NEW n \in DOMAIN Append(s, c)
                PROVE  /\ delegation'[Append(s, c)[n]].key = j
                       /\ delegation'[Append(s, c)[n]].pc \in Recorded \cup {"refused"}
            <7>1. CASE n \in DOMAIN s
              BY <1>6, <1>7, <3>1, <3>2, <7>1
            <7>2. CASE n = Len(s) + 1
              BY <1>4, <1>6, <3>2, <7>2 DEF Recorded
            <7>3. QED
              BY <3>2, <7>1, <7>2
          <6>2. QED
            BY <3>3, <3>4, <5>1, <6>1
        <5>2. CASE i # j
          BY <1>6, <1>7, <3>3, <5>2
        <5>3. QED
          BY <5>1, <5>2
      <4>2. QED
        BY <4>1 DEF ContextsFit
    <3>7. QED
      BY <1>3, <3>1, <3>3, <3>5, <3>6 DEF RecordsGoOn, MemoryInv, Remembered
  <2>3. QED
    BY <1>3, <2>1, <2>2 DEF Record
<1>9. InstanceGoesOn(c, delegation[c].holds, "finish")
  BY <1>1, <1>2, InstanceStays DEF Readied, SeesTo, Deleting
<1>10. QED
  BY <1>1, <1>4, <1>5, <1>8, <1>9, TaskGoesOn DEF MemoryInv, MemoryTypeOK

\* A call in spawn mode drops the record of its agent.
LEMMA RecordDropped ==
  ASSUME MemoryInv, NEW c \in Delegations, NEW h, NEW k, GoesOnAs(c, h, k), k.key \in AgentKeys,
         delegation[c].mode = "spawn", contexts' = [contexts EXCEPT ![k.key] = <<>>],
         k.pc \in Recorded => delegation[c].pc \in Recorded,
         delegation[c].pc \in Recorded => k.pc \in Recorded \cup {"refused"}
  PROVE  RecordsGoOn(c, k)
<1>1. /\ delegation'[c] = k /\ \A d \in Delegations \ {c} : delegation'[d] = delegation[d]
  BY DEF GoesOnAs, MemoryInv, MemoryTypeOK
<1>2. /\ contexts \in [AgentKeys -> Seq(Delegations)] /\ <<>> \in Seq(Delegations)
  BY DEF MemoryInv, MemoryTypeOK
<1>3. /\ contexts' \in [AgentKeys -> Seq(Delegations)] /\ contexts'[k.key] = <<>>
      /\ \A i \in AgentKeys \ {k.key} : contexts'[i] = contexts[i]
  BY <1>2
<1>4. ContextsFit'
  <2>1. ASSUME NEW i \in AgentKeys
        PROVE  /\ \A n \in DOMAIN contexts'[i] :
                    /\ delegation'[contexts'[i][n]].key = i
                    /\ delegation'[contexts'[i][n]].pc \in Recorded \cup {"refused"}
               /\ IsInjective(contexts'[i])
    <3>1. CASE i = k.key
      BY <1>3, <3>1 DEF IsInjective
    <3>2. CASE i # k.key
      <4>1. /\ IsInjective(contexts[i])
            /\ \A n \in DOMAIN contexts[i] :
                 /\ contexts[i][n] \in Delegations
                 /\ delegation[contexts[i][n]].key = i
                 /\ delegation[contexts[i][n]].pc \in Recorded \cup {"refused"}
        BY <1>2 DEF MemoryInv, ContextsFit
      <4>2. \A n \in DOMAIN contexts[i] : contexts[i][n] # c
        BY <3>2, <4>1 DEF GoesOnAs
      <4>3. QED
        BY <1>1, <1>3, <3>2, <4>1, <4>2
    <3>3. QED
      BY <3>1, <3>2
  <2>2. QED
    BY <2>1 DEF ContextsFit
<1>5. ~AllPersistent(k.key)
  BY DEF AllPersistent, GoesOnAs
<1>6. QED
  BY <1>3, <1>4, <1>5 DEF RecordsGoOn, MemoryInv, Remembered

LEMMA DropsInv ==
  ASSUME MemoryInv, NEW c \in Delegations, ResetContext(c) \/ DeleteInstance(c)
  PROVE  MemoryInv'
<1>1. PICK step \in {"isInitial", "stash"} :
        /\ delegation' = [delegation EXCEPT ![c].pc = step]
        /\ \/ delegation[c].pc = "reset" /\ step = "isInitial"
           \/ delegation[c].pc = "clean" /\ step = "stash"
  BY DEF ResetContext, DeleteInstance, DelegationAt, DelegationGoto
<1>2. /\ CallFits(c) /\ delegation[c].key \in AgentKeys /\ delegation[c] \in Delegation
      /\ delegation[c].pc \notin NotBegun \cup EndedSteps
  BY <1>1, OneDelegation DEF CallFits, Delegation, NotBegun, EndedSteps
<1>3. UNCHANGED <<agentMode, instance>>
  BY DEF ResetContext, DeleteInstance
<1>4. PICK k \in Delegation :
        /\ GoesOnAs(c, delegation[c].holds, k) /\ k.pc = step
        /\ k.recalls = delegation[c].recalls /\ k.key \in AgentKeys
  <2>1. delegation[c].recalls \in Seq(Delegations)
    BY <1>2 DEF Delegation
  <2>2. GoesOnSome(c, step, delegation[c].recalls)
    BY <1>1, <1>2, <2>1, GoesOn DEF Readied
  <2>3. QED
    BY <2>2 DEF GoesOnSome
<1>5. k.key = delegation[c].key
  BY <1>4 DEF GoesOnAs
<1>6. RecallsFit(k)
  BY <1>1, <1>4, RecallsKept DEF Told
<1>7. InstanceGoesOn(c, delegation[c].holds, step)
  <2>1. \A m \in LifecycleModes : SeesTo(delegation[c].pc, m) => SeesTo(step, m)
    BY <1>1 DEF SeesTo, Deleting
  <2>2. step \in Readied => delegation[c].pc \in Readied
    BY <1>1 DEF Readied
  <2>3. QED
    BY <1>1, <1>2, <1>3, <2>1, <2>2, InstanceStays
<1>8. /\ k.pc \in Recorded => delegation[c].pc \in Recorded
      /\ delegation[c].pc \in Recorded => k.pc \in Recorded \cup {"refused"}
  BY <1>1, <1>4 DEF Recorded
<1>9. CASE delegation[c].mode = "spawn"
  <2>1. contexts' = [contexts EXCEPT ![k.key] = <<>>]
    BY <1>5, <1>9 DEF ResetContext, DeleteInstance
  <2>2. RecordsGoOn(c, k)
    BY <1>4, <1>8, <1>9, <2>1, RecordDropped
  <2>3. /\ instances' \in [AgentKeys -> Delegations \cup {None}]
        /\ \A j \in AgentKeys : instances'[j] \in {instances[j], None}
    <3>1. instances \in [AgentKeys -> Delegations \cup {None}]
      BY DEF MemoryInv, MemoryTypeOK
    <3>2. instances' = instances \/ instances' = [instances EXCEPT ![k.key] = None]
      BY <1>5 DEF ResetContext, DeleteInstance
    <3>3. QED
      BY <3>1, <3>2
  <2>4. QED
    BY <1>3, <1>4, <1>6, <1>7, <2>2, <2>3, TaskGoesOn
<1>10. CASE delegation[c].mode # "spawn"
  <2>1. delegation[c].pc = "clean" /\ UNCHANGED <<instances, contexts>>
    BY <1>1, <1>2, <1>10 DEF CallFits, ResetContext, DeleteInstance, DelegationAt
  <2>2. RecordsGoOn(c, k)
    BY <1>4, <1>8, <2>1, RecordsKept
  <2>3. QED
    BY <1>3, <1>4, <1>6, <1>7, <2>1, <2>2, TaskGoesOn DEF MemoryInv, MemoryTypeOK
<1>11. QED
  BY <1>9, <1>10

-----------------------------------------------------------------------------
(* The steps that begin a task                                             *)

\* The calls other than c stay as they are, but perhaps no longer alone.
OthersStay(c) ==
  /\ delegation' \in [Delegations -> Delegation]
  /\ \A d \in Delegations \ {c} :
       /\ delegation'[d].pc = delegation[d].pc /\ delegation'[d].key = delegation[d].key
       /\ delegation'[d].mode = delegation[d].mode /\ delegation'[d].holds = delegation[d].holds
       /\ delegation'[d].recalls = delegation[d].recalls
       /\ delegation'[d].after = delegation[d].after
       /\ delegation'[d].alone => delegation[d].alone
       /\ delegation[d].pc = "refused" => delegation'[d].alone = delegation[d].alone

\* Nobody holds, recalls or waits for a call that has not begun.
LEMMA NotHeldYet ==
  ASSUME MemoryInv, NEW c \in Delegations, delegation[c].pc \in NotBegun
  PROVE  /\ \A d \in Delegations : delegation[d].holds # c /\ c \notin delegation[d].after
         /\ \A k \in AgentKeys : instances[k] # c
         /\ \A k \in AgentKeys : \A i \in DOMAIN contexts[k] : contexts[k][i] # c
<1>1. ASSUME NEW d \in Delegations
      PROVE  delegation[d].holds # c /\ c \notin delegation[d].after
  BY OneDelegation, LifecycleAssumption DEF CallFits, InstanceOf, NotBegun
<1>2. ASSUME NEW k \in AgentKeys
      PROVE  instances[k] # c
  BY LifecycleAssumption DEF MemoryInv, RegisteredFit, InstanceOf
<1>3. \A k \in AgentKeys : \A i \in DOMAIN contexts[k] : contexts[k][i] # c
  BY DEF MemoryInv, ContextsFit, Recorded, NotBegun
<1>4. QED
  BY <1>1, <1>2, <1>3

\* What the beginning of c leaves as it was.
LEMMA TaskBegins ==
  ASSUME MemoryInv, NEW c \in Delegations, delegation[c].pc \in NotBegun, OthersStay(c),
         delegation'[c].pc \in {"get", "reset", "isInitial"},
         delegation'[c].key \in AgentKeys,
         delegation[c].pc # "idle" => /\ delegation'[c].key = delegation[c].key
                                      /\ delegation'[c].mode = delegation[c].mode,
         delegation'[c].recalls = <<>>,
         instance' \in [Delegations -> [mode : LifecycleModes, state : LifecycleStates]],
         \A x \in Delegations \ {c} : instance'[x] = instance[x],
         instance'[c].state = "finished" => instance[c].state = "finished",
         UNCHANGED contexts
  PROVE  /\ \A x \in Delegations \ {c}, j \in AgentKeys : InstanceOf(x, j) => InstanceOf(x, j)'
         /\ \A d \in Delegations \ {c} : CallFits(d)'
         /\ \A d \in Delegations \ {c} : delegation[d].pc \notin NotBegun => Held(d)' = Held(d)
         /\ ContextsFit' /\ Remembered' /\ MadeReady' /\ FinishedFits' /\ RefusedOnlyByOverlap'
<1>1. /\ \A d \in Delegations : delegation[d] \in Delegation /\ CallFits(d)
      /\ None \notin AgentKeys \cup Delegations
  BY OneDelegation, LifecycleAssumption
<1>2. \A x \in Delegations \ {c}, j \in AgentKeys : InstanceOf(x, j) => InstanceOf(x, j)'
  BY DEF InstanceOf, OthersStay
<1>3. ASSUME NEW d \in Delegations, delegation[d].pc \notin NotBegun
      PROVE  delegation[d].holds \in Delegations \ {c} /\ delegation[d].key \in AgentKeys
  BY <1>1, <1>3, NotHeldYet DEF CallFits, Delegation, NotBegun
<1>4. ASSUME NEW d \in Delegations \ {c}
      PROVE  CallFits(d)'
  <2>1. delegation'[d].pc \notin NotBegun => InstanceOf(delegation[d].holds, delegation[d].key)'
    BY <1>1, <1>2, <1>3 DEF CallFits, OthersStay
  <2>2. \A e \in delegation[d].after : delegation'[e].key = delegation[d].key
                                       /\ delegation'[e].pc = "answered"
    <3>1. delegation[d].after \subseteq Delegations \ {c}
      BY <1>1, NotHeldYet DEF Delegation
    <3>2. QED
      BY <1>1, <3>1 DEF CallFits, OthersStay
  <2>3. \A i \in DOMAIN delegation[d].recalls :
          /\ delegation'[delegation[d].recalls[i]].pc # "idle"
          /\ delegation'[delegation[d].recalls[i]].key = delegation[d].key
    <3>1. ASSUME NEW i \in DOMAIN delegation[d].recalls
          PROVE  /\ delegation[d].recalls[i] \in Delegations
                 /\ delegation[delegation[d].recalls[i]].pc # "idle"
                 /\ delegation[delegation[d].recalls[i]].key = delegation[d].key
      BY <1>1 DEF CallFits, Delegation
    <3>2. QED
      BY <3>1 DEF OthersStay
  <2>4. QED
    BY <1>1, <2>1, <2>2, <2>3 DEF CallFits, OthersStay
<1>5. ASSUME NEW d \in Delegations \ {c}, delegation[d].pc \notin NotBegun
      PROVE  Held(d)' = Held(d)
  BY <1>3, <1>5 DEF Held, OthersStay
<1>6. ContextsFit'
  <2>1. ASSUME NEW j \in AgentKeys, NEW i \in DOMAIN contexts[j]
        PROVE  /\ delegation'[contexts[j][i]].key = j
               /\ delegation'[contexts[j][i]].pc \in Recorded \cup {"refused"}
    <3>1. contexts[j][i] \in Delegations \ {c}
      BY NotHeldYet DEF MemoryInv, MemoryTypeOK
    <3>2. /\ delegation[contexts[j][i]].key = j
          /\ delegation[contexts[j][i]].pc \in Recorded \cup {"refused"}
      BY DEF MemoryInv, ContextsFit
    <3>3. QED
      BY <3>1, <3>2 DEF OthersStay
  <2>2. QED
    BY <2>1 DEF MemoryInv, ContextsFit
<1>7. Remembered'
  <2>1. SUFFICES ASSUME NEW j \in AgentKeys, AllPersistent(j)',
                        NEW d \in Delegations, delegation'[d].key = j
                 PROVE  /\ delegation'[d].pc \in Recorded => d \in Range(contexts[j])
                        /\ delegation'[d].pc \in Told =>
                             delegation'[d].after \subseteq Range(delegation'[d].recalls)
    BY DEF Remembered
  <2>2. AllPersistent(j)
    BY <1>1, <2>1 DEF AllPersistent, OthersStay, CallFits
  <2>3. CASE d = c
    BY <2>3 DEF Recorded, Told
  <2>4. CASE d # c
    BY <2>1, <2>2, <2>4 DEF OthersStay, MemoryInv, Remembered
  <2>5. QED
    BY <2>3, <2>4
<1>8. MadeReady'
  <2>1. SUFFICES ASSUME NEW d \in Delegations, delegation'[d].pc \in Readied
                 PROVE  Held(d)'.state # "initializing"
    BY DEF MadeReady
  <2>2. d # c
    BY <2>1 DEF Readied
  <2>3. delegation[d].pc \in Readied /\ delegation[d].pc \notin NotBegun
    BY <2>1, <2>2 DEF OthersStay, Readied, NotBegun
  <2>4. QED
    BY <1>5, <2>2, <2>3 DEF MemoryInv, MadeReady
<1>9. FinishedFits'
  <2>1. SUFFICES ASSUME NEW x \in Delegations, instance'[x].state = "finished"
                 PROVE  \E d \in Delegations :
                          delegation'[d].holds = x /\ SeesTo(delegation'[d].pc, instance'[x].mode)
    BY DEF FinishedFits, SeesTo, Deleting
  <2>2. instance[x].state = "finished"
    BY <2>1
  <2>3. PICK d \in Delegations :
          delegation[d].holds = x /\ SeesTo(delegation[d].pc, instance[x].mode)
    BY <2>2 DEF MemoryInv, FinishedFits, SeesTo, Deleting
  <2>4. d # c /\ x # c
    BY <2>3, NotHeldYet DEF SeesTo, Deleting, NotBegun
  <2>5. QED
    BY <2>3, <2>4 DEF OthersStay
<1>10. RefusedOnlyByOverlap'
  <2>1. SUFFICES ASSUME NEW d \in Delegations, delegation'[d].pc = "refused"
                 PROVE  ~delegation'[d].alone \/ Held(d)'.mode # delegation'[d].mode
    BY DEF RefusedOnlyByOverlap, DelegationAt
  <2>2. d # c
    BY <2>1
  <2>3. delegation[d].pc = "refused" /\ delegation[d].pc \notin NotBegun
    BY <2>1, <2>2 DEF OthersStay, NotBegun
  <2>4. QED
    BY <1>5, <2>2, <2>3 DEF OthersStay, MemoryInv, RefusedOnlyByOverlap, DelegationAt
<1>11. QED
  BY <1>2, <1>4, <1>5, <1>6, <1>7, <1>8, <1>9, <1>10

LEMMA SpawnAgentInv ==
  ASSUME MemoryInv, NEW c \in Delegations, NEW k \in AgentKeys, SpawnAgent(c, k)
  PROVE  MemoryInv'
<1>1. PICK n : n = [NoDelegation EXCEPT !.pc = "get", !.key = k, !.mode = agentMode[k],
                      !.after = {d \in Delegations :
                                   delegation[d].key = k /\ delegation[d].pc = "answered"}]
  OBVIOUS
<1>2. /\ n.pc = "get" /\ n.key = k /\ n.mode = agentMode[k] /\ n.holds = None
      /\ n.recalls = <<>> /\ n.alone = TRUE
      /\ n.after = {d \in Delegations : delegation[d].key = k /\ delegation[d].pc = "answered"}
      /\ n \in Delegation
  <2>1. agentMode[k] \in LifecycleModes /\ <<>> \in Seq(Delegations)
    BY DEF MemoryInv, MemoryTypeOK
  <2>2. QED
    BY <1>1, <2>1 DEF NoDelegation, Delegation, NotBegun
<1>3. /\ delegation[c].pc = "idle" /\ delegation' = [delegation EXCEPT ![c] = n]
      /\ UNCHANGED <<agentMode, instances, instance, contexts>>
  BY <1>1 DEF SpawnAgent, DelegationAt
<1>4. /\ delegation' \in [Delegations -> Delegation] /\ delegation'[c] = n
      /\ \A d \in Delegations \ {c} : delegation'[d] = delegation[d]
  BY <1>2, <1>3 DEF MemoryInv, MemoryTypeOK
<1>5. OthersStay(c)
  BY <1>4 DEF OthersStay
<1>6. /\ \A x \in Delegations \ {c}, j \in AgentKeys : InstanceOf(x, j) => InstanceOf(x, j)'
      /\ \A d \in Delegations \ {c} : CallFits(d)'
      /\ \A d \in Delegations \ {c} : delegation[d].pc \notin NotBegun => Held(d)' = Held(d)
      /\ ContextsFit' /\ Remembered' /\ MadeReady' /\ FinishedFits' /\ RefusedOnlyByOverlap'
  <2>1. instance' \in [Delegations -> [mode : LifecycleModes, state : LifecycleStates]]
    BY <1>3 DEF MemoryInv, MemoryTypeOK
  <2>2. QED
    BY <1>2, <1>3, <1>4, <1>5, <2>1, TaskBegins DEF NotBegun
<1>7. MemoryTypeOK'
  BY <1>3, <1>4 DEF MemoryInv, MemoryTypeOK
<1>8. RegisteredFit'
  BY <1>3, <1>6, NotHeldYet DEF MemoryInv, MemoryTypeOK, RegisteredFit, NotBegun
<1>9. CallFits(c)'
  <2>1. \A e \in n.after : delegation'[e].key = k /\ delegation'[e].pc = "answered"
    BY <1>2, <1>3, <1>4
  <2>2. IsInjective(n.recalls)
    BY <1>2 DEF IsInjective
  <2>3. QED
    BY <1>2, <1>4, <2>1, <2>2, LifecycleAssumption DEF CallFits, NotBegun
<1>10. ASSUME NEW d \in Delegations
       PROVE  AloneFits(d)'
  <2>1. SUFFICES ASSUME delegation'[d].alone, delegation'[d].pc \notin NotBegun \cup EndedSteps
                 PROVE  AloneFits(d)'
    BY DEF AloneFits
  <2>2. d # c /\ delegation'[d] = delegation[d] /\ Held(d)' = Held(d)
    BY <1>2, <1>4, <1>6, <2>1 DEF NotBegun
  <2>3. AloneFits(d)
    BY OneDelegation
  <2>4. QED
    BY <1>2, <1>4, <2>1, <2>2, <2>3, LifecycleAssumption DEF AloneFits, NotBegun
<1>11. QED
  BY <1>6, <1>7, <1>8, <1>9, <1>10 DEF MemoryInv

\* A call that gets the instance of another finds it of the same agent; if it is alone with
\* its agent, every other call of that has ended.
LEMMA GetOrCreateInstanceInv ==
  ASSUME MemoryInv, NEW c \in Delegations, GetOrCreateInstance(c)
  PROVE  MemoryInv'
<1>1. /\ delegation[c].pc = "get" /\ UNCHANGED <<agentMode, contexts>>
      /\ CallFits(c) /\ delegation[c] \in Delegation
      /\ delegation[c].key \in AgentKeys /\ delegation[c].recalls = <<>>
  <2>1. delegation[c].pc = "get" /\ UNCHANGED <<agentMode, contexts>>
    BY DEF GetOrCreateInstance, DelegationAt
  <2>2. CallFits(c) /\ delegation[c] \in Delegation
    BY OneDelegation
  <2>3. QED
    BY <2>1, <2>2 DEF CallFits, Delegation, Told
<1>2. PICK k \in AgentKeys, m \in LifecycleModes : k = delegation[c].key /\ m = delegation[c].mode
  BY <1>1 DEF Delegation
<1>3. PICK with : with = Active(delegation[c].key) \ {c}
  OBVIOUS
<1>4. PICK h : h = instances'[k]
  OBVIOUS
<1>5. PICK n : n = [delegation[c] EXCEPT !.pc = IF delegation[c].mode = "spawn" THEN "reset" ELSE "isInitial",
                                         !.holds = instances'[delegation[c].key],
                                         !.alone = Active(delegation[c].key) \ {c} = {}]
  OBVIOUS
<1>6. delegation' = [d \in Delegations |->
          IF d = c THEN n
          ELSE IF d \in with THEN [delegation[d] EXCEPT !.alone = FALSE]
          ELSE delegation[d]]
  <2>1. delegation' = [d \in Delegations |->
          IF d = c
          THEN [delegation[c] EXCEPT !.pc = IF delegation[c].mode = "spawn" THEN "reset" ELSE "isInitial",
                                     !.holds = instances'[delegation[c].key],
                                     !.alone = Active(delegation[c].key) \ {c} = {}]
          ELSE IF d \in Active(delegation[c].key) \ {c} THEN [delegation[d] EXCEPT !.alone = FALSE]
          ELSE delegation[d]]
    BY DEF GetOrCreateInstance
  <2>2. QED
    BY <1>3, <1>5, <2>1
<1>7. \/ /\ instances' = [instances EXCEPT ![k] = c]
         /\ instance' = [instance EXCEPT ![c] = NewInstance(m)]
      \/ /\ UNCHANGED <<instances, instance>> /\ instances[k] # None /\ m # "spawn"
  BY <1>2 DEF GetOrCreateInstance, CreatesInstance
<1>8. /\ instances \in [AgentKeys -> Delegations \cup {None}]
      /\ instance \in [Delegations -> [mode : LifecycleModes, state : LifecycleStates]]
      /\ None \notin AgentKeys \cup Delegations
  BY LifecycleAssumption DEF MemoryInv, MemoryTypeOK
<1>9. /\ NewInstance(m) \in [mode : LifecycleModes, state : LifecycleStates]
      /\ NewInstance(m).mode = m /\ NewInstance(m).state = "initializing"
  BY DEF NewInstance, LifecycleStates
<1>10. /\ h \in Delegations
       /\ instances' \in [AgentKeys -> Delegations \cup {None}]
       /\ instance' \in [Delegations -> [mode : LifecycleModes, state : LifecycleStates]]
       /\ \A x \in Delegations \ {c} : instance'[x] = instance[x]
       /\ instance'[c].state = "finished" => instance[c].state = "finished"
       /\ \A j \in AgentKeys \ {k} : instances'[j] = instances[j]
       /\ h = c => instance'[c].mode = m
       /\ h # c => h = instances[k] /\ m # "spawn"
  <2>1. CASE /\ instances' = [instances EXCEPT ![k] = c]
             /\ instance' = [instance EXCEPT ![c] = NewInstance(m)]
    BY <1>4, <1>8, <1>9, <2>1
  <2>2. CASE UNCHANGED <<instances, instance>> /\ instances[k] # None /\ m # "spawn"
    <3>1. h = instances[k] /\ h # c
      BY <1>1, <1>4, <2>2, NotHeldYet DEF NotBegun
    <3>2. QED
      BY <1>8, <2>2, <3>1
  <2>3. QED
    BY <1>7, <2>1, <2>2
<1>11. /\ n \in Delegation /\ n.pc \in {"reset", "isInitial"}
       /\ n.pc = "reset" => m = "spawn"
       /\ n.key = k /\ n.mode = m /\ n.holds = h /\ n.recalls = <<>>
       /\ (n.alone => with = {}) /\ n.after = delegation[c].after
  <2>1. PICK b \in BOOLEAN : b = (with = {})
    OBVIOUS
  <2>2. PICK p \in {"reset", "isInitial"} : p = IF m = "spawn" THEN "reset" ELSE "isInitial"
    OBVIOUS
  <2>3. n = [delegation[c] EXCEPT !.pc = p, !.holds = h, !.alone = b]
    BY <1>2, <1>3, <1>4, <1>5, <2>1, <2>2
  <2>4. /\ n.pc = p /\ n.key = k /\ n.mode = m /\ n.holds = h /\ n.recalls = <<>>
        /\ n.alone = b /\ n.after = delegation[c].after /\ n \in Delegation
    BY <1>1, <1>2, <1>10, <2>3 DEF Delegation
  <2>5. QED
    BY <2>1, <2>2, <2>4
<1>12. OthersStay(c) /\ delegation'[c] = n
  <2>1. ASSUME NEW d \in Delegations \ {c}
        PROVE  /\ delegation'[d] \in Delegation
               /\ \/ delegation'[d] = delegation[d]
                  \/ /\ d \in with /\ delegation'[d] = [delegation[d] EXCEPT !.alone = FALSE]
    <3>1. delegation[d] \in Delegation
      BY OneDelegation
    <3>2. [delegation[d] EXCEPT !.alone = FALSE] \in Delegation
      BY <3>1 DEF Delegation
    <3>3. CASE d \in with
      BY <1>6, <3>2, <3>3
    <3>4. CASE d \notin with
      BY <1>6, <3>1, <3>4
    <3>5. QED
      BY <3>3, <3>4
  <2>2. ASSUME NEW d \in Delegations \ {c}
        PROVE  /\ delegation'[d].pc = delegation[d].pc /\ delegation'[d].key = delegation[d].key
               /\ delegation'[d].mode = delegation[d].mode
               /\ delegation'[d].holds = delegation[d].holds
               /\ delegation'[d].recalls = delegation[d].recalls
               /\ delegation'[d].after = delegation[d].after
               /\ delegation'[d].alone => delegation[d].alone
               /\ delegation[d].pc = "refused" => delegation'[d].alone = delegation[d].alone
    <3>1. d \in with => delegation[d].pc # "refused"
      BY <1>3 DEF Active, EndedSteps
    <3>2. delegation[d] \in Delegation
      BY OneDelegation
    <3>3. CASE delegation'[d] = delegation[d]
      BY <3>3
    <3>4. CASE d \in with /\ delegation'[d] = [delegation[d] EXCEPT !.alone = FALSE]
      BY <3>1, <3>2, <3>4 DEF Delegation
    <3>5. QED
      BY <2>1, <3>3, <3>4
  <2>3. delegation' \in [Delegations -> Delegation]
    <3>1. \A d \in Delegations : delegation'[d] \in Delegation
      BY <1>6, <1>11, <2>1
    <3>2. QED
      BY <1>6, <3>1
  <2>4. QED
    BY <1>6, <2>2, <2>3 DEF OthersStay
<1>13. /\ \A x \in Delegations \ {c}, j \in AgentKeys : InstanceOf(x, j) => InstanceOf(x, j)'
       /\ \A d \in Delegations \ {c} : CallFits(d)'
       /\ \A d \in Delegations \ {c} : delegation[d].pc \notin NotBegun => Held(d)' = Held(d)
       /\ ContextsFit' /\ Remembered' /\ MadeReady' /\ FinishedFits' /\ RefusedOnlyByOverlap'
  BY <1>1, <1>2, <1>10, <1>11, <1>12, TaskBegins DEF NotBegun
<1>14. MemoryTypeOK'
  BY <1>1, <1>10, <1>12 DEF MemoryInv, MemoryTypeOK, OthersStay
<1>15. InstanceOf(h, k)'
  <2>1. CASE h = c
    BY <1>10, <1>11, <1>12, <2>1 DEF InstanceOf, NotBegun
  <2>2. CASE h # c
    BY <1>8, <1>10, <1>13, <2>2 DEF MemoryInv, RegisteredFit
  <2>3. QED
    BY <2>1, <2>2
<1>16. RegisteredFit'
  <2>1. ASSUME NEW j \in AgentKeys, j # k, instances[j] # None
        PROVE  InstanceOf(instances[j], j)'
    <3>1. instances[j] \in Delegations \ {c}
      BY <1>1, <1>8, <2>1, NotHeldYet DEF NotBegun
    <3>2. InstanceOf(instances[j], j)
      BY <2>1 DEF MemoryInv, RegisteredFit
    <3>3. QED
      BY <1>10, <1>13, <2>1, <3>1, <3>2 DEF InstanceOf
  <2>2. QED
    BY <1>4, <1>10, <1>15, <2>1 DEF RegisteredFit
<1>17. CallFits(c)'
  <2>1. \A e \in delegation[c].after : delegation'[e].key = k /\ delegation'[e].pc = "answered"
    <3>1. delegation[c].after \subseteq Delegations \ {c}
      BY <1>1, NotHeldYet DEF Delegation, NotBegun
    <3>2. QED
      BY <1>1, <1>2, <1>12, <3>1 DEF CallFits, OthersStay
  <2>2. IsInjective(n.recalls)
    BY <1>11 DEF IsInjective
  <2>3. QED
    BY <1>8, <1>10, <1>11, <1>12, <1>15, <2>1, <2>2 DEF CallFits, NotBegun
<1>18. ASSUME NEW d \in Delegations
       PROVE  AloneFits(d)'
  <2>1. SUFFICES ASSUME delegation'[d].alone, delegation'[d].pc \notin NotBegun \cup EndedSteps
                 PROVE  AloneFits(d)'
    BY DEF AloneFits
  <2>2. CASE d = c
    <3>1. \A e \in Delegations \ {c} : delegation[e].key = k => delegation[e].pc \in EndedSteps
      BY <1>2, <1>3, <1>11, <1>12, <2>1, <2>2 DEF Active
    <3>2. \A e \in Delegations \ {c} : delegation'[e].key = k => delegation'[e].pc \in EndedSteps
      BY <1>12, <3>1 DEF OthersStay
    <3>3. \A e \in Delegations \ {c} : delegation'[e].holds # c
      BY <1>1, <1>12, NotHeldYet DEF OthersStay, NotBegun
    <3>4. QED
      BY <1>11, <1>12, <2>2, <3>2, <3>3 DEF AloneFits
  <2>3. CASE d # c
    <3>1. /\ delegation[d].alone /\ delegation[d].pc \notin NotBegun \cup EndedSteps
          /\ delegation'[d].pc = delegation[d].pc /\ delegation'[d].key = delegation[d].key
          /\ delegation'[d].mode = delegation[d].mode /\ Held(d)' = Held(d)
      BY <1>12, <1>13, <2>1, <2>3 DEF OthersStay
    <3>2. delegation[d].key # k
      <4>1. d \notin with
        <5>1. d \in with => delegation'[d] = [delegation[d] EXCEPT !.alone = FALSE]
          BY <1>6, <2>3
        <5>2. delegation[d] \in Delegation
          BY OneDelegation
        <5>3. QED
          BY <2>1, <5>1, <5>2 DEF Delegation
      <4>2. QED
        BY <1>2, <1>3, <2>3, <3>1, <4>1 DEF Active
    <3>3. h # d
      BY <1>15, <2>3, <3>1, <3>2 DEF InstanceOf
    <3>4. AloneFits(d)
      BY OneDelegation
    <3>5. ASSUME NEW e \in Delegations \ {d}
          PROVE  /\ delegation'[e].key = delegation[d].key =>
                      delegation'[e].pc \in NotBegun \cup EndedSteps
                 /\ delegation[d].mode = "spawn" => delegation'[e].holds # d
      <4>1. CASE e = c
        BY <1>11, <1>12, <3>2, <3>3, <4>1
      <4>2. CASE e # c
        BY <1>12, <3>1, <3>4, <4>2 DEF AloneFits, OthersStay
      <4>3. QED
        BY <4>1, <4>2
    <3>6. QED
      BY <3>1, <3>4, <3>5 DEF AloneFits
  <2>4. QED
    BY <2>2, <2>3
<1>19. QED
  BY <1>13, <1>14, <1>16, <1>17, <1>18 DEF MemoryInv

-----------------------------------------------------------------------------
(* The session's memory                                                    *)

LEMMA MemoryInitInv ==
  ASSUME LifecycleInit
  PROVE  MemoryInv
<1>1. /\ NoDelegation \in Delegation /\ NoDelegation.pc = "idle" /\ NoDelegation.key = None
      /\ NoDelegation.mode = "spawn" /\ NoDelegation.holds = None
      /\ NoDelegation.recalls = <<>> /\ NoDelegation.after = {}
  <2>1. <<>> \in Seq(Delegations)
    OBVIOUS
  <2>2. QED
    BY <2>1 DEF NoDelegation, Delegation, NotBegun, LifecycleModes
<1>2. \A c \in Delegations : delegation[c] = NoDelegation
  BY DEF LifecycleInit
<1>3. /\ NewInstance("spawn") \in [mode : LifecycleModes, state : LifecycleStates]
      /\ NewInstance("spawn").state = "initializing"
  BY DEF NewInstance, LifecycleModes, LifecycleStates
<1>4. MemoryTypeOK
  BY <1>1, <1>3 DEF LifecycleInit, MemoryTypeOK
<1>5. \A c \in Delegations : CallFits(c) /\ AloneFits(c)
  BY <1>1, <1>2 DEF CallFits, AloneFits, NotBegun, IsInjective
<1>6. RegisteredFit
  BY DEF LifecycleInit, RegisteredFit
<1>7. ContextsFit
  BY DEF LifecycleInit, ContextsFit, IsInjective
<1>8. Remembered /\ MadeReady
  BY <1>1, <1>2 DEF Remembered, MadeReady, Recorded, Told, Readied
<1>9. FinishedFits
  BY <1>3 DEF LifecycleInit, FinishedFits
<1>10. RefusedOnlyByOverlap
  BY <1>1, <1>2 DEF RefusedOnlyByOverlap, DelegationAt
<1>11. QED
  BY <1>4, <1>5, <1>6, <1>7, <1>8, <1>9, <1>10 DEF MemoryInv

LEMMA MemoryKept ==
  ASSUME MemoryInv, UNCHANGED <<instances, instance, contexts, delegation>>,
         agentMode' \in [AgentKeys -> LifecycleModes]
  PROVE  MemoryInv'
<1>1. \A x, k : InstanceOf(x, k)' <=> InstanceOf(x, k)
  BY DEF InstanceOf
<1>2. \A c \in Delegations : CallFits(c)' /\ AloneFits(c)'
  BY <1>1 DEF MemoryInv, CallFits, AloneFits, Held
<1>3. MemoryTypeOK' /\ RegisteredFit' /\ ContextsFit'
  BY <1>1 DEF MemoryInv, MemoryTypeOK, RegisteredFit, ContextsFit
<1>4. Remembered' /\ MadeReady' /\ FinishedFits' /\ RefusedOnlyByOverlap'
  BY DEF MemoryInv, Remembered, AllPersistent, MadeReady, Held, FinishedFits,
         RefusedOnlyByOverlap, DelegationAt
<1>5. QED
  BY <1>2, <1>3, <1>4 DEF MemoryInv

LEMMA MemoryStepInv ==
  ASSUME MemoryInv, [LifecycleNext]_lifecycleVars
  PROVE  MemoryInv'
<1>1. ASSUME NEW k \in AgentKeys, ChangeMode(k)
      PROVE  MemoryInv'
  <2>1. agentMode' \in [AgentKeys -> LifecycleModes]
    BY <1>1 DEF ChangeMode, MemoryInv, MemoryTypeOK
  <2>2. QED
    BY <1>1, <2>1, MemoryKept DEF ChangeMode
<1>2. ASSUME NEW k \in AgentKeys, NEW c \in Delegations, SpawnAgent(c, k)
      PROVE  MemoryInv'
  BY <1>2, SpawnAgentInv
<1>3. ASSUME NEW c \in Delegations, TaskStep(c)
      PROVE  MemoryInv'
  BY <1>3, GetOrCreateInstanceInv, LooksInv, MarksInv, RecallInv, RecordInv, FinishTaskInv,
     RunAgentFailsInv, DropsInv DEF TaskStep
<1>4. CASE UNCHANGED lifecycleVars
  BY <1>4, MemoryKept DEF lifecycleVars, MemoryInv, MemoryTypeOK
<1>5. QED
  BY <1>1, <1>2, <1>3, <1>4 DEF LifecycleNext

LEMMA MemoryHolds ==
  ASSUME MemoryInv
  PROVE  SessionMemory
<1>1. SpawnStartsBare
  BY OneDelegation DEF SpawnStartsBare, CallFits
<1>2. ASSUME NEW c \in Delegations
      PROVE  LET k == delegation[c].key
                 told == delegation[c].recalls
             IN /\ \A i \in DOMAIN told : delegation[told[i]].key = k
                /\ IsInjective(told)
                /\ delegation[c].pc \in Told /\ AllPersistent(k) =>
                     delegation[c].after \subseteq Range(told)
  <2>1. delegation[c].pc \in Told => delegation[c].key \in AgentKeys
    BY OneDelegation DEF CallFits, Delegation, Told
  <2>2. QED
    BY <2>1, OneDelegation DEF CallFits, MemoryInv, Remembered
<1>3. PersistentRemembers
  BY <1>2 DEF PersistentRemembers, AllPersistent, Told
<1>4. QED
  BY <1>1, <1>3 DEF SessionMemory, MemoryInv

(* Whatever the agents and their calls: a task in spawn mode starts with no context, a  *)
(* persistent agent has every earlier answer of its session before it, and only an     *)
(* overlap or a change of mode makes the state of an instance refuse a task.            *)
THEOREM RemembersSession == LifecycleSpec => []SessionMemory
<1>1. LifecycleInit => MemoryInv
  BY MemoryInitInv
<1>2. MemoryInv /\ [LifecycleNext]_lifecycleVars => MemoryInv'
  BY MemoryStepInv
<1>3. MemoryInv => SessionMemory
  BY MemoryHolds
<1>4. QED
  BY <1>1, <1>2, <1>3, PTL DEF LifecycleSpec

\* What is left to say of the types once MemoryInv holds.
StashInv == modeChanges \in 0..MaxModeChanges /\ stash \subseteq Delegations

\* Instances, records and calls keep their types, and a call past its first look at the
\* manager has an instance (lifecycle.Manager.ExecuteTask).
THEOREM CallsHaveInstances == LifecycleSpec => []LifecycleTypeOK
<1>1. LifecycleInit => StashInv
  BY LifecycleAssumption DEF LifecycleInit, StashInv
<1>2. StashInv /\ [LifecycleNext]_lifecycleVars => StashInv'
  <2> SUFFICES ASSUME StashInv, [LifecycleNext]_lifecycleVars PROVE StashInv'
    OBVIOUS
  <2>1. ASSUME NEW k \in AgentKeys, ChangeMode(k) PROVE StashInv'
    BY <2>1, LifecycleAssumption DEF ChangeMode, StashInv
  <2>2. ASSUME NEW c \in Delegations, TaskStep(c) PROVE StashInv'
    <3>1. CASE StashAnswer(c) \/ TakeStashed(c)
      BY <3>1 DEF StashAnswer, TakeStashed, StashInv
    <3>2. CASE ~(StashAnswer(c) \/ TakeStashed(c))
      <4>1. CASE GetOrCreateInstance(c) \/ DeleteInstance(c)
        <5>1. GetOrCreateInstance(c) => UNCHANGED <<modeChanges, stash>>
          BY Zenon DEF GetOrCreateInstance
        <5>2. DeleteInstance(c) => UNCHANGED <<modeChanges, stash>>
          BY DEF DeleteInstance
        <5>3. QED
          BY <4>1, <5>1, <5>2 DEF StashInv
      <4>2. CASE ResetContext(c) \/ Recall(c) \/ Record(c)
        BY <4>2 DEF ResetContext, Recall, Record, StashInv
      <4>3. CASE MarkReady(c) \/ MarkRunning(c) \/ FinishTask(c) \/ ReopenInstance(c)
        BY <4>3 DEF MarkReady, MarkRunning, FinishTask, ReopenInstance, StashInv
      <4>4. CASE CheckInitializing(c) \/ CheckReady(c) \/ RunAgent(c) \/ RunAgentFails(c)
        BY <4>4 DEF CheckInitializing, CheckReady, RunAgent, RunAgentFails, StashInv
      <4>5. QED
        BY <2>2, <3>2, <4>1, <4>2, <4>3, <4>4 DEF TaskStep
    <3>3. QED
      BY <3>1, <3>2
  <2>3. ASSUME NEW k \in AgentKeys, NEW c \in Delegations, SpawnAgent(c, k) PROVE StashInv'
    BY <2>3 DEF SpawnAgent, StashInv
  <2>4. CASE UNCHANGED lifecycleVars
    BY <2>4 DEF lifecycleVars, StashInv
  <2>5. QED
    BY <2>1, <2>2, <2>3, <2>4 DEF LifecycleNext
<1>3. MemoryInv /\ StashInv => LifecycleTypeOK
  <2>1. SUFFICES ASSUME MemoryInv, StashInv PROVE LifecycleTypeOK
    OBVIOUS
  <2>2. ASSUME NEW c \in Delegations
        PROVE  /\ delegation[c].pc \in
                    {"idle", "get", "reset", "isInitial", "markReady", "isReady", "markRunning",
                     "recall", "run", "record", "finish", "reopen", "clean", "stash", "wait",
                     "answered", "failed", "refused"}
               /\ delegation[c].holds \in Delegations \cup {None}
               /\ delegation[c].pc \notin {"idle", "get"} => delegation[c].holds # None
    BY <2>1, OneDelegation DEF CallFits, Delegation, NotBegun, Readied, Told
  <2>3. QED
    BY <2>1, <2>2 DEF MemoryInv, MemoryTypeOK, StashInv, LifecycleTypeOK
<1>4. QED
  BY <1>1, <1>2, <1>3, MemoryInitInv, MemoryStepInv, PTL DEF LifecycleSpec

-----------------------------------------------------------------------------
(* The breakers                                                            *)

Ages == 0..Window
Ordered(ages) == \A i, j \in DOMAIN ages : i <= j => ages[j] <= ages[i]

\* The failures are the end of the streak, and what is before them is old.
EndOf(failures, ages) ==
  /\ Len(failures) <= Len(ages)
  /\ \A i \in 1..Len(failures) : failures[i] = ages[Len(ages) - Len(failures) + i]
  /\ \A i \in 1..Len(ages) - Len(failures) : ages[i] = Window

BreakerFits(k) ==
  /\ k = [state |-> k.state, failures |-> k.failures, openAge |-> k.openAge]
  /\ k.state \in BreakerStates /\ k.openAge \in 0..ResetInterval
  /\ k.failures \in Seq(Ages) /\ Len(k.failures) < Threshold /\ Ordered(k.failures)

StreakFits(ages) == ages \in Seq(Ages) /\ Len(ages) <= Threshold /\ Ordered(ages)

Remembers(k, ages) ==
  /\ k.state = "unused" => k.failures = <<>> /\ ages = <<>>
  /\ k.state = "closed" => EndOf(k.failures, ages)

\* Whoever has a breaker, an agent or the registry, has one that was created.
InUse(b) == b \in Breakers /\ breaker[b].state # "unused"

BreakerInv ==
  /\ breaker = [b \in Breakers |-> breaker[b]] /\ streak = [b \in Breakers |-> streak[b]]
  /\ \A b \in Breakers : /\ BreakerFits(breaker[b]) /\ StreakFits(streak[b])
                         /\ Remembers(breaker[b], streak[b])
  /\ agent \in [ToolUsers -> [pc : {"new", "missed", "bound", "calling"},
                              breaker : Breakers \cup {NoBreaker}]]
  /\ \A a \in ToolUsers : agent[a].pc \in {"bound", "calling"} => InUse(agent[a].breaker)
  /\ registered # NoBreaker => InUse(registered)
  /\ removed \subseteq Breakers /\ OneBreaker

\* The failures in the window are the last ones.
LEMMA Pruned ==
  ASSUME NEW ages \in Seq(Ages), Ordered(ages)
  PROVE  \E k \in 0..Len(ages) :
           /\ InWindow(ages) \in Seq(Ages) /\ Len(InWindow(ages)) = Len(ages) - k
           /\ \A i \in 1..Len(ages) - k : InWindow(ages)[i] = ages[k + i] /\ ages[k + i] < Window
           /\ \A i \in 1..k : ages[i] = Window
<1>1. PICK old : old = {i \in DOMAIN ages : ages[i] >= Window}
  OBVIOUS
<1>2. PICK k : k = Cardinality(old)
  OBVIOUS
<1>3. PICK n : n = Len(ages)
  OBVIOUS
<1>4. n \in Nat /\ DOMAIN ages = 1..n /\ \A i \in 1..n : ages[i] \in Ages
  BY <1>3
<1>5. IsFiniteSet(1..n) /\ Cardinality(1..n) = n /\ old \in SUBSET (1..n)
  BY <1>1, <1>4, FS_Interval
<1>6. IsFiniteSet(old) /\ k \in Nat /\ k <= n
  BY <1>2, <1>5, FS_Subset, FS_CardinalityType
<1>7. Window \in Nat /\ \A i \in 1..n : ages[i] \in Nat /\ ages[i] <= Window
  BY <1>4, BreakerAssumption DEF Ages
<1>8. ASSUME NEW i \in old PROVE i <= k
  <2>1. i \in 1..n /\ \A j \in 1..i : j \in 1..n /\ j <= i
    BY <1>4, <1>5, <1>8
  <2>2. \A j \in 1..i : ages[i] <= ages[j]
    BY <1>4, <2>1 DEF Ordered
  <2>3. 1..i \in SUBSET old
    BY <1>1, <1>4, <1>7, <2>1, <2>2
  <2>4. Cardinality(1..i) = i /\ Cardinality(1..i) <= Cardinality(old)
    BY <1>6, <2>1, <2>3, FS_Interval, FS_Subset
  <2>5. QED
    BY <1>2, <2>4
<1>9. old = 1..k
  <2>1. old \in SUBSET (1..k)
    BY <1>5, <1>6, <1>8
  <2>2. IsFiniteSet(1..k) /\ Cardinality(1..k) = k
    BY <1>6, FS_Interval
  <2>3. QED
    BY <1>2, <2>1, <2>2, FS_Subset
<1>10. InWindow(ages) = SubSeq(ages, k + 1, n)
  BY <1>1, <1>2, <1>3 DEF InWindow
<1>11. \A i \in (k + 1)..n : ages[i] \in Ages
  BY <1>4, <1>6
<1>12. /\ SubSeq(ages, k + 1, n) \in Seq(Ages) /\ Len(SubSeq(ages, k + 1, n)) = n - k
       /\ \A i \in 1..n - k : SubSeq(ages, k + 1, n)[i] = ages[k + i]
  BY <1>4, <1>6, <1>11, SubSeqProperties
<1>13. \A i \in 1..k : ages[i] = Window
  BY <1>1, <1>7, <1>9, <1>5
<1>14. \A i \in 1..n - k : ages[k + i] < Window
  BY <1>1, <1>4, <1>6, <1>7, <1>9
<1>15. k \in 0..n
  BY <1>4, <1>6
<1>16. QED
  BY <1>3, <1>10, <1>12, <1>13, <1>14, <1>15

LEMMA NoAges == <<>> \in Seq(Ages) /\ Len(<<>>) = 0 /\ StreakFits(<<>>) /\ Ordered(<<>>)
BY BreakerAssumption DEF StreakFits, Ordered

\* One more failure, and what a full streak drops for it.
Lengthened(ages, next) ==
  \E d \in {0, 1} :
    /\ d = 1 <=> Len(ages) = Threshold
    /\ Len(next) = Len(ages) - d + 1
    /\ \A i \in 1..Len(ages) - d : next[i] = ages[i + d]
    /\ next[Len(next)] = 0

LEMMA StreakGrows ==
  ASSUME NEW ages, StreakFits(ages), NEW next,
         next = Append(IF Len(ages) = Threshold THEN Tail(ages) ELSE ages, 0)
  PROVE  StreakFits(next) /\ Lengthened(ages, next)
<1>1. /\ ages \in Seq(Ages) /\ Len(ages) \in Nat /\ Len(ages) <= Threshold
      /\ Threshold \in Nat \ {0} /\ Window \in Nat /\ 0 \in Ages
  BY BreakerAssumption DEF StreakFits, Ages
<1>2. PICK rest : rest = IF Len(ages) = Threshold THEN Tail(ages) ELSE ages
  OBVIOUS
<1>3. \E d \in {0, 1} : /\ d = 1 <=> Len(ages) = Threshold
                        /\ rest \in Seq(Ages) /\ Len(rest) = Len(ages) - d
                        /\ \A i \in 1..Len(ages) - d : rest[i] = ages[i + d]
  <2>1. CASE Len(ages) = Threshold
    <3>1. ages # <<>>
      BY <1>1, <2>1
    <3>2. /\ Tail(ages) \in Seq(Ages) /\ Len(Tail(ages)) = Len(ages) - 1
          /\ \A i \in 1..Len(Tail(ages)) : Tail(ages)[i] = ages[i + 1]
      BY <1>1, <3>1, HeadTailProperties
    <3>3. QED
      BY <1>2, <2>1, <3>2
  <2>2. CASE Len(ages) # Threshold
    <3>1. rest = ages /\ Len(ages) - 0 = Len(ages) /\ \A i \in 1..Len(ages) : i + 0 = i
      BY <1>1, <1>2, <2>2
    <3>2. /\ rest \in Seq(Ages) /\ Len(rest) = Len(ages) - 0
          /\ \A i \in 1..Len(ages) - 0 : rest[i] = ages[i + 0]
      BY <1>1, <3>1
    <3>3. 0 = 1 <=> Len(ages) = Threshold
      BY <2>2
    <3>4. QED
      BY <3>2, <3>3
  <2>3. QED
    BY <2>1, <2>2
<1>4. PICK d \in {0, 1} : /\ d = 1 <=> Len(ages) = Threshold
                          /\ rest \in Seq(Ages) /\ Len(rest) = Len(ages) - d
                          /\ \A i \in 1..Len(ages) - d : rest[i] = ages[i + d]
  BY <1>3
<1>5. /\ next \in Seq(Ages) /\ Len(next) = Len(rest) + 1
      /\ \A i \in 1..Len(rest) : next[i] = rest[i]
      /\ next[Len(rest) + 1] = 0
  BY <1>1, <1>2, <1>4
<1>6. /\ Len(next) = Len(ages) - d + 1 /\ \A i \in 1..Len(ages) - d : next[i] = ages[i + d]
      /\ next[Len(next)] = 0
  BY <1>4, <1>5
<1>7. Len(next) <= Threshold
  BY <1>1, <1>4, <1>6
<1>8. Ordered(next)
  <2>1. SUFFICES ASSUME NEW i \in DOMAIN next, NEW j \in DOMAIN next, i <= j
                 PROVE  next[j] <= next[i]
    BY DEF Ordered
  <2>2. DOMAIN next = 1..Len(next) /\ \A x \in DOMAIN next : next[x] \in Nat
    <3>1. DOMAIN next = 1..Len(next) /\ \A x \in 1..Len(next) : next[x] \in Ages
      BY <1>5, ElementOfSeq, LenProperties
    <3>2. Ages \subseteq Nat
      BY <1>1 DEF Ages
    <3>3. QED
      BY <3>1, <3>2
  <2>3. CASE j = Len(next)
    BY <1>6, <2>2, <2>3
  <2>4. CASE j # Len(next)
    <3>1. i \in 1..Len(ages) - d /\ j \in 1..Len(ages) - d
      BY <1>1, <1>6, <2>1, <2>2, <2>4
    <3>2. i + d \in DOMAIN ages /\ j + d \in DOMAIN ages /\ i + d <= j + d
      BY <1>1, <2>1, <3>1
    <3>3. ages[j + d] <= ages[i + d]
      BY <3>2 DEF StreakFits, Ordered
    <3>4. QED
      BY <1>6, <3>1, <3>3
  <2>5. QED
    BY <2>3, <2>4
<1>9. QED
  BY <1>4, <1>5, <1>6, <1>7, <1>8 DEF StreakFits, Lengthened

\* The failures in the window and a new one.
FailureAdded(failures, more) ==
  /\ more \in Seq(Ages) /\ Ordered(more)
  /\ \A i \in 1..Len(more) : more[i] < Window
  /\ \E k \in 0..Len(failures) :
       /\ Len(more) = Len(failures) - k + 1
       /\ \A i \in 1..Len(failures) - k : more[i] = failures[k + i]
       /\ \A i \in 1..k : failures[i] = Window
       /\ more[Len(more)] = 0

LEMMA FailureRecorded ==
  ASSUME NEW failures \in Seq(Ages), Ordered(failures)
  PROVE  FailureAdded(failures, Append(InWindow(failures), 0))
<1>1. PICK k \in 0..Len(failures) :
        /\ InWindow(failures) \in Seq(Ages) /\ Len(InWindow(failures)) = Len(failures) - k
        /\ \A i \in 1..Len(failures) - k :
             InWindow(failures)[i] = failures[k + i] /\ failures[k + i] < Window
        /\ \A i \in 1..k : failures[i] = Window
  BY Pruned
<1>2. PICK rest : rest = InWindow(failures)
  OBVIOUS
<1>3. PICK more : more = Append(rest, 0)
  OBVIOUS
<1>4. rest \in Seq(Ages) /\ 0 \in Ages /\ Len(rest) \in Nat /\ Len(failures) \in Nat
      /\ Window \in Nat \ {0}
  BY <1>1, <1>2, BreakerAssumption DEF Ages
<1>5. /\ more \in Seq(Ages) /\ Len(more) = Len(rest) + 1
      /\ \A i \in 1..Len(rest) : more[i] = rest[i]
      /\ more[Len(rest) + 1] = 0
  BY <1>3, <1>4
<1>6. /\ Len(more) = Len(failures) - k + 1 /\ more[Len(more)] = 0
      /\ \A i \in 1..Len(failures) - k : more[i] = failures[k + i]
  BY <1>1, <1>2, <1>4, <1>5
<1>7. \A i \in 1..Len(more) : more[i] < Window
  <2>1. ASSUME NEW i \in 1..Len(more) PROVE more[i] < Window
    <3>1. CASE i = Len(more)
      BY <1>4, <1>6, <3>1
    <3>2. CASE i # Len(more)
      <4>1. i \in 1..Len(failures) - k
        BY <1>1, <1>4, <1>6, <3>2
      <4>2. QED
        BY <1>1, <1>6, <4>1
    <3>3. QED
      BY <3>1, <3>2
  <2>2. QED
    BY <2>1
<1>8. Ordered(more)
  <2>1. SUFFICES ASSUME NEW i \in DOMAIN more, NEW j \in DOMAIN more, i <= j
                 PROVE  more[j] <= more[i]
    BY DEF Ordered
  <2>2. DOMAIN more = 1..Len(more) /\ \A x \in DOMAIN more : more[x] \in Nat
    BY <1>4, <1>5 DEF Ages
  <2>3. CASE j = Len(more)
    BY <1>6, <2>2, <2>3
  <2>4. CASE j # Len(more)
    <3>1. i \in 1..Len(failures) - k /\ j \in 1..Len(failures) - k
      BY <1>1, <1>4, <1>6, <2>1, <2>2, <2>4
    <3>2. k + i \in DOMAIN failures /\ k + j \in DOMAIN failures /\ k + i <= k + j
      BY <1>1, <1>4, <2>1, <3>1
    <3>3. failures[k + j] <= failures[k + i]
      BY <3>2 DEF Ordered
    <3>4. QED
      BY <1>6, <3>1, <3>3
  <2>5. QED
    BY <2>3, <2>4
<1>9. QED
  BY <1>1, <1>2, <1>3, <1>5, <1>6, <1>7, <1>8 DEF FailureAdded

\* The new end of the streak is what a closed breaker then remembers.
LEMMA EndGrows ==
  ASSUME NEW ages \in Seq(Ages), NEW next \in Seq(Ages), Lengthened(ages, next),
         NEW failures \in Seq(Ages), Len(failures) < Threshold, EndOf(failures, ages),
         NEW more, FailureAdded(failures, more)
  PROVE  EndOf(more, next)
<1>1. PICK d \in {0, 1} : /\ d = 1 <=> Len(ages) = Threshold
                          /\ Len(next) = Len(ages) - d + 1
                          /\ \A i \in 1..Len(ages) - d : next[i] = ages[i + d]
                          /\ next[Len(next)] = 0
  BY DEF Lengthened
<1>2. PICK k \in 0..Len(failures) :
        /\ Len(more) = Len(failures) - k + 1
        /\ \A i \in 1..Len(failures) - k : more[i] = failures[k + i]
        /\ \A i \in 1..k : failures[i] = Window
        /\ more[Len(more)] = 0
  BY DEF FailureAdded
<1>3. PICK n, m : n = Len(failures) /\ m = Len(ages)
  OBVIOUS
<1>4. n \in Nat /\ m \in Nat /\ n <= m /\ n <= m - d /\ Threshold \in Nat /\ k \in 0..n
  BY <1>1, <1>3, BreakerAssumption DEF EndOf
<1>5. Len(more) = n - k + 1 /\ Len(next) = m - d + 1 /\ Len(more) <= Len(next)
  BY <1>1, <1>2, <1>3, <1>4
<1>6. /\ \A i \in 1..n : failures[i] = ages[m - n + i]
      /\ \A i \in 1..m - n : ages[i] = Window
  BY <1>3 DEF EndOf
<1>7. ASSUME NEW i \in 1..Len(more) PROVE more[i] = next[Len(next) - Len(more) + i]
  <2>1. CASE i = Len(more)
    <3>1. Len(next) - Len(more) + i = Len(next)
      BY <1>4, <1>5, <2>1
    <3>2. QED
      BY <1>1, <1>2, <2>1, <3>1
  <2>2. CASE i # Len(more)
    <3>1. i \in 1..n - k /\ k + i \in 1..n
      BY <1>4, <1>5, <2>2
    <3>2. more[i] = ages[m - n + (k + i)]
      BY <1>2, <1>3, <1>6, <3>1
    <3>3. /\ Len(next) - Len(more) + i \in 1..m - d
          /\ (Len(next) - Len(more) + i) + d = m - n + (k + i)
      BY <1>4, <1>5, <3>1
    <3>4. next[Len(next) - Len(more) + i] = ages[(Len(next) - Len(more) + i) + d]
      BY <1>1, <1>3, <3>3
    <3>5. QED
      BY <3>2, <3>3, <3>4
  <2>3. QED
    BY <2>1, <2>2
<1>8. ASSUME NEW i \in 1..Len(next) - Len(more) PROVE next[i] = Window
  <2>1. i \in 1..m - d /\ i + d \in 1..m /\ i + d <= m - n + k
    BY <1>4, <1>5
  <2>2. next[i] = ages[i + d]
    BY <1>1, <1>3, <2>1
  <2>3. CASE i + d <= m - n
    <3>1. i + d \in 1..m - n
      BY <1>4, <2>1, <2>3
    <3>2. QED
      BY <1>6, <2>2, <3>1
  <2>4. CASE ~(i + d <= m - n)
    <3>1. PICK x : x = i + d - (m - n)
      OBVIOUS
    <3>2. x \in 1..k /\ x \in 1..n /\ m - n + x = i + d
      BY <1>4, <2>1, <2>4, <3>1
    <3>3. failures[x] = Window /\ failures[x] = ages[m - n + x]
      BY <1>2, <1>6, <3>2
    <3>4. QED
      BY <2>2, <3>2, <3>3
  <2>5. QED
    BY <2>3, <2>4
<1>9. QED
  BY <1>5, <1>7, <1>8 DEF EndOf

-----------------------------------------------------------------------------
(* One breaker                                                             *)

LEMMA FailureKept ==
  ASSUME NEW k, BreakerFits(k), k.state # "unused", NEW ages, StreakFits(ages),
         Remembers(k, ages), NEW next, StreakFits(next), Lengthened(ages, next)
  PROVE  /\ BreakerFits(Failure(k)) /\ Failure(k).state # "unused" /\ Remembers(Failure(k), next)
         /\ k.state = "open" => Failure(k).state = "open"
         /\ k.state = "closed" /\ Failure(k).state = "open" =>
              Len(next) = Threshold /\ \A i \in DOMAIN next : next[i] < Window
<1>1. /\ k.failures \in Seq(Ages) /\ Len(k.failures) < Threshold /\ Ordered(k.failures)
      /\ k.state \in BreakerStates /\ k.openAge \in 0..ResetInterval
      /\ k = [state |-> k.state, failures |-> k.failures, openAge |-> k.openAge]
      /\ Threshold \in Nat \ {0} /\ 0 \in 0..ResetInterval
  BY BreakerAssumption DEF BreakerFits
<1>2. CASE k.state = "half_open"
  <2>1. Failure(k) = [k EXCEPT !.state = "open", !.openAge = 0]
    BY <1>2 DEF Failure
  <2>2. Failure(k) = [state |-> "open", failures |-> k.failures, openAge |-> 0]
    BY <1>1, <2>1
  <2>3. QED
    BY <1>1, <1>2, <2>2 DEF BreakerFits, BreakerStates, Remembers
<1>3. CASE k.state \in {"closed", "open"}
  <2>1. PICK more : more = Append(InWindow(k.failures), 0)
    OBVIOUS
  <2>2. FailureAdded(k.failures, more)
    BY <1>1, <2>1, FailureRecorded
  <2>3. /\ more \in Seq(Ages) /\ Ordered(more) /\ Len(more) \in Nat /\ Len(more) <= Threshold
        /\ \A i \in 1..Len(more) : more[i] < Window
    BY <1>1, <2>2 DEF FailureAdded
  <2>4. CASE k.state = "closed"
    <3>1. EndOf(more, next)
      BY <1>1, <2>2, <2>4, EndGrows DEF StreakFits, Remembers
    <3>2. CASE Len(more) >= Threshold
      <4>1. Failure(k) = [state |-> "open", failures |-> <<>>, openAge |-> 0]
        BY <2>1, <2>4, <3>2 DEF Failure
      <4>2. Len(next) \in Nat /\ Len(next) <= Threshold /\ Len(more) <= Len(next)
        BY <3>1 DEF StreakFits, EndOf
      <4>3. Len(next) = Threshold /\ Len(more) = Threshold
        BY <1>1, <2>3, <3>2, <4>2
      <4>4. \A i \in 1..Threshold : next[i] < Window
        <5>1. \A i \in 1..Threshold : more[i] = next[Len(next) - Len(more) + i]
          BY <3>1, <4>3 DEF EndOf
        <5>2. \A i \in 1..Threshold : Len(next) - Len(more) + i = i
          BY <1>1, <4>3
        <5>3. QED
          BY <2>3, <4>3, <5>1, <5>2
      <4>5. DOMAIN next = 1..Threshold
        BY <4>3 DEF StreakFits
      <4>6. QED
        BY <1>1, <2>4, <4>1, <4>3, <4>4, <4>5, NoAges DEF BreakerFits, BreakerStates, Remembers
    <3>3. CASE ~(Len(more) >= Threshold)
      <4>1. Failure(k) = [k EXCEPT !.failures = more]
        BY <2>1, <2>4, <3>3 DEF Failure
      <4>2. Failure(k) = [state |-> k.state, failures |-> more, openAge |-> k.openAge]
        BY <1>1, <4>1
      <4>3. Len(more) < Threshold
        BY <1>1, <2>3, <3>3
      <4>4. QED
        BY <1>1, <2>3, <2>4, <3>1, <4>2, <4>3 DEF BreakerFits, BreakerStates, Remembers
    <3>4. QED
      BY <3>2, <3>3
  <2>5. CASE k.state = "open"
    <3>1. CASE Len(more) >= Threshold
      <4>1. Failure(k) = [state |-> "open", failures |-> <<>>, openAge |-> 0]
        BY <2>1, <2>5, <3>1 DEF Failure
      <4>2. QED
        BY <1>1, <2>5, <4>1, NoAges DEF BreakerFits, BreakerStates, Remembers
    <3>2. CASE ~(Len(more) >= Threshold)
      <4>1. Failure(k) = [k EXCEPT !.failures = more]
        BY <2>1, <2>5, <3>2 DEF Failure
      <4>2. Failure(k) = [state |-> k.state, failures |-> more, openAge |-> k.openAge]
        BY <1>1, <4>1
      <4>3. Len(more) < Threshold
        BY <1>1, <2>3, <3>2
      <4>4. QED
        BY <1>1, <2>3, <2>5, <4>2, <4>3 DEF BreakerFits, BreakerStates, Remembers
    <3>3. QED
      BY <3>1, <3>2
  <2>6. QED
    BY <1>3, <2>4, <2>5
<1>4. QED
  BY <1>1, <1>2, <1>3 DEF BreakerStates

LEMMA SuccessKept ==
  ASSUME NEW k, BreakerFits(k), k.state # "unused"
  PROVE  /\ BreakerFits(Success(k)) /\ Success(k).state # "unused" /\ Remembers(Success(k), <<>>)
         /\ k.state = "open" => Success(k).state = "open"
         /\ k.state = "closed" => Success(k).state # "open"
<1>1. PICK state : state = IF k.state = "half_open" THEN "closed" ELSE k.state
  OBVIOUS
<1>2. /\ k = [state |-> k.state, failures |-> k.failures, openAge |-> k.openAge]
      /\ k.state \in BreakerStates /\ k.openAge \in 0..ResetInterval /\ Threshold \in Nat \ {0}
  BY BreakerAssumption DEF BreakerFits
<1>3. Success(k) = [k EXCEPT !.state = state, !.failures = <<>>]
  BY <1>1 DEF Success
<1>4. Success(k) = [state |-> state, failures |-> <<>>, openAge |-> k.openAge]
  BY <1>2, <1>3
<1>5. state \in BreakerStates \ {"unused"}
  BY <1>1, <1>2 DEF BreakerStates
<1>6. EndOf(<<>>, <<>>)
  BY NoAges DEF EndOf
<1>7. QED
  BY <1>1, <1>2, <1>4, <1>5, <1>6, NoAges DEF BreakerFits, Remembers

LEMMA LookKept ==
  ASSUME NEW k, BreakerFits(k), NEW ages, Remembers(k, ages)
  PROVE  /\ BreakerFits(CurrentState(k)) /\ Remembers(CurrentState(k), ages)
         /\ CurrentState(k).state = "unused" <=> k.state = "unused"
         /\ k.state = "closed" => CurrentState(k).state = "closed"
         /\ k.state = "open" /\ k.openAge < ResetInterval => CurrentState(k).state = "open"
<1>1. k = [state |-> k.state, failures |-> k.failures, openAge |-> k.openAge]
  BY DEF BreakerFits
<1>2. CASE k.state = "open" /\ k.openAge >= ResetInterval
  <2>1. CurrentState(k) = [k EXCEPT !.state = "half_open"]
    BY <1>2 DEF CurrentState
  <2>2. CurrentState(k) = [state |-> "half_open", failures |-> k.failures, openAge |-> k.openAge]
    BY <1>1, <2>1
  <2>3. ~(k.openAge < ResetInterval)
    BY <1>2, BreakerAssumption DEF BreakerFits
  <2>4. QED
    BY <1>2, <2>2, <2>3 DEF BreakerFits, BreakerStates, Remembers
<1>3. CASE ~(k.state = "open" /\ k.openAge >= ResetInterval)
  BY <1>3 DEF CurrentState
<1>4. QED
  BY <1>2, <1>3

\* Time.
Aged(ages) == [i \in DOMAIN ages |-> Older(ages[i], Window)]

LEMMA AgedFits ==
  ASSUME NEW ages \in Seq(Ages), Ordered(ages)
  PROVE  /\ Aged(ages) \in Seq(Ages) /\ Len(Aged(ages)) = Len(ages) /\ Ordered(Aged(ages))
         /\ \A i \in 1..Len(ages) : ages[i] = Window => Aged(ages)[i] = Window
<1>1. /\ Len(ages) \in Nat /\ DOMAIN ages = 1..Len(ages) /\ Window \in Nat
      /\ \A i \in 1..Len(ages) : ages[i] \in 0..Window
  BY BreakerAssumption DEF Ages
<1>2. PICK older : older = Aged(ages)
  OBVIOUS
<1>3. /\ older = [i \in 1..Len(ages) |-> older[i]]
      /\ \A i \in 1..Len(ages) :
           older[i] = IF ages[i] < Window THEN ages[i] + 1 ELSE ages[i]
  BY <1>1, <1>2 DEF Aged, Older
<1>4. \A i \in 1..Len(ages) : /\ older[i] \in 0..Window
                              /\ ages[i] = Window => older[i] = Window
  BY <1>1, <1>3
<1>5. older \in Seq(Ages) /\ Len(older) = Len(ages)
  <2>1. \A i \in 1..Len(ages) : older[i] \in Ages
    BY <1>4 DEF Ages
  <2>2. [i \in 1..Len(ages) |-> older[i]] \in Seq(Ages)
    BY <1>1, <2>1, IsASeq
  <2>3. older \in Seq(Ages) /\ DOMAIN older = 1..Len(ages)
    BY <1>3, <2>2
  <2>4. QED
    BY <1>1, <2>3, LenProperties
<1>6. Ordered(older)
  <2>1. SUFFICES ASSUME NEW i \in 1..Len(ages), NEW j \in 1..Len(ages), i <= j
                 PROVE  older[j] <= older[i]
    BY <1>3 DEF Ordered
  <2>2. ages[j] <= ages[i]
    BY <1>1, <2>1 DEF Ordered
  <2>3. QED
    BY <1>1, <1>3, <2>2
<1>7. QED
  BY <1>2, <1>4, <1>5, <1>6

LEMMA TickKept ==
  ASSUME NEW k, BreakerFits(k), NEW ages, StreakFits(ages), Remembers(k, ages), NEW next,
         next = [k EXCEPT !.openAge = Older(@, ResetInterval),
                          !.failures = [i \in DOMAIN @ |-> Older(@[i], Window)]]
  PROVE  /\ BreakerFits(next) /\ StreakFits(Aged(ages)) /\ Remembers(next, Aged(ages))
         /\ next.state = k.state
<1>1. k = [state |-> k.state, failures |-> k.failures, openAge |-> k.openAge]
  BY DEF BreakerFits
<1>2. PICK age : age = Older(k.openAge, ResetInterval)
  OBVIOUS
<1>3. PICK failures : failures = Aged(k.failures)
  OBVIOUS
<1>4. next = [k EXCEPT !.openAge = age, !.failures = failures]
  BY <1>1, <1>2, <1>3 DEF Aged
<1>5. next = [state |-> k.state, failures |-> failures, openAge |-> age]
  BY <1>1, <1>4
<1>6. age \in 0..ResetInterval
  BY <1>2, BreakerAssumption DEF BreakerFits, Older
<1>7. /\ failures \in Seq(Ages) /\ Len(failures) = Len(k.failures) /\ Ordered(failures)
      /\ \A i \in 1..Len(k.failures) : failures[i] = Older(k.failures[i], Window)
  <2>1. \A i \in DOMAIN k.failures : Aged(k.failures)[i] = Older(k.failures[i], Window)
    BY DEF Aged
  <2>2. k.failures \in Seq(Ages) /\ Ordered(k.failures) /\ DOMAIN k.failures = 1..Len(k.failures)
    BY DEF BreakerFits
  <2>3. QED
    BY <1>3, <2>1, <2>2, AgedFits
<1>8. /\ Aged(ages) \in Seq(Ages) /\ Len(Aged(ages)) = Len(ages) /\ Ordered(Aged(ages))
      /\ \A i \in 1..Len(ages) : ages[i] = Window => Aged(ages)[i] = Window
      /\ \A i \in 1..Len(ages) : Aged(ages)[i] = Older(ages[i], Window)
  <2>1. \A i \in DOMAIN ages : Aged(ages)[i] = Older(ages[i], Window)
    BY DEF Aged
  <2>2. ages \in Seq(Ages) /\ Ordered(ages) /\ DOMAIN ages = 1..Len(ages)
    BY DEF StreakFits
  <2>3. QED
    BY <2>1, <2>2, AgedFits
<1>9. StreakFits(Aged(ages))
  BY <1>8 DEF StreakFits
<1>10. BreakerFits(next)
  <2>1. k.state \in BreakerStates /\ Len(k.failures) < Threshold
    BY DEF BreakerFits
  <2>2. PICK state : state = k.state
    OBVIOUS
  <2>3. PICK row : row = [state |-> state, failures |-> failures, openAge |-> age]
    OBVIOUS
  <2>4. BreakerFits(row)
    BY <1>6, <1>7, <2>1, <2>2, <2>3 DEF BreakerFits
  <2>5. QED
    BY <1>5, <2>2, <2>3, <2>4
<1>11. ASSUME k.state = "unused" PROVE failures = <<>> /\ Aged(ages) = <<>>
  <2>1. k.failures = <<>> /\ ages = <<>>
    BY <1>11 DEF Remembers
  <2>2. Len(failures) = 0 /\ Len(Aged(ages)) = 0
    BY <1>7, <1>8, <2>1
  <2>3. QED
    BY <1>7, <1>8, <2>2
<1>12. ASSUME k.state = "closed" PROVE EndOf(failures, Aged(ages))
  <2>1. EndOf(k.failures, ages)
    BY <1>12 DEF Remembers
  <2>2. Len(k.failures) \in Nat /\ Len(ages) \in Nat /\ Len(k.failures) <= Len(ages)
    BY <2>1 DEF EndOf, BreakerFits, StreakFits
  <2>3. ASSUME NEW i \in 1..Len(k.failures)
        PROVE  failures[i] = Aged(ages)[Len(ages) - Len(k.failures) + i]
    <3>1. Len(ages) - Len(k.failures) + i \in 1..Len(ages)
      BY <2>2
    <3>2. k.failures[i] = ages[Len(ages) - Len(k.failures) + i]
      BY <2>1 DEF EndOf
    <3>3. QED
      BY <1>7, <1>8, <3>1, <3>2
  <2>4. ASSUME NEW i \in 1..Len(ages) - Len(k.failures) PROVE Aged(ages)[i] = Window
    <3>1. i \in 1..Len(ages) /\ ages[i] = Window
      BY <2>1, <2>2 DEF EndOf
    <3>2. QED
      BY <1>8, <3>1
  <2>5. QED
    BY <1>7, <1>8, <2>2, <2>3, <2>4 DEF EndOf
<1>13. next.state = k.state /\ next.failures = failures
  <2>1. PICK state : state = k.state
    OBVIOUS
  <2>2. PICK row : row = [state |-> state, failures |-> failures, openAge |-> age]
    OBVIOUS
  <2>3. row.state = state /\ row.failures = failures
    BY <2>2
  <2>4. QED
    BY <1>5, <2>1, <2>2, <2>3
<1>14. QED
  BY <1>9, <1>10, <1>11, <1>12, <1>13 DEF Remembers

-----------------------------------------------------------------------------
(* The steps                                                               *)

LEMMA BreakersStart == BreakerInit => BreakerInv
<1>1. SUFFICES ASSUME BreakerInit PROVE BreakerInv
  OBVIOUS
<1>2. ASSUME NEW b \in Breakers
      PROVE  /\ BreakerFits(breaker[b]) /\ StreakFits(streak[b])
             /\ Remembers(breaker[b], streak[b]) /\ breaker[b].state = "unused"
  <2>1. breaker[b] = [state |-> "unused", failures |-> <<>>, openAge |-> ResetInterval]
    BY <1>1 DEF BreakerInit
  <2>2. streak[b] = <<>> /\ Threshold \in Nat \ {0} /\ ResetInterval \in 0..ResetInterval
    BY <1>1, BreakerAssumption DEF BreakerInit
  <2>3. QED
    BY <2>1, <2>2, NoAges DEF BreakerFits, BreakerStates, Remembers
<1>3. QED
  BY <1>1, <1>2 DEF BreakerInit, BreakerInv, OneBreaker

\* Those who have a breaker still have one.
LEMMA StaysInUse ==
  ASSUME NEW b, InUse(b), breaker'[b].state # "unused"
  PROVE  InUse(b)'
BY DEF InUse

\* A step of breaker b to k and its streak to ages.
StepOf(b, k, ages) ==
  /\ b \in Breakers /\ BreakerFits(k) /\ StreakFits(ages) /\ Remembers(k, ages)
  /\ breaker' = [breaker EXCEPT ![b] = k] /\ streak' = [streak EXCEPT ![b] = ages]
  /\ breaker[b].state # "unused" => k.state # "unused"

LEMMA BreakersStay ==
  ASSUME BreakerInv, NEW b, NEW k, NEW ages, StepOf(b, k, ages)
  PROVE  /\ breaker' = [x \in Breakers |-> breaker'[x]] /\ streak' = [x \in Breakers |-> streak'[x]]
         /\ breaker'[b] = k /\ streak'[b] = ages
         /\ \A x \in Breakers \ {b} : breaker'[x] = breaker[x] /\ streak'[x] = streak[x]
         /\ \A x \in Breakers : /\ BreakerFits(breaker'[x]) /\ StreakFits(streak'[x])
                                /\ Remembers(breaker'[x], streak'[x])
         /\ \A x \in Breakers : InUse(x) => InUse(x)'
<1>1. /\ breaker = [x \in Breakers |-> breaker[x]] /\ streak = [x \in Breakers |-> streak[x]]
      /\ b \in Breakers
  BY DEF BreakerInv, StepOf
<1>2. /\ breaker' = [x \in Breakers |-> breaker'[x]] /\ streak' = [x \in Breakers |-> streak'[x]]
      /\ breaker'[b] = k /\ streak'[b] = ages
      /\ \A x \in Breakers \ {b} : breaker'[x] = breaker[x] /\ streak'[x] = streak[x]
  BY <1>1 DEF StepOf
<1>3. ASSUME NEW x \in Breakers
      PROVE  /\ BreakerFits(breaker'[x]) /\ StreakFits(streak'[x])
             /\ Remembers(breaker'[x], streak'[x])
             /\ InUse(x) => InUse(x)'
  <2>1. CASE x = b
    BY <1>2, <2>1 DEF StepOf, InUse
  <2>2. CASE x # b
    BY <1>2, <2>2 DEF BreakerInv, InUse
  <2>3. QED
    BY <2>1, <2>2
<1>4. QED
  BY <1>2, <1>3

\* What is created is the registered breaker.
LEMMA CreateKept ==
  ASSUME BreakerInv, NEW a \in ToolUsers, Create(a), registered = NoBreaker,
         UNCHANGED <<removed, streak>>
  PROVE  BreakerInv'
<1>1. PICK b \in Breakers :
        /\ breaker[b].state = "unused" /\ breaker' = [breaker EXCEPT ![b].state = "closed"]
        /\ registered' = b /\ Bind(a, b)
  BY DEF Create
<1>2. PICK k : k = [breaker[b] EXCEPT !.state = "closed"]
  OBVIOUS
<1>3. /\ breaker = [x \in Breakers |-> breaker[x]] /\ streak = [x \in Breakers |-> streak[x]]
      /\ BreakerFits(breaker[b]) /\ StreakFits(streak[b]) /\ Remembers(breaker[b], streak[b])
  BY DEF BreakerInv
<1>4. breaker[b].failures = <<>> /\ streak[b] = <<>>
  BY <1>1, <1>3 DEF Remembers
<1>5. k = [state |-> "closed", failures |-> <<>>, openAge |-> breaker[b].openAge]
  BY <1>2, <1>3, <1>4 DEF BreakerFits
<1>6. EndOf(<<>>, <<>>)
  BY NoAges DEF EndOf
<1>7. Threshold \in Nat \ {0} /\ breaker[b].openAge \in 0..ResetInterval
  BY <1>3, BreakerAssumption DEF BreakerFits
<1>8. BreakerFits(k) /\ Remembers(k, streak[b]) /\ k.state # "unused"
  BY <1>4, <1>5, <1>6, <1>7, NoAges DEF BreakerFits, BreakerStates, Remembers
<1>9. breaker' = [breaker EXCEPT ![b] = k]
  BY <1>1, <1>2
<1>10. streak' = [streak EXCEPT ![b] = streak[b]]
  BY <1>3
<1>11. StepOf(b, k, streak[b])
  BY <1>3, <1>8, <1>9, <1>10 DEF StepOf
<1>12. /\ breaker' = [x \in Breakers |-> breaker'[x]] /\ streak' = [x \in Breakers |-> streak'[x]]
       /\ \A x \in Breakers : /\ BreakerFits(breaker'[x]) /\ StreakFits(streak'[x])
                              /\ Remembers(breaker'[x], streak'[x])
       /\ \A x \in Breakers : InUse(x) => InUse(x)'
       /\ \A x \in Breakers \ {b} : breaker'[x] = breaker[x]
       /\ breaker'[b] = k
  BY <1>11, BreakersStay
<1>13. InUse(b)'
  BY <1>8, <1>12 DEF InUse
<1>14. /\ agent' \in [ToolUsers -> [pc : {"new", "missed", "bound", "calling"},
                                    breaker : Breakers \cup {NoBreaker}]]
       /\ agent'[a].breaker = b
       /\ \A x \in ToolUsers \ {a} : agent'[x] = agent[x]
  BY <1>1 DEF Bind, BreakerInv
<1>15. \A x \in ToolUsers : agent'[x].pc \in {"bound", "calling"} => InUse(agent[x].breaker)'
  <2>1. SUFFICES ASSUME NEW x \in ToolUsers, agent'[x].pc \in {"bound", "calling"}
                 PROVE  InUse(agent[x].breaker)'
    OBVIOUS
  <2>2. PICK y : y = agent'[x].breaker
    OBVIOUS
  <2>3. CASE x = a
    BY <1>13, <1>14, <2>3
  <2>4. CASE x # a
    <3>1. y = agent[x].breaker /\ InUse(y)
      BY <1>14, <2>1, <2>2, <2>4 DEF BreakerInv
    <3>2. InUse(y)'
      BY <1>12, <3>1 DEF InUse
    <3>3. QED
      BY <2>2, <3>2
  <2>5. QED
    BY <2>3, <2>4
<1>16. OneBreaker'
  BY <1>1, <1>12, BreakerAssumption DEF BreakerInv, OneBreaker
<1>17. removed' \subseteq Breakers /\ registered' = b
  BY <1>1 DEF BreakerInv
<1>18. QED
  BY <1>12, <1>13, <1>14, <1>15, <1>16, <1>17 DEF BreakerInv

\* Agents that have or will get a breaker in use, when no breaker changes.
LEMMA BindKept ==
  ASSUME BreakerInv, UNCHANGED <<registered, breaker, removed, streak>>,
         NEW a \in ToolUsers, NEW b, NEW p,
         \/ p = "bound" /\ InUse(b)
         \/ p = "missed" /\ b = NoBreaker,
         agent' = [agent EXCEPT ![a] = [pc |-> p, breaker |-> b]]
  PROVE  BreakerInv'
<1>1. /\ agent' \in [ToolUsers -> [pc : {"new", "missed", "bound", "calling"},
                                   breaker : Breakers \cup {NoBreaker}]]
      /\ agent'[a].pc = p /\ agent'[a].breaker = b
      /\ \A x \in ToolUsers \ {a} : agent'[x] = agent[x]
  BY DEF BreakerInv, InUse
<1>2. \A x \in ToolUsers : agent'[x].pc \in {"bound", "calling"} => InUse(agent[x].breaker)'
  BY <1>1 DEF BreakerInv, InUse
<1>3. QED
  BY <1>1, <1>2 DEF BreakerInv, OneBreaker, InUse

\* One breaker goes on, and the agent of a call with it.
LEMMA BreakerGoesOn ==
  ASSUME BreakerInv, NEW b, InUse(b), NEW k, NEW ages, StepOf(b, k, ages),
         UNCHANGED <<registered, removed>>,
         \/ UNCHANGED agent
         \/ \E a \in ToolUsers, p \in {"bound", "calling"} :
              agent[a].breaker = b /\ agent' = [agent EXCEPT ![a].pc = p]
  PROVE  BreakerInv'
<1>1. /\ breaker' = [x \in Breakers |-> breaker'[x]] /\ streak' = [x \in Breakers |-> streak'[x]]
      /\ \A x \in Breakers : /\ BreakerFits(breaker'[x]) /\ StreakFits(streak'[x])
                             /\ Remembers(breaker'[x], streak'[x])
      /\ \A x \in Breakers : InUse(x) => InUse(x)'
      /\ \A x \in Breakers \ {b} : breaker'[x] = breaker[x]
  BY BreakersStay
<1>2. /\ agent' \in [ToolUsers -> [pc : {"new", "missed", "bound", "calling"},
                                   breaker : Breakers \cup {NoBreaker}]]
      /\ \A x \in ToolUsers :
           agent'[x].pc \in {"bound", "calling"} => InUse(agent'[x].breaker)
  BY DEF BreakerInv
<1>3. ASSUME NEW x \in ToolUsers, agent'[x].pc \in {"bound", "calling"}
      PROVE  InUse(agent[x].breaker)'
  <2>1. PICK y : y = agent'[x].breaker
    OBVIOUS
  <2>2. InUse(y)'
    BY <1>1, <1>2, <1>3, <2>1 DEF InUse
  <2>3. QED
    BY <2>1, <2>2
<1>4. OneBreaker'
  BY <1>1 DEF BreakerInv, OneBreaker, InUse
<1>5. (registered # NoBreaker => InUse(registered))'
  BY <1>1 DEF BreakerInv, InUse
<1>6. QED
  BY <1>1, <1>2, <1>3, <1>4, <1>5 DEF BreakerInv

\* The answer of a call.
LEMMA AnswerKept ==
  ASSUME BreakerInv, NEW a \in ToolUsers, RecordSuccess(a) \/ RecordFailure(a)
  PROVE  /\ InUse(agent[a].breaker)
         /\ \E k, ages : /\ StepOf(agent[a].breaker, k, ages)
                         /\ breaker[agent[a].breaker].state = "open" => k.state = "open"
                         /\ breaker[agent[a].breaker].state = "closed" /\ k.state = "open" =>
                              Len(ages) = Threshold /\ \A i \in DOMAIN ages : ages[i] < Window
         /\ agent' = [agent EXCEPT ![a].pc = "bound"] /\ UNCHANGED <<registered, removed>>
<1>1. PICK b : b = agent[a].breaker
  OBVIOUS
<1>2. agent[a].pc = "calling" /\ agent' = [agent EXCEPT ![a].pc = "bound"]
      /\ UNCHANGED <<registered, removed>>
  BY DEF RecordSuccess, RecordFailure, CallReturns
<1>3. InUse(b)
  BY <1>1, <1>2 DEF BreakerInv
<1>4. PICK k : k = breaker[b]
  OBVIOUS
<1>5. BreakerFits(k) /\ StreakFits(streak[b]) /\ Remembers(k, streak[b]) /\ k.state # "unused"
  BY <1>3, <1>4 DEF BreakerInv, InUse
<1>6. CASE RecordSuccess(a)
  <2>1. /\ breaker' = [breaker EXCEPT ![b] = Success(k)]
        /\ streak' = [streak EXCEPT ![b] = <<>>]
    BY <1>1, <1>4, <1>6 DEF RecordSuccess, CallReturns, BreakerOf
  <2>2. /\ BreakerFits(Success(k)) /\ Success(k).state # "unused" /\ Remembers(Success(k), <<>>)
        /\ k.state = "open" => Success(k).state = "open"
        /\ k.state = "closed" => Success(k).state # "open"
    BY <1>5, SuccessKept
  <2>3. StepOf(b, Success(k), <<>>)
    BY <1>3, <2>1, <2>2, NoAges DEF StepOf, InUse
  <2>4. QED
    BY <1>1, <1>2, <1>3, <1>4, <2>2, <2>3
<1>7. CASE RecordFailure(a)
  <2>1. PICK ages : ages = streak[b]
    OBVIOUS
  <2>2. PICK next : next = Append(IF Len(ages) = Threshold THEN Tail(ages) ELSE ages, 0)
    OBVIOUS
  <2>3. /\ breaker' = [breaker EXCEPT ![b] = Failure(k)]
        /\ streak' = [streak EXCEPT ![b] = next]
    BY <1>1, <1>4, <1>7, <2>1, <2>2 DEF RecordFailure, CallReturns, BreakerOf
  <2>4. StreakFits(next) /\ Lengthened(ages, next)
    BY <1>5, <2>1, <2>2, StreakGrows
  <2>5. /\ BreakerFits(Failure(k)) /\ Failure(k).state # "unused" /\ Remembers(Failure(k), next)
        /\ k.state = "open" => Failure(k).state = "open"
        /\ k.state = "closed" /\ Failure(k).state = "open" =>
             Len(next) = Threshold /\ \A i \in DOMAIN next : next[i] < Window
    BY <1>5, <2>1, <2>4, FailureKept
  <2>6. StepOf(b, Failure(k), next)
    BY <1>3, <2>3, <2>4, <2>5 DEF StepOf, InUse
  <2>7. QED
    BY <1>1, <1>2, <1>3, <1>4, <2>5, <2>6
<1>8. QED
  BY <1>6, <1>7

\* A look at a breaker, by a call or by the administrator.
LEMMA LookStep ==
  ASSUME BreakerInv, NEW b, InUse(b), breaker' = [breaker EXCEPT ![b] = CurrentState(breaker[b])],
         UNCHANGED streak
  PROVE  StepOf(b, CurrentState(breaker[b]), streak[b])
<1>1. PICK k : k = breaker[b]
  OBVIOUS
<1>2. BreakerFits(k) /\ StreakFits(streak[b]) /\ Remembers(k, streak[b]) /\ k.state # "unused"
  BY <1>1 DEF BreakerInv, InUse
<1>3. /\ BreakerFits(CurrentState(k)) /\ Remembers(CurrentState(k), streak[b])
      /\ CurrentState(k).state # "unused"
  BY <1>2, LookKept
<1>4. streak' = [streak EXCEPT ![b] = streak[b]]
  BY DEF BreakerInv
<1>5. QED
  BY <1>1, <1>2, <1>3, <1>4 DEF StepOf, InUse

\* Time passes for each breaker.
LEMMA TickStep ==
  ASSUME BreakerInv, Tick
  PROVE  BreakerInv' /\ \A b \in Breakers : breaker'[b].state = breaker[b].state
<1>1. ASSUME NEW b \in Breakers
      PROVE  /\ BreakerFits(breaker'[b]) /\ StreakFits(streak'[b])
             /\ Remembers(breaker'[b], streak'[b]) /\ breaker'[b].state = breaker[b].state
  <2>1. PICK k : k = breaker[b]
    OBVIOUS
  <2>2. PICK ages : ages = streak[b]
    OBVIOUS
  <2>3. PICK next : next = [k EXCEPT !.openAge = Older(@, ResetInterval),
                                     !.failures = [i \in DOMAIN @ |-> Older(@[i], Window)]]
    OBVIOUS
  <2>4. BreakerFits(k) /\ StreakFits(ages) /\ Remembers(k, ages)
    BY <2>1, <2>2 DEF BreakerInv
  <2>5. /\ BreakerFits(next) /\ StreakFits(Aged(ages)) /\ Remembers(next, Aged(ages))
        /\ next.state = k.state
    BY <2>3, <2>4, TickKept
  <2>6. breaker'[b] = next
    BY <2>1, <2>3 DEF Tick
  <2>7. streak'[b] = Aged(ages)
    BY <2>2 DEF Tick, Aged
  <2>8. QED
    BY <2>1, <2>5, <2>6, <2>7
<1>2. /\ breaker' = [b \in Breakers |-> breaker'[b]] /\ streak' = [b \in Breakers |-> streak'[b]]
      /\ UNCHANGED <<registered, agent, removed>>
  BY DEF Tick
<1>3. /\ \A b \in Breakers : InUse(b) <=> InUse(b)'
      /\ OneBreaker'
  BY <1>1, <1>2 DEF BreakerInv, OneBreaker, InUse
<1>4. \A a \in ToolUsers : agent'[a].pc \in {"bound", "calling"} => InUse(agent[a].breaker)'
  BY <1>1, <1>2 DEF BreakerInv, InUse
<1>5. (registered # NoBreaker => InUse(registered))'
  BY <1>1, <1>2 DEF BreakerInv, InUse
<1>6. BreakerInv'
  BY <1>1, <1>2, <1>3, <1>4, <1>5 DEF BreakerInv
<1>7. QED
  BY <1>1, <1>6

LEMMA BreakerStep == BreakerInv /\ [BreakerNext]_breakerVars => BreakerInv'
<1>1. SUFFICES ASSUME BreakerInv, [BreakerNext]_breakerVars PROVE BreakerInv'
  OBVIOUS
<1>2. ASSUME NEW a \in ToolUsers, GetLookup(a) PROVE BreakerInv'
  BY <1>1, <1>2, BindKept DEF GetLookup, Bind, BreakerInv
<1>3. ASSUME NEW a \in ToolUsers, GetCreate(a) PROVE BreakerInv'
  <2>1. CASE registered # NoBreaker
    BY <1>1, <1>3, <2>1, BindKept DEF GetCreate, Bind, BreakerInv
  <2>2. CASE registered = NoBreaker
    BY <1>1, <1>3, <2>2, CreateKept DEF GetCreate
  <2>3. QED
    BY <2>1, <2>2
<1>4. ASSUME NEW a \in ToolUsers, Allow(a) PROVE BreakerInv'
  <2>1. PICK b : b = agent[a].breaker
    OBVIOUS
  <2>2. /\ agent[a].pc = "bound" /\ breaker' = [breaker EXCEPT ![b] = CurrentState(breaker[b])]
        /\ agent' = [agent EXCEPT ![a].pc = "calling"] /\ UNCHANGED <<registered, removed, streak>>
    BY <1>4, <2>1 DEF Allow
  <2>3. InUse(b)
    BY <1>1, <2>1, <2>2 DEF BreakerInv
  <2>4. StepOf(b, CurrentState(breaker[b]), streak[b])
    BY <1>1, <2>2, <2>3, LookStep
  <2>5. QED
    BY <1>1, <2>1, <2>2, <2>3, <2>4, BreakerGoesOn
<1>5. ASSUME NEW b \in Breakers, State(b) PROVE BreakerInv'
  <2>1. InUse(b)
    BY <1>5 DEF State, InUse
  <2>2. StepOf(b, CurrentState(breaker[b]), streak[b])
    BY <1>1, <1>5, <2>1, LookStep DEF State
  <2>3. QED
    BY <1>1, <1>5, <2>1, <2>2, BreakerGoesOn DEF State
<1>6. ASSUME NEW a \in ToolUsers, RecordSuccess(a) \/ RecordFailure(a) PROVE BreakerInv'
  <2>1. PICK k, ages : StepOf(agent[a].breaker, k, ages)
    BY <1>1, <1>6, AnswerKept
  <2>2. InUse(agent[a].breaker) /\ agent' = [agent EXCEPT ![a].pc = "bound"]
        /\ UNCHANGED <<registered, removed>>
    BY <1>1, <1>6, AnswerKept
  <2>3. QED
    BY <1>1, <2>1, <2>2, BreakerGoesOn
<1>7. CASE Reset
  BY <1>1, <1>7 DEF Reset, BreakerInv, OneBreaker, InUse
<1>8. CASE Tick
  BY <1>1, <1>8, TickStep
<1>9. CASE UNCHANGED breakerVars
  BY <1>1, <1>9 DEF breakerVars, BreakerInv, OneBreaker, InUse
<1>10. QED
  BY <1>1, <1>2, <1>3, <1>4, <1>5, <1>6, <1>7, <1>8, <1>9 DEF BreakerNext, Refuse

LEMMA BreakersKeep == BreakerSpec => []BreakerInv
BY BreakersStart, BreakerStep, PTL DEF BreakerSpec

\* A closed breaker remembers all failures in the window.
LEMMA RecentAreFew ==
  ASSUME NEW failures \in Seq(Ages), Len(failures) < Threshold, NEW ages \in Seq(Ages),
         EndOf(failures, ages)
  PROVE  Cardinality(Recent(ages)) < Threshold
<1>1. PICK n, m : n = Len(failures) /\ m = Len(ages)
  OBVIOUS
<1>2. /\ n \in Nat /\ m \in Nat /\ n <= m /\ n < Threshold /\ Threshold \in Nat
      /\ \A i \in 1..m - n : ages[i] = Window
      /\ DOMAIN ages = 1..m /\ Window \in Nat
  BY <1>1, BreakerAssumption DEF EndOf
<1>3. Recent(ages) \in SUBSET ((m - n + 1)..m)
  BY <1>2 DEF Recent
<1>4. IsFiniteSet((m - n + 1)..m) /\ Cardinality((m - n + 1)..m) = n
  <2>1. PICK first : first = m - n + 1
    OBVIOUS
  <2>2. first \in Int /\ m \in Int /\ (IF first > m THEN 0 ELSE m - first + 1) = n
    BY <1>2, <2>1
  <2>3. QED
    BY <2>1, <2>2, FS_Interval
<1>5. Cardinality(Recent(ages)) <= n /\ Cardinality(Recent(ages)) \in Nat
  BY <1>3, <1>4, FS_Subset, FS_CardinalityType
<1>6. QED
  BY <1>2, <1>5

\* Agents of one server share one breaker, and none is closed after Threshold failures in a
\* row that are within the window, however their calls overlap (Get, RecordFailure).
THEOREM SoundBreakers == BreakerSpec => []BreakersSound
<1>1. ASSUME BreakerInv PROVE BreakersSound
  <2>1. BreakerTypeOK
    BY <1>1, BreakerAssumption
    DEF BreakerInv, BreakerTypeOK, BreakerFits, StreakFits, InUse, Ages
  <2>2. ClosedIsHealthy
    <3>1. SUFFICES ASSUME NEW b \in Breakers, breaker[b].state = "closed"
                   PROVE  Cardinality(Recent(streak[b])) < Threshold
      BY DEF ClosedIsHealthy
    <3>2. /\ breaker[b].failures \in Seq(Ages) /\ Len(breaker[b].failures) < Threshold
          /\ streak[b] \in Seq(Ages) /\ EndOf(breaker[b].failures, streak[b])
      BY <1>1, <3>1 DEF BreakerInv, BreakerFits, StreakFits, Remembers
    <3>3. QED
      BY <3>2, RecentAreFew
  <2>3. QED
    BY <1>1, <2>1, <2>2 DEF BreakersSound, BreakerInv
<1>2. QED
  BY <1>1, BreakersKeep, PTL

\* A closed breaker opens on Threshold failures in a row within the window only, and an open
\* one lets nothing close it before its interval is over (RecordFailure, RecordSuccess).
THEOREM OpenForCause == BreakerSpec => OpensAndStaysOpen
<1>1. ASSUME BreakerInv, [BreakerNext]_breakerVars, NEW b \in Breakers
      PROVE  /\ breaker[b].state = "closed" /\ breaker'[b].state = "open" =>
                  Len(streak'[b]) = Threshold /\ Recent(streak'[b]) = 1..Threshold
             /\ breaker[b].state = "open" /\ breaker[b].openAge < ResetInterval =>
                  breaker'[b].state = "open"
  <2>1. CASE breaker'[b].state = breaker[b].state
    BY <2>1
  <2>2. ASSUME NEW x \in Breakers, InUse(x),
               breaker' = [breaker EXCEPT ![x] = CurrentState(breaker[x])]
        PROVE  /\ breaker[b].state = "closed" => breaker'[b].state = "closed"
               /\ breaker[b].state = "open" /\ breaker[b].openAge < ResetInterval =>
                    breaker'[b].state = "open"
    <3>1. CASE b = x
      <4>1. breaker'[b] = CurrentState(breaker[b])
        BY <1>1, <2>2, <3>1 DEF BreakerInv
      <4>2. BreakerFits(breaker[b]) /\ Remembers(breaker[b], streak[b])
        BY <1>1 DEF BreakerInv
      <4>3. QED
        BY <4>1, <4>2, LookKept
    <3>2. CASE b # x
      BY <1>1, <2>2, <3>2 DEF BreakerInv
    <3>3. QED
      BY <3>1, <3>2
  <2>3. ASSUME NEW a \in ToolUsers, Allow(a)
        PROVE  /\ InUse(agent[a].breaker)
               /\ breaker' = [breaker EXCEPT ![agent[a].breaker] =
                                               CurrentState(breaker[agent[a].breaker])]
    BY <1>1, <2>3 DEF Allow, BreakerInv
  <2>4. ASSUME NEW a \in ToolUsers, RecordSuccess(a) \/ RecordFailure(a)
        PROVE  /\ breaker[b].state = "closed" /\ breaker'[b].state = "open" =>
                    Len(streak'[b]) = Threshold /\ Recent(streak'[b]) = 1..Threshold
               /\ breaker[b].state = "open" => breaker'[b].state = "open"
    <3>1. PICK x : x = agent[a].breaker
      OBVIOUS
    <3>2. PICK k, ages : /\ StepOf(x, k, ages)
                         /\ breaker[x].state = "open" => k.state = "open"
                         /\ breaker[x].state = "closed" /\ k.state = "open" =>
                              Len(ages) = Threshold /\ \A i \in DOMAIN ages : ages[i] < Window
      BY <1>1, <2>4, <3>1, AnswerKept
    <3>3. /\ breaker'[x] = k /\ streak'[x] = ages
          /\ \A y \in Breakers \ {x} : breaker'[y] = breaker[y]
      BY <1>1, <3>2, BreakersStay
    <3>4. Len(ages) = Threshold /\ (\A i \in DOMAIN ages : ages[i] < Window) =>
            Recent(ages) = 1..Threshold
      BY <3>2 DEF StepOf, StreakFits, Recent
    <3>5. CASE b = x
      BY <3>2, <3>3, <3>4, <3>5
    <3>6. CASE b # x
      BY <3>3, <3>6
    <3>7. QED
      BY <3>5, <3>6
  <2>5. ASSUME NEW a \in ToolUsers, GetCreate(a)
        PROVE  breaker[b].state # "unused" => breaker'[b].state = breaker[b].state
    BY <1>1, <2>5 DEF GetCreate, Create, BreakerInv
  <2>6. CASE Tick
    BY <1>1, <2>1, <2>6, TickStep
  <2>7. QED
    BY <1>1, <2>1, <2>2, <2>3, <2>4, <2>5, <2>6
    DEF BreakerNext, GetLookup, Refuse, State, Reset, InUse, breakerVars
<1>2. BreakerInv /\ [BreakerNext]_breakerVars
      => [\A b \in Breakers :
            breaker[b].state = "closed" /\ breaker'[b].state = "open" =>
              Len(streak'[b]) = Threshold /\ Recent(streak'[b]) = 1..Threshold]_breakerVars
  BY <1>1
<1>3. BreakerInv /\ [BreakerNext]_breakerVars
      => [\A b \in Breakers :
            breaker[b].state = "open" /\ breaker[b].openAge < ResetInterval =>
              breaker'[b].state = "open"]_breakerVars
  BY <1>1
<1>4. BreakerSpec => OpensForCause
  BY <1>2, BreakersKeep, PTL DEF BreakerSpec, OpensForCause
<1>5. BreakerSpec => OpenLasts
  BY <1>3, BreakersKeep, PTL DEF BreakerSpec, OpenLasts
<1>6. QED
  BY <1>4, <1>5 DEF OpensAndStaysOpen
=============================================================================
