---------------------------- MODULE AgentPool ----------------------------
(***************************************************************************)
(* The agent pool (service/agent) of one session: agents spawned by the    *)
(* supervisor's tools run in goroutines of their own, the tools wait for   *)
(* them, and stopping, restarting or ending the session may come at any    *)
(* moment of a spawn or of an agent's last steps.                          *)
(*                                                                         *)
(* An agent that finishes changes its status under p.mu, then settles its  *)
(* task, starts the update of its run record, tells the client and only    *)
(* then closes its completion channel; each of these is a step.            *)
(***************************************************************************)
EXTENDS FiniteSets

CONSTANTS
  Agents,   \* agent ids, one per Spawn
  Tasks,    \* subtasks agents are spawned for
  NoTask,   \* the empty SubtaskID of SpawnWithDescription
  Waiters   \* tool calls that may block on agents

ASSUME PoolAssumption == NoTask \notin Tasks

VARIABLES
  pool,        \* p.agents[a].Status, "absent" when a has no entry
  goroutine,   \* per agent: how far its Spawn, then its goroutine, has got
  cancelled,   \* agents whose context is cancelled
  signalled,   \* agents whose completionCh is closed
  task,        \* status of the tasks, kept by the SubtaskManager
  run,         \* the agent_runs rows: "none" when not saved, "ended" with any last status
  updating,    \* agents with an update of their row still to be written
  waiter,      \* per waiter, what it waits for, and whether the session's context went
  announced,   \* history: agents whose lifecycle event was emitted
  unrecorded   \* history: agents whose end a row of agent_runs, or of a task, does not tell of

vars == <<pool, goroutine, cancelled, signalled, task, run, updating, waiter, announced,
          unrecorded>>

Finished == {"completed", "failed", "stopped"}

TypeOK ==
  /\ pool \in [Agents -> {"absent", "running"} \cup Finished]
  /\ goroutine \in [Agents -> [pc : {"unborn", "context", "run", "settle", "lost",
                                     "announce", "signal", "done"},
                               task : Tasks \cup {NoTask},
                               outcome : {"none", "completed", "failed"}]]
  /\ cancelled \subseteq Agents /\ signalled \subseteq Agents /\ announced \subseteq Agents
  /\ task \in [Tasks -> {"pending", "in_progress", "completed", "failed"}]
  /\ run \in [Agents -> {"none", "running", "ended"}] /\ updating \subseteq Agents
  /\ waiter \in [Waiters -> [pc : {"idle", "context", "all", "one"}, channels : SUBSET Agents,
                             lost : BOOLEAN]]
  /\ unrecorded \in [runs : SUBSET Agents, tasks : SUBSET Agents]

Init ==
  /\ pool = [a \in Agents |-> "absent"]
  /\ goroutine = [a \in Agents |-> [pc |-> "unborn", task |-> NoTask, outcome |-> "none"]]
  /\ cancelled = {} /\ signalled = {} /\ announced = {} /\ updating = {}
  /\ task = [t \in Tasks |-> "pending"]
  /\ run = [a \in Agents |-> "none"]
  /\ waiter = [w \in Waiters |-> [pc |-> "idle", channels |-> {}, lost |-> FALSE]]
  /\ unrecorded = [runs |-> {}, tasks |-> {}]

\* Of S, the agents whose row an update would change: others have none, or one that ended.
Unended(S) == {a \in S : run[a] = "running"}

At(a, pc) == goroutine[a].pc = pc
GoTo(a, pc) == goroutine' = [goroutine EXCEPT ![a].pc = pc]
Running == {a \in Agents : pool[a] = "running"}
Unborn == {a \in Agents : At(a, "unborn")}

-----------------------------------------------------------------------------
(* Spawn                                                                   *)

\* The agent's context is derived from the session's, which getOrCreateSessionCtx makes.
Begin(a, t) ==
  /\ At(a, "unborn")
  /\ goroutine' = [goroutine EXCEPT ![a] = [pc |-> "context", task |-> t, outcome |-> "none"]]

\* AssignTaskToAgent starts a task that is ready and leaves any other as it is.
AssignTask(t) ==
  task' = [task EXCEPT ![t] = IF @ = "pending" THEN "in_progress" ELSE @]

Spawn(a, t) ==
  /\ Begin(a, t) /\ AssignTask(t)
  /\ UNCHANGED <<pool, cancelled, signalled, run, updating, waiter, announced, unrecorded>>

SpawnWithDescription(a) ==
  /\ Begin(a, NoTask)
  /\ UNCHANGED <<pool, cancelled, signalled, task, run, updating, waiter, announced, unrecorded>>

\* RestartAgent: a new agent for the task or description of one that is not running.
RestartAgent(a, former) ==
  /\ pool[former] \in Finished
  /\ LET t == goroutine[former].task IN
       IF t = NoTask THEN SpawnWithDescription(a) ELSE Spawn(a, t)

\* registerAgent; saving the run may fail, and is not fatal.  The goroutine starts.
RegisterAgent(a) ==
  /\ At(a, "context")
  /\ pool' = [pool EXCEPT ![a] = "running"]
  /\ run' \in {run, [run EXCEPT ![a] = "running"]}
  /\ GoTo(a, "run")
  /\ UNCHANGED <<cancelled, signalled, task, updating, waiter, announced, unrecorded>>

-----------------------------------------------------------------------------
(* The end of an agent                                                     *)

Mark(a, outcome, found, lost) ==
  /\ At(a, "run")
  /\ LET present == pool[a] # "absent"
         pc == IF present THEN found ELSE lost
     IN
     /\ pool' = IF present THEN [pool EXCEPT ![a] = outcome] ELSE pool
     /\ goroutine' = [goroutine EXCEPT ![a] = [pc |-> pc, task |-> goroutine[a].task,
                                               outcome |-> IF pc = "done" THEN "none" ELSE outcome]]
  /\ UNCHANGED <<cancelled, signalled, task, run, updating, waiter, announced>>

\* Variant: without an entry there is nothing to complete.
MarkCompletedListed(a) == Mark(a, "completed", "settle", "done") /\ UNCHANGED unrecorded

\* markCompleted, first part; without an entry the task is still completed.
MarkCompleted(a) == Mark(a, "completed", "settle", "lost") /\ UNCHANGED unrecorded

Unlisted(a) ==
  LET gone == IF pool[a] = "absent" THEN {a} ELSE {}
  IN  unrecorded' = [runs |-> unrecorded.runs \cup Unended(gone),
                     tasks |-> unrecorded.tasks \cup {b \in gone : goroutine[b].task # NoTask}]

\* Variant: an agent that was stopped has nothing left to do.
MarkFailedOnce(a) ==
  Mark(a, "failed", IF pool[a] = "stopped" THEN "done" ELSE "settle", "done") /\ Unlisted(a)

\* markFailed, first part: without an entry it returns, and the failure is told nowhere.
MarkFailed(a) == Mark(a, "failed", "settle", "done") /\ Unlisted(a)

\* Variant: the task gets the agent's word for it.
SettleTaskStopped(a) ==
  LET t == goroutine[a].task IN
  /\ task' = IF t # NoTask /\ task[t] = "in_progress"
              THEN [task EXCEPT ![t] = IF a \in cancelled THEN "stopped" ELSE goroutine[a].outcome]
              ELSE task
  /\ UNCHANGED unrecorded

\* CompleteTask and FailTask: only a task in progress takes the outcome.  An error of the
\* database is logged and nothing is tried again.
SettleTask(a) ==
  LET t == goroutine[a].task IN
  \/ /\ task' = IF t # NoTask /\ task[t] = "in_progress"
                 THEN [task EXCEPT ![t] = goroutine[a].outcome] ELSE task
     /\ UNCHANGED unrecorded
  \/ /\ t # NoTask /\ task[t] = "in_progress"
     /\ unrecorded' = [unrecorded EXCEPT !.tasks = @ \cup {a}]
     /\ UNCHANGED task

Settle(a) ==
  /\ At(a, "settle") \/ At(a, "lost")
  /\ SettleTask(a)
  /\ updating' = updating \cup Unended({a})
  /\ goroutine' = [goroutine EXCEPT ![a] = [pc |-> IF At(a, "settle") THEN "announce" ELSE "done",
                                            task |-> goroutine[a].task, outcome |-> "none"]]
  /\ UNCHANGED <<pool, cancelled, signalled, run, waiter, announced>>

\* Variant: completion is signalled before the event is sent.
AnnounceSignalled(a) ==
  /\ At(a, "announce")
  /\ signalled' = signalled \cup {a}
  /\ GoTo(a, "signal")
  /\ UNCHANGED <<pool, cancelled, task, run, updating, waiter, announced, unrecorded>>

Announce(a) ==
  /\ At(a, "announce")
  /\ announced' = announced \cup {a}
  /\ GoTo(a, "signal")
  /\ UNCHANGED <<pool, cancelled, signalled, task, run, updating, waiter, unrecorded>>

\* signalCompletion, and the deferred cancel of the goroutine's context.
SignalCompletion(a) ==
  /\ At(a, "signal")
  /\ signalled' = signalled \cup {a}
  /\ GoTo(a, "done")
  /\ UNCHANGED <<pool, cancelled, task, run, updating, waiter, announced, unrecorded>>

\* The goroutine started by Stop, Complete or Fail reads the run's row and writes it; an
\* error of either is logged.
UpdateRun(a) ==
  /\ a \in updating
  /\ updating' = updating \ {a}
  /\ \/ run' = [run EXCEPT ![a] = "ended"] /\ UNCHANGED unrecorded
     \/ unrecorded' = [unrecorded EXCEPT !.runs = @ \cup {a}] /\ UNCHANGED run
  /\ UNCHANGED <<pool, goroutine, cancelled, signalled, task, waiter, announced>>

-----------------------------------------------------------------------------
(* Stopping                                                                *)

Halt(S) ==
  /\ pool' = [a \in Agents |-> IF a \in S THEN "stopped" ELSE pool[a]]
  /\ signalled' = signalled \cup S
  /\ cancelled' = cancelled \cup S

StopAgent(a) ==
  /\ a \in Running
  /\ Halt({a})
  /\ updating' = updating \cup Unended({a})
  /\ UNCHANGED <<goroutine, task, run, waiter, announced, unrecorded>>

CancelRunningAgents ==
  /\ Running # {}
  /\ Halt(Running)
  /\ UNCHANGED <<goroutine, task, run, updating, waiter, announced, unrecorded>>

\* The agents whose context was derived from the session's, the one removed or an earlier.
Derived == Agents \ Unborn

Forget ==
  /\ pool' = [a \in Agents |-> "absent"]
  /\ waiter' = [w \in Waiters |-> [waiter[w] EXCEPT !.lost = @ \/ waiter[w].pc \in {"context", "all"}]]
  /\ UNCHANGED <<goroutine, task, run, updating, announced, unrecorded>>

\* Variant: agents are forgotten, not cancelled.
RemoveSessionForgetting ==
  /\ Forget
  /\ signalled' = signalled \cup Running
  /\ UNCHANGED cancelled

\* Variant: cancelling the context is thought to be signal enough.
RemoveSessionSilently ==
  /\ Forget
  /\ cancelled' = cancelled \cup Derived
  /\ UNCHANGED signalled

\* The session's context is cancelled, and with it those of all agents derived from it.
RemoveSession ==
  /\ Forget
  /\ cancelled' = cancelled \cup Derived
  /\ signalled' = signalled \cup Running

-----------------------------------------------------------------------------
(* Waiting                                                                 *)

\* WaitForAllSessionAgents, first part: the session's context is there from now on.
WaitForAll(w) ==
  /\ waiter[w].pc = "idle"
  /\ waiter' = [waiter EXCEPT ![w].pc = "context", ![w].lost = FALSE]
  /\ UNCHANGED <<pool, goroutine, cancelled, signalled, task, run, updating, announced, unrecorded>>

WaiterOnly == UNCHANGED <<pool, goroutine, cancelled, signalled, task, run, updating,
                          announced, unrecorded>>

Resume(w) ==
  /\ waiter' = [waiter EXCEPT ![w] = [pc |-> "idle", channels |-> {}, lost |-> FALSE]]
  /\ WaiterOnly

\* Second part: the channels of the agents that run now; if there are none, all is done.
CollectChannels(w) ==
  /\ waiter[w].pc = "context"
  /\ \/ Running = {} /\ Resume(w)
     \/ /\ Running # {}
        /\ waiter' = [waiter EXCEPT ![w].pc = "all", ![w].channels = Running]
        /\ WaiterOnly

AllDone(w) ==
  /\ waiter[w].pc = "all" /\ waiter[w].channels \subseteq signalled
  /\ Resume(w)

SessionGone(w) ==
  /\ waiter[w].pc = "all" /\ waiter[w].lost
  /\ Resume(w)

WaitForAgent(w, a) ==
  /\ waiter[w].pc = "idle" /\ pool[a] # "absent"
  /\ waiter' = [waiter EXCEPT ![w].pc = "one", ![w].channels = {a}]
  /\ WaiterOnly

AgentDone(w) ==
  /\ waiter[w].pc = "one" /\ waiter[w].channels \subseteq signalled
  /\ Resume(w)

\* The waiting tool's own context, the supervisor's turn, is cancelled.
CallerGone(w) ==
  /\ waiter[w].pc \in {"all", "one"}
  /\ Resume(w)

-----------------------------------------------------------------------------
End(a) == MarkCompleted(a) \/ MarkFailed(a)
Wrap(a) == Settle(a) \/ Announce(a) \/ SignalCompletion(a)
\* What the caller of Spawn and then the agent's goroutine do, one step at a time.
GoOn(a) == RegisterAgent(a) \/ End(a) \/ Wrap(a)
Wake(w) == CollectChannels(w) \/ AllDone(w) \/ SessionGone(w) \/ AgentDone(w)

Next ==
  \/ \E a \in Agents :
       \/ \E t \in Tasks : Spawn(a, t)
       \/ SpawnWithDescription(a)
       \/ \E former \in Agents : RestartAgent(a, former)
       \/ RegisterAgent(a) \/ End(a) \/ Wrap(a) \/ UpdateRun(a)
       \/ StopAgent(a)
  \/ CancelRunningAgents \/ RemoveSession
  \/ \E w \in Waiters :
       \/ WaitForAll(w) \/ Wake(w) \/ CallerGone(w)
       \/ \E a \in Agents : WaitForAgent(w, a)

Spec == Init /\ [][Next]_vars

\* Goroutines that can go on do, and an agent's run ends sooner or later; nobody has to
\* spawn, stop or wait, and no turn has to be cancelled.
FairSpec ==
  /\ Spec
  /\ \A a \in Agents : WF_vars(GoOn(a)) /\ WF_vars(UpdateRun(a))
  /\ \A w \in Waiters : WF_vars(Wake(w))

-----------------------------------------------------------------------------
(* What the pool guarantees                                                *)

\* A completion channel is closed only after the agent's last event went out, unless
\* somebody cancelled the agent: who waits for an agent that ends by itself finds its
\* event sent (markCompleted and markFailed, agent_events.go:71 and 152).
SignalAfterEvent == signalled \subseteq announced \cup cancelled

\* No agent works on unseen: one whose context is not cancelled is listed as running,
\* even if the session was removed in the middle of its Spawn.
NoOrphans ==
  \A a \in Agents : At(a, "run") /\ a \notin cancelled => pool[a] = "running"

\* A tool that waits for agents gets an answer, whatever is stopped, restarted or removed
\* meanwhile: none waits for ever.
WaitReturns == \A w \in Waiters : []<>(waiter[w].pc = "idle")

\* The row of an agent does not say "running" for ever, unless an update of it failed or
\* the agent failed when its session had been removed: those two write nothing again.
RunsSettle == \A a \in Agents : []<>(run[a] # "running" \/ a \in unrecorded.runs)

\* A task that was started is not in progress for ever, unless the outcomes of all its
\* agents went unrecorded: refused by the database, or of agents that failed so late.
TasksSettle ==
  \A t \in Tasks :
    []<>(\/ task[t] # "in_progress"
         \/ \A a \in Agents : goroutine[a].task = t => a \in unrecorded.tasks)

\* Whatever is stopped, restarted or removed meanwhile, whoever waits is answered, and rows
\* and tasks of agents that ended say so where the database and the session were still
\* there (WaitForAllSessionAgents, markCompleted, markFailed, StopAgent).
EverythingSettles == WaitReturns /\ RunsSettle /\ TasksSettle

\* Of the state: an agent past its end has its row written, about to be or given up, and its
\* task is not in progress any more or the outcome was given up (markCompleted, markFailed).
Past(a) == At(a, "announce") \/ At(a, "signal") \/ At(a, "done")

EndsTold ==
  \A a \in Agents : Past(a) =>
    /\ run[a] = "running" => a \in updating \cup unrecorded.runs
    /\ \A t \in Tasks : goroutine[a].task = t /\ task[t] = "in_progress" => a \in unrecorded.tasks

-----------------------------------------------------------------------------
(* What comments say                                                       *)

\* agent_events.go:71-73: "Send lifecycle event to client BEFORE signaling completion.
\* This prevents a race where the supervisor resumes, closes the session, and the callback
\* is removed before the event is sent": whoever is answered with the results of all agents finds
\* their events sent.
Results == {a \in Agents : pool[a] \in Finished}
Answered(w) == (CollectChannels(w) \/ AllDone(w)) /\ waiter'[w].pc = "idle"

ResumeAfterEvents ==
  [][\A w \in Waiters : Answered(w) => Results \subseteq announced \cup cancelled]_vars
=============================================================================
