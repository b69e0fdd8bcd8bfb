---------------------- MODULE EngineTaskProperties -----------------------
(***************************************************************************)
(* What the task store guarantees, what it guarantees only to callers that *)
(* do not overlap, and what its comments promise beyond that.              *)
(***************************************************************************)
EXTENDS EngineTasks

-----------------------------------------------------------------------------
(* For any overlap of calls                                                *)

Consistent(row) ==
  /\ row.completed <=> row.status \in Terminal
  /\ row.status \in {"in_progress", "needs_input", "completed", "failed"} => row.started

\* Rows are never torn.  Calls overwrite each other's updates, but every save
\* writes a whole row that some sequence of transitions produced: the completion
\* timestamp is there exactly in terminal states, and a task that got past
\* in_progress has been started (EngineTask.Transition, engine_task.go:116-125).
RowsConsistent == \A t \in Tasks : Consistent(rows[t])

\* No set of tasks wait for one another: in any set there is one whose blockers
\* are all outside it.  GetReadySubtasks offers a task only when its blockers are
\* terminal, so a cycle would never be worked on; validateBlockers and the fact
\* that no update touches blocked_by are what excludes one.
NoCircularWait ==
  \A W \in (SUBSET Tasks) \ {{}} : \E t \in W : rows[t].blockedBy \cap W = {}

\* Tasks form a forest no deeper than MaxTaskDepth (validateParent), however many
\* subtasks are created at once; so cancelRecursive, whose own limit is 64, never
\* gives up.
ForestBounded ==
  \A t \in Tasks : Exists(t) =>
    /\ \A a \in Ancestors(t) : Exists(a)
    /\ t \notin Ancestors(t)
    /\ Depth(t) < MaxTaskDepth

\* No call waits for ever: updates and cascades that meet on locked rows all end.
\* cancelRecursive saves a task before it descends, so two cascades meet first at
\* the top one of the rows they share.
CallsReturn ==
  \A c \in Calls : []<>(At(c, "idle") \/ At(c, "insert"))

-----------------------------------------------------------------------------
(* What comments say                                                       *)

\* engine_task.go:77: "engineTaskValidTransitions defines the state machine for
\* EngineTask status", and it lets nothing leave a terminal status.
TerminalIsFinal ==
  [][\A t \in Tasks : rows[t].status \in Terminal => rows'[t].status = rows[t].status]_vars

=============================================================================
