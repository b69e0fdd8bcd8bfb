----------------------------- MODULE MCTaskTrees --------------------------
(* Instances of EngineTasks for TLC: trees of tasks, by calls that overlap and by calls *)
(* made one at a time.                                                                  *)
EXTENDS MCTasks, SerialTasks

\* The shape of trees depends only on which tasks are terminal: where calls overlap, the
\* statuses that differ in nothing else are not explored.
FewStatuses ==
  part = "overlapping" => \A t \in Tasks : rows[t].status \notin {"approved", "needs_input", "failed"}
=============================================================================
