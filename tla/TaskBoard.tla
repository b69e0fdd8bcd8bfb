---------------------------- MODULE TaskBoard ----------------------------
(***************************************************************************)
(* What the task store promises when nobody interferes: every task follows *)
(* the state machine of domain/engine_task.go, and cancelling a task takes *)
(* its open subtasks along in one step.                                    *)
(***************************************************************************)
CONSTANTS Tasks, NoTask

VARIABLES
  status,  \* status of each task, "absent" before it is created
  parent   \* ParentTaskID

Statuses == {"draft", "approved", "pending", "in_progress", "needs_input",
             "completed", "failed", "cancelled"}
Terminal == {"completed", "failed", "cancelled"}

\* Variant: a cancelled task may be picked up again.
TransitionsReopening ==
  [draft |-> {"approved", "cancelled"}, approved |-> {"in_progress", "cancelled"},
   pending |-> {"in_progress", "cancelled"},
   in_progress |-> {"completed", "failed", "needs_input", "cancelled"},
   needs_input |-> {"in_progress", "failed", "cancelled"},
   completed |-> {}, failed |-> {}, cancelled |-> {"in_progress"}]

\* engineTaskValidTransitions
ValidTransitions ==
  [draft |-> {"approved", "cancelled"}, approved |-> {"in_progress", "cancelled"},
   pending |-> {"in_progress", "cancelled"},
   in_progress |-> {"completed", "failed", "needs_input", "cancelled"},
   needs_input |-> {"in_progress", "failed", "cancelled"},
   completed |-> {}, failed |-> {}, cancelled |-> {}]

Exists(t) == status[t] # "absent"
Open(t) == Exists(t) /\ status[t] \notin Terminal

Init ==
  /\ status = [t \in Tasks |-> "absent"]
  /\ parent = [t \in Tasks |-> NoTask]

\* A new task is a root, or the child of a task that is still open.
Create(t, p) ==
  /\ ~Exists(t)
  /\ p # NoTask => Open(p)
  /\ \E s \in {"draft", "pending"} : status' = [status EXCEPT ![t] = s]
  /\ parent' = [parent EXCEPT ![t] = p]

Move(t, s) ==
  /\ Exists(t) /\ s \in ValidTransitions[status[t]]
  /\ status' = [status EXCEPT ![t] = s]
  /\ UNCHANGED parent

\* C is what the cascade takes from root: open tasks, each but the root under
\* another of them, and with each of them all its open children.
Cascade(root, C) ==
  /\ root \in C /\ \A t \in C : Open(t)
  /\ \A t \in C \ {root} : parent[t] \in C
  /\ \A t \in Tasks : Open(t) /\ parent[t] \in C => t \in C

CancelTree(root) ==
  \E C \in SUBSET Tasks :
    /\ Cascade(root, C)
    /\ status' = [t \in Tasks |-> IF t \in C THEN "cancelled" ELSE status[t]]
    /\ UNCHANGED parent

Next ==
  \/ \E t \in Tasks, p \in Tasks \cup {NoTask} : Create(t, p)
  \/ \E t \in Tasks, s \in Statuses : Move(t, s)
  \/ \E t \in Tasks : CancelTree(t)

boardVars == <<status, parent>>
Spec == Init /\ [][Next]_boardVars
=============================================================================
