--------------------------- MODULE EngineTasks ---------------------------
(***************************************************************************)
(* The task store: EngineTaskManagerAdapter over GORMTaskRepository        *)
(* (infrastructure/taskrunner, infrastructure/persistence/configrepo) on a *)
(* READ COMMITTED database.  Agent tools, HTTP handlers and the agent pool *)
(* call it concurrently.                                                   *)
(*                                                                         *)
(* Every update reads a row, changes the copy and saves ALL columns back;  *)
(* nothing holds a lock or checks a version in between.  Only Cancel runs  *)
(* in a transaction: the rows it saved stay locked and invisible to others *)
(* until it commits.                                                       *)
(***************************************************************************)
EXTENDS Naturals, FiniteSets

CONSTANTS
  Tasks,         \* task ids
  Calls,         \* slots for calls in flight: at most |Calls| at a time
  NoTask,        \* the nil ParentTaskID
  NoCall,        \* an unlocked row
  MaxTaskDepth,  \* 10 in the code
  MaxBlockers    \* bound: blockers a task may declare

ASSUME TasksAssumption ==
  /\ NoTask \notin Tasks
  /\ NoCall \notin Calls
  /\ MaxTaskDepth \in Nat \ {0}
  /\ MaxBlockers \in Nat

VARIABLES
  rows,  \* the committed rows of table tasks
  lock,  \* per row, the transaction that has written it and not ended
  call   \* per slot, the call in flight

vars == <<rows, lock, call>>

Board == INSTANCE TaskBoard WITH
           status <- [t \in Tasks |-> rows[t].status],
           parent <- [t \in Tasks |-> rows[t].parent]

Statuses == Board!Statuses
Terminal == Board!Terminal
ValidTransitions == Board!ValidTransitions

Row == [status : Statuses \cup {"absent"}, parent : Tasks \cup {NoTask},
        blockedBy : SUBSET Tasks, started : BOOLEAN, completed : BOOLEAN]

Absent == [status |-> "absent", parent |-> NoTask, blockedBy |-> {},
           started |-> FALSE, completed |-> FALSE]

Idle == [pc |-> "idle", task |-> NoTask, row |-> Absent, todo |-> {},
         root |-> NoTask, written |-> [t \in Tasks |-> Absent]]

TypeOK ==
  /\ rows \in [Tasks -> Row]
  /\ lock \in [Tasks -> Calls \cup {NoCall}]
  /\ call \in [Calls -> [pc : {"idle", "save", "insert", "visit", "saveInTx", "subtasks"},
                         task : Tasks \cup {NoTask}, row : Row, todo : SUBSET Tasks,
                         root : Tasks \cup {NoTask}, written : [Tasks -> Row]]]

Init ==
  /\ rows = [t \in Tasks |-> Absent]
  /\ lock = [t \in Tasks |-> NoCall]
  /\ call = [c \in Calls |-> Idle]

Exists(t) == rows[t].status # "absent"
Children(t) == {u \in Tasks : rows[u].parent = t}

\* S holds the parent of t and of every task in S.
HoldsParents(S, t) == \A u \in S \cup {t} : rows[u].parent \in S \cup {NoTask}

\* The tasks on the way up from t: its parent, the parent of that one, ...
Ancestors(t) == {a \in Tasks : \A S \in SUBSET Tasks : HoldsParents(S, t) => a \in S}

Depth(t) == Cardinality(Ancestors(t))

At(c, pc) == call[c].pc = pc
Return(c) == call' = [call EXCEPT ![c] = Idle]
Unlocked(c, t) == lock[t] \in {NoCall, c}

-----------------------------------------------------------------------------
(* Read, change, save                                                      *)

\* EngineTask.Transition on a copy of the row: the status and its timestamps.
Transition(row, target) ==
  [row EXCEPT !.status = target,
              !.started = @ \/ target = "in_progress",
              !.completed = @ \/ target \in Terminal]

Read(c, t, copy) ==
  /\ At(c, "idle") /\ Exists(t)
  /\ call' = [call EXCEPT ![c] = [Idle EXCEPT !.pc = "save", !.task = t, !.row = copy]]
  /\ UNCHANGED <<rows, lock>>

\* UpdateStatus (Approve, Start, Complete, set_status) and FailTask.
UpdateStatus(c, t, target) ==
  /\ Exists(t) /\ target \in ValidTransitions[rows[t].status]
  /\ Read(c, t, Transition(rows[t], target))

\* UpdateTask, SetTaskPriority, AttachSession: other columns change, but all are saved.
EditTask(c, t) == Read(c, t, rows[t])

\* Variant: the status of the former task system.
AssignTaskToAgentFormer(c, t) ==
  /\ rows[t].status \in {"approved", "pending"}
  /\ Read(c, t, Transition(rows[t], "assigned"))

\* AssignTaskToAgent starts the task if it is ready, and does nothing otherwise.
AssignTaskToAgent(c, t) ==
  /\ rows[t].status \in {"approved", "pending"}
  /\ Read(c, t, Transition(rows[t], "in_progress"))

\* Variant: timestamps are written only when the call set them.
SaveSetColumns(c) ==
  LET t == call[c].task IN
  /\ At(c, "save") /\ Unlocked(c, t)
  /\ rows' = [rows EXCEPT ![t].status = call[c].row.status,
                          ![t].started = @ \/ call[c].row.started,
                          ![t].completed = @ \/ call[c].row.completed]
  /\ Return(c)
  /\ UNCHANGED lock

\* Save: UPDATE ... WHERE id, of every column, once the row is not locked.
Save(c) ==
  LET t == call[c].task IN
  /\ At(c, "save") /\ Unlocked(c, t)
  /\ rows' = [rows EXCEPT ![t] = call[c].row]
  /\ Return(c)
  /\ UNCHANGED lock

-----------------------------------------------------------------------------
(* Creating tasks                                                          *)

\* Variant: blockers are taken as given.
ValidateNoBlockers(blockers) == Cardinality(blockers) <= MaxBlockers

\* validateBlockers: every blocker is an existing task.
ValidateBlockers(blockers) ==
  /\ Cardinality(blockers) <= MaxBlockers
  /\ \A b \in blockers : Exists(b)

Insert(t, p, blockers) ==
  /\ ~Exists(t) /\ ValidateBlockers(blockers)
  /\ \E s \in {"draft", "pending"} :
       rows' = [rows EXCEPT ![t] = [Absent EXCEPT !.status = s, !.parent = p,
                                                  !.blockedBy = blockers]]

CreateTask(c, t, blockers) ==
  /\ At(c, "idle")
  /\ Insert(t, NoTask, blockers)
  /\ UNCHANGED <<lock, call>>

\* Variant: the depth of the parent is not looked at.
ValidateOpenParent(c, p) ==
  /\ At(c, "idle")
  /\ Exists(p) /\ rows[p].status \notin Terminal
  /\ \A a \in Ancestors(p) \cup {p} : Exists(a) /\ a \notin Ancestors(a)
  /\ call' = [call EXCEPT ![c] = [Idle EXCEPT !.pc = "insert", !.root = p]]
  /\ UNCHANGED <<rows, lock>>

\* CreateSubTask, first part: validateParent walks up from the parent, and stops at a
\* task it cannot find or has already seen.
ValidateParent(c, p) ==
  /\ At(c, "idle")
  /\ Exists(p) /\ rows[p].status \notin Terminal
  /\ \A a \in Ancestors(p) \cup {p} : Exists(a) /\ a \notin Ancestors(a)
  /\ Depth(p) + 1 < MaxTaskDepth
  /\ call' = [call EXCEPT ![c] = [Idle EXCEPT !.pc = "insert", !.root = p]]
  /\ UNCHANGED <<rows, lock>>

\* CreateSubTask, second part: validateBlockers and the insert.
CreateSubTask(c, t, blockers) ==
  /\ At(c, "insert")
  /\ Insert(t, call[c].root, blockers)
  /\ Return(c)
  /\ UNCHANGED lock

-----------------------------------------------------------------------------
(* Cancel: one transaction over the subtree, depth first                   *)

BeginCancel(c, t) ==
  /\ At(c, "idle") /\ Exists(t)
  /\ call' = [call EXCEPT ![c] = [Idle EXCEPT !.pc = "visit", !.root = t, !.todo = {t}]]
  /\ UNCHANGED <<rows, lock>>

\* cancelRecursive reads the next task: below the last one if it had open work.
\* A task that is already terminal ends the recursion there.
CancelVisit(c) ==
  \E t \in call[c].todo :
    /\ At(c, "visit")
    /\ \A u \in call[c].todo : Depth(u) <= Depth(t)
    /\ \/ /\ rows[t].status \in Terminal
          /\ call' = [call EXCEPT ![c].todo = @ \ {t}]
       \/ /\ rows[t].status \notin Terminal
          /\ call' = [call EXCEPT ![c].pc = "saveInTx", ![c].task = t,
                                  ![c].row = Transition(rows[t], "cancelled")]
    /\ UNCHANGED <<rows, lock>>

CancelSave(c) ==
  LET t == call[c].task IN
  /\ At(c, "saveInTx") /\ Unlocked(c, t)
  /\ lock' = [lock EXCEPT ![t] = c]
  /\ call' = [call EXCEPT ![c].pc = "subtasks", ![c].written[t] = call[c].row]
  /\ UNCHANGED rows

\* Variant: the cascade ends at the first task without subtasks.
CancelSubtasksToLeaf(c) ==
  LET t == call[c].task IN
  /\ At(c, "subtasks")
  /\ call' = [call EXCEPT ![c].pc = "visit",
               ![c].todo = IF Children(t) = {} THEN {} ELSE (@ \ {t}) \cup Children(t)]
  /\ UNCHANGED <<rows, lock>>

CancelSubtasks(c) ==
  LET t == call[c].task IN
  /\ At(c, "subtasks")
  /\ call' = [call EXCEPT ![c].pc = "visit", ![c].todo = (@ \ {t}) \cup Children(t)]
  /\ UNCHANGED <<rows, lock>>

\* Variant: the locks outlive the transaction.
ReleaseNothing(c) == UNCHANGED lock

\* A transaction that ends, either way, gives its row locks back.
Release(c) == lock' = [t \in Tasks |-> IF lock[t] = c THEN NoCall ELSE lock[t]]

CancelCommit(c) ==
  /\ At(c, "visit") /\ call[c].todo = {}
  /\ rows' = [t \in Tasks |-> IF lock[t] = c THEN call[c].written[t] ELSE rows[t]]
  /\ Release(c)
  /\ Return(c)

\* The caller goes away or the connection breaks: what was not committed is undone.
Abort(c) ==
  /\ ~At(c, "idle")
  /\ Release(c)
  /\ Return(c)
  /\ UNCHANGED rows

Step(c) ==
  \/ Save(c)
  \/ CancelVisit(c) \/ CancelSave(c) \/ CancelSubtasks(c) \/ CancelCommit(c)
  \/ \E t \in Tasks, B \in SUBSET Tasks : CreateSubTask(c, t, B)

Next ==
  \E c \in Calls :
    \/ Step(c) \/ Abort(c)
    \/ \E t \in Tasks :
         \/ \E s \in Statuses : UpdateStatus(c, t, s)
         \/ EditTask(c, t) \/ AssignTaskToAgent(c, t)
         \/ ValidateParent(c, t) \/ BeginCancel(c, t)
         \/ \E B \in SUBSET Tasks : CreateTask(c, t, B)

Spec == Init /\ [][Next]_vars

\* A call that can go on does; nobody has to make calls, and none has to break.  The
\* database hands a row's lock to waiting writers in turn, so a writer that finds the
\* row free again and again gets it.
FairSpec ==
  /\ Spec
  /\ \A c \in Calls : WF_vars(Step(c)) /\ SF_vars(Save(c) \/ CancelSave(c))
=============================================================================
