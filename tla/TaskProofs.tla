---------------------------- MODULE TaskProofs ----------------------------
(***************************************************************************)
(* For any number of tasks and of overlapping calls: the task store keeps  *)
(* its types, its rows stay whole, and no tasks wait for one another.      *)
(*                                                                         *)
(* The invariant that carries all three says what a call may hold while    *)
(* others write: its copy of a row may have a stale status, but it belongs *)
(* to a task that exists, is a state the transitions produce, and has the  *)
(* row's own parent and blockers, which nothing ever changes.              *)
(* From it follows that tasks stay a forest of bounded depth: a new task   *)
(* is nobody's parent, so it changes no depth that a call has counted.     *)
(*                                                                         *)
(* Calls that do not overlap implement the board of TaskBoard: the last    *)
(* section has that refinement, for trees of any shape.                    *)
(***************************************************************************)
EXTENDS SerialTasks, FiniteSetTheorems, TLAPS

\* row is one that may be written over the row of task t.
CopyOf(row, t) ==
  /\ t \in Tasks /\ Exists(t)
  /\ row \in Row /\ row.status # "absent" /\ Consistent(row)
  /\ row.parent = rows[t].parent /\ row.blockedBy = rows[t].blockedBy

Call == [pc : {"idle", "save", "insert", "visit", "saveInTx", "subtasks"},
         task : Tasks \cup {NoTask}, row : Row, todo : SUBSET Tasks,
         root : Tasks \cup {NoTask}, written : [Tasks -> Row]]

CallFits(k) ==
  /\ k \in Call
  /\ k.pc \in {"save", "saveInTx"} => CopyOf(k.row, k.task)
  /\ \A t \in k.todo : Exists(t)
  /\ k.pc = "subtasks" => k.task \in Tasks
  /\ k.pc = "insert" => k.root \in Tasks

InTransaction == {"visit", "saveInTx", "subtasks"}

RowsInv ==
  /\ rows \in [Tasks -> Row]
  /\ RowsConsistent /\ NoCircularWait
  /\ \A t \in Tasks : ~Exists(t) => rows[t] = Absent
  /\ \A t \in Tasks : \A b \in rows[t].blockedBy : Exists(b)

CallsInv ==
  /\ lock \in [Tasks -> Calls \cup {NoCall}]
  /\ call \in [Calls -> Call]
  /\ \A c \in Calls : CallFits(call[c])
  /\ \A c \in Calls, t \in Tasks : lock[t] = c =>
       call[c].pc \in InTransaction /\ CopyOf(call[c].written[t], t)

IInv == RowsInv /\ CallsInv

-----------------------------------------------------------------------------
(* Rows and transitions                                                    *)

\* Absent is a whole row.
LEMMA AbsentIsRow ==
  /\ Absent \in Row /\ Consistent(Absent)
BY TasksAssumption DEF Absent, Row, Consistent, Statuses, Terminal, Board!Statuses, Board!Terminal

\* A transition the state machine allows, or a cancellation of an open task, keeps a
\* row whole and leaves its parent and blockers alone.
LEMMA TransitionFits ==
  ASSUME NEW row \in Row, row.status # "absent", Consistent(row), NEW target,
         \/ target \in ValidTransitions[row.status]
         \/ target = "in_progress" /\ row.status \in {"approved", "pending"}
         \/ target = "cancelled" /\ row.status \notin Terminal
  PROVE  LET new == Transition(row, target) IN
           /\ new \in Row /\ new.status = target /\ target # "absent" /\ Consistent(new)
           /\ new.parent = row.parent /\ new.blockedBy = row.blockedBy
<1> DEFINE new == Transition(row, target)
<1>1. row.status \in Statuses
  BY DEF Row
<1>2. /\ target \in Statuses
      /\ row.status \notin Terminal
      /\ target \in {"completed", "failed", "needs_input"} =>
           row.status \in {"in_progress", "needs_input"}
  BY <1>1 DEF ValidTransitions, Board!ValidTransitions, Statuses, Board!Statuses,
              Terminal, Board!Terminal
<1>3. new.status = target /\ new.parent = row.parent /\ new.blockedBy = row.blockedBy
  BY DEF Transition, Row
<1>4. /\ new.started = (row.started \/ target = "in_progress")
      /\ new.completed = (row.completed \/ target \in Terminal)
  BY DEF Transition, Row
<1>5. new \in Row
  BY <1>2 DEF Transition, Row
<1>6. row.completed = FALSE
  BY <1>2 DEF Consistent, Row
<1>7. Consistent(new)
  BY <1>2, <1>3, <1>4, <1>6 DEF Consistent, Terminal, Board!Terminal
<1>8. target # "absent"
  BY <1>2 DEF Statuses, Board!Statuses
<1> QED
  BY <1>3, <1>5, <1>7, <1>8

\* Idle is a call that holds nothing.
LEMMA IdleFits ==
  CallFits(Idle) /\ Idle \in Call
<1>1. Idle \in Call
  BY AbsentIsRow DEF Idle, Call
<1> QED
  BY <1>1 DEF Idle, CallFits

-----------------------------------------------------------------------------
(* What a step may do                                                      *)

\* Tasks stay, with their parents and blockers.
Keeps ==
  \A t \in Tasks : Exists(t) =>
    /\ Exists(t)'
    /\ rows'[t].parent = rows[t].parent /\ rows'[t].blockedBy = rows[t].blockedBy

\* A copy of a row stays one while tasks stay.
LEMMA CopyStays ==
  ASSUME Keeps, NEW row, NEW t, CopyOf(row, t)
  PROVE  CopyOf(row, t)'
BY DEF Keeps, CopyOf, Consistent, Exists

\* Slot c changes, the rows keep their tasks, and locks are only released or taken by c.
LEMMA CallStep ==
  ASSUME IInv, Keeps, NEW c \in Calls, NEW new,
         call' = [call EXCEPT ![c] = new], CallFits(new)',
         lock' \in [Tasks -> Calls \cup {NoCall}],
         \A t \in Tasks : lock'[t] \in {lock[t], NoCall, c},
         \A t \in Tasks : lock'[t] = c =>
           new.pc \in InTransaction /\ CopyOf(new.written[t], t)'
  PROVE  CallsInv'
<1>1. call \in [Calls -> Call] /\ new \in Call
  BY DEF IInv, CallsInv, CallFits
<1>2. call' \in [Calls -> Call]
  BY <1>1
<1>3. ASSUME NEW d \in Calls
      PROVE  CallFits(call[d])'
  <2>1. CASE d = c
    BY <1>1, <2>1
  <2>2. CASE d # c
    <3>1. call'[d] = call[d] /\ CallFits(call[d])
      BY <1>1, <2>2 DEF IInv, CallsInv
    <3> DEFINE k == call[d]
    <3>2. /\ k \in Call
          /\ k.pc \in {"save", "saveInTx"} => CopyOf(k.row, k.task)
          /\ \A t \in k.todo : Exists(t)
          /\ k.pc = "subtasks" => k.task \in Tasks
          /\ k.pc = "insert" => k.root \in Tasks
      BY <3>1 DEF CallFits
    <3> HIDE DEF k
    <3>3. \A t \in k.todo : Exists(t)'
      BY <3>2 DEF Keeps, Call
    <3>4. call'[d] = k
      BY <3>1 DEF k
    <3>5. call'[d].pc \in {"save", "saveInTx"} => CopyOf(call[d].row, call[d].task)'
      BY <3>2, <3>4 DEF Keeps, CopyOf, Consistent, Exists
    <3> QED
      BY <3>2, <3>3, <3>4, <3>5 DEF CallFits
  <2> QED
    BY <2>1, <2>2
<1>4. ASSUME NEW d \in Calls, NEW t \in Tasks, lock'[t] = d
      PROVE  call'[d].pc \in InTransaction /\ CopyOf(call[d].written[t], t)'
  <2>1. CASE d = c
    BY <1>1, <1>4, <2>1 DEF CopyOf, Consistent, Exists
  <2>2. CASE d # c
    <3>1. lock[t] = d /\ call'[d] = call[d]
      BY <1>1, <1>4, <2>2, TasksAssumption
    <3>2. call[d].pc \in InTransaction /\ CopyOf(call[d].written[t], t)
      BY <3>1 DEF IInv, CallsInv
    <3> QED
      BY <3>1, <3>2 DEF Keeps, CopyOf, Consistent, Exists
  <2> QED
    BY <2>1, <2>2
<1> QED
  BY <1>2, <1>3, <1>4 DEF CallsInv

\* The rows do not change and slot c, which takes no lock, does.
LEMMA QuietStep ==
  ASSUME IInv, UNCHANGED <<rows, lock>>, NEW c \in Calls, NEW new,
         call' = [call EXCEPT ![c] = new], CallFits(new),
         \A t \in Tasks : lock[t] = c =>
           new.pc \in InTransaction /\ new.written[t] = call[c].written[t]
  PROVE  IInv'
<1>1. RowsInv'
  BY DEF IInv, RowsInv, RowsConsistent, Consistent, NoCircularWait, Exists
<1>2. Keeps
  BY DEF Keeps, Exists
<1>3. CallFits(new)'
  BY DEF CallFits, CopyOf, Consistent, Exists
<1>4. \A t \in Tasks : lock'[t] = c =>
        new.pc \in InTransaction /\ CopyOf(new.written[t], t)'
  BY DEF IInv, CallsInv, CopyOf, Consistent, Exists
<1>5. lock' \in [Tasks -> Calls \cup {NoCall}] /\ \A t \in Tasks : lock'[t] \in {lock[t], NoCall, c}
  BY DEF IInv, CallsInv
<1> QED
  BY <1>1, <1>2, <1>3, <1>4, <1>5, CallStep DEF IInv

-----------------------------------------------------------------------------
(* Steps that leave the rows alone                                         *)

\* What IInv says of one call.
LEMMA OneCall ==
  ASSUME IInv, NEW c \in Calls
  PROVE  /\ call[c] \in Call /\ CallFits(call[c])
         /\ \A t \in Tasks : lock[t] = c =>
              call[c].pc \in InTransaction /\ CopyOf(call[c].written[t], t)
         /\ call \in [Calls -> Call]
BY DEF IInv, CallsInv

\* A row that exists is a copy of itself.
LEMMA RowFits ==
  ASSUME IInv, NEW t \in Tasks, Exists(t)
  PROVE  CopyOf(rows[t], t) /\ rows[t] \in Row
BY DEF IInv, RowsInv, RowsConsistent, CopyOf, Exists

\* A call outside a transaction changes into one that fits.
LEMMA UnlockedStep ==
  ASSUME IInv, UNCHANGED <<rows, lock>>, NEW c \in Calls, NEW new,
         call' = [call EXCEPT ![c] = new], CallFits(new),
         call[c].pc \notin InTransaction
  PROVE  IInv'
BY OneCall, QuietStep

\* Starting to write a copy over the row of task t.
LEMMA ReadInv ==
  ASSUME IInv, NEW c \in Calls, NEW t \in Tasks, NEW copy,
         CopyOf(copy, t), Read(c, t, copy)
  PROVE  IInv'
<1> DEFINE new == [Idle EXCEPT !.pc = "save", !.task = t, !.row = copy]
<1>1. CallFits(new)
  BY IdleFits DEF CallFits, Call, CopyOf, Idle
<1>2. call[c].pc \notin InTransaction
  BY DEF Read, At, InTransaction
<1> HIDE DEF new
<1>3. call' = [call EXCEPT ![c] = new]
  BY DEF Read, new
<1> QED
  BY <1>1, <1>2, <1>3, UnlockedStep DEF Read

LEMMA UpdatesInv ==
  ASSUME IInv, NEW c \in Calls, NEW t \in Tasks,
         \/ \E target \in Statuses : UpdateStatus(c, t, target)
         \/ EditTask(c, t) \/ AssignTaskToAgent(c, t)
  PROVE  IInv'
<1>1. CASE EditTask(c, t)
  BY <1>1, RowFits, ReadInv DEF EditTask, Read
<1>2. ASSUME NEW target, Exists(t), Read(c, t, Transition(rows[t], target)),
             \/ target \in ValidTransitions[rows[t].status]
             \/ target = "in_progress" /\ rows[t].status \in {"approved", "pending"}
      PROVE  IInv'
  <2>1. CopyOf(rows[t], t) /\ rows[t] \in Row
    BY <1>2, RowFits
  <2> DEFINE new == Transition(rows[t], target)
  <2>2. /\ new \in Row /\ new.status # "absent" /\ Consistent(new)
        /\ new.parent = rows[t].parent /\ new.blockedBy = rows[t].blockedBy
    <3>1. rows[t].status # "absent" /\ Consistent(rows[t])
      BY <2>1 DEF CopyOf
    <3> QED
      BY <1>2, <2>1, <3>1, TransitionFits
  <2> HIDE DEF new
  <2>3. CopyOf(new, t)
    BY <1>2, <2>2 DEF CopyOf
  <2>4. Read(c, t, new)
    BY <1>2 DEF new
  <2> QED
    BY <2>3, <2>4, ReadInv
<1>3. CASE AssignTaskToAgent(c, t)
  BY <1>3, <1>2 DEF AssignTaskToAgent, Read
<1>4. ASSUME NEW target \in Statuses, UpdateStatus(c, t, target)
      PROVE  IInv'
  BY <1>4, <1>2 DEF UpdateStatus
<1> QED
  BY <1>1, <1>3, <1>4

\* A subtask is validated, or a cascade begins: slot c names a task that exists.
LEMMA BeginInv ==
  ASSUME IInv, NEW c \in Calls, NEW t \in Tasks, ValidateParent(c, t) \/ BeginCancel(c, t)
  PROVE  IInv'
<1> DEFINE insert == [Idle EXCEPT !.pc = "insert", !.root = t]
           visit == [Idle EXCEPT !.pc = "visit", !.root = t, !.todo = {t}]
<1>1. CallFits(insert)
  BY IdleFits DEF CallFits, Call, Idle
<1>2. Exists(t) => CallFits(visit)
  BY IdleFits DEF CallFits, Call, Idle
<1>3. call[c].pc \notin InTransaction /\ Exists(t) /\ UNCHANGED <<rows, lock>>
  BY DEF ValidateParent, BeginCancel, At, InTransaction
<1> HIDE DEF insert, visit
<1>4. call' = [call EXCEPT ![c] = insert] \/ call' = [call EXCEPT ![c] = visit]
  BY DEF ValidateParent, BeginCancel, insert, visit
<1> QED
  BY <1>1, <1>2, <1>3, <1>4, UnlockedStep

\* The cascade reads a task; the copy it makes is cancelled.
LEMMA CancelVisitInv ==
  ASSUME IInv, NEW c \in Calls, CancelVisit(c)
  PROVE  IInv'
<1>1. PICK t \in call[c].todo :
        /\ At(c, "visit")
        /\ \/ /\ rows[t].status \in Terminal
              /\ call' = [call EXCEPT ![c].todo = @ \ {t}]
           \/ /\ rows[t].status \notin Terminal
              /\ call' = [call EXCEPT ![c].pc = "saveInTx", ![c].task = t,
                                      ![c].row = Transition(rows[t], "cancelled")]
        /\ UNCHANGED <<rows, lock>>
  BY Zenon DEF CancelVisit
<1>2. call[c] \in Call /\ CallFits(call[c]) /\ call \in [Calls -> Call]
  BY OneCall
<1>3. t \in Tasks /\ Exists(t)
  BY <1>2 DEF CallFits, Call
<1>4. CASE rows[t].status \in Terminal
  <2> DEFINE new == [call[c] EXCEPT !.todo = call[c].todo \ {t}]
  <2>1. CallFits(new) /\ new.pc = "visit" /\ new.written = call[c].written
    BY <1>1, <1>2 DEF CallFits, Call, At
  <2>2. call' = [call EXCEPT ![c] = new]
    BY <1>1, <1>2, <1>4 DEF Call
  <2> HIDE DEF new
  <2> QED
    BY <1>1, <2>1, <2>2, QuietStep DEF InTransaction
<1>5. CASE rows[t].status \notin Terminal
  <2>1. CopyOf(rows[t], t) /\ rows[t] \in Row
    BY <1>3, RowFits
  <2> DEFINE row == Transition(rows[t], "cancelled")
             new == [call[c] EXCEPT !.pc = "saveInTx", !.task = t, !.row = row]
  <2>2. /\ row \in Row /\ row.status # "absent" /\ Consistent(row)
        /\ row.parent = rows[t].parent /\ row.blockedBy = rows[t].blockedBy
    <3>1. rows[t].status # "absent" /\ Consistent(rows[t])
      BY <2>1 DEF CopyOf
    <3> QED
      BY <1>5, <2>1, <3>1, TransitionFits
  <2>3. call' = [call EXCEPT ![c] = new]
    BY <1>1, <1>2, <1>5 DEF Call
  <2> HIDE DEF row
  <2>4. CopyOf(row, t)
    BY <1>3, <2>2 DEF CopyOf
  <2>5. /\ new \in Call /\ new.pc = "saveInTx" /\ new.task = t /\ new.row = row
        /\ new.todo = call[c].todo /\ new.written = call[c].written
    BY <1>2, <1>3, <2>2 DEF Call
  <2> HIDE DEF new
  <2>6. CallFits(new)
    BY <1>2, <2>4, <2>5 DEF CallFits
  <2> QED
    BY <1>1, <2>3, <2>5, <2>6, QuietStep DEF InTransaction
<1> QED
  BY <1>4, <1>5

\* The cascade goes on to the children; a child exists because it has a parent.
LEMMA CancelSubtasksInv ==
  ASSUME IInv, NEW c \in Calls, CancelSubtasks(c)
  PROVE  IInv'
<1>1. call[c] \in Call /\ CallFits(call[c]) /\ call \in [Calls -> Call]
  BY OneCall
<1> DEFINE t == call[c].task
           todo == (call[c].todo \ {t}) \cup Children(t)
           new == [call[c] EXCEPT !.pc = "visit", !.todo = todo]
<1>2. t \in Tasks
  BY <1>1 DEF CallFits, CancelSubtasks, At
<1>3. \A u \in Children(t) : Exists(u)
  BY <1>2, TasksAssumption DEF Children, IInv, RowsInv, Absent
<1>4. \A u \in todo : u \in Tasks /\ Exists(u)
  BY <1>1, <1>3 DEF CallFits, Call, Children
<1>5. call' = [call EXCEPT ![c] = new] /\ UNCHANGED <<rows, lock>>
  BY <1>1 DEF CancelSubtasks, Call
<1> HIDE DEF todo
<1>6. /\ new \in Call /\ new.pc = "visit" /\ new.todo = todo
      /\ new.written = call[c].written
  BY <1>1, <1>4 DEF Call
<1> HIDE DEF new
<1>7. CallFits(new)
  BY <1>4, <1>6 DEF CallFits
<1> QED
  BY <1>5, <1>6, <1>7, QuietStep DEF InTransaction

\* The cascade writes its copy and locks the row.
LEMMA CancelSaveInv ==
  ASSUME IInv, NEW c \in Calls, CancelSave(c)
  PROVE  IInv'
<1>1. /\ call[c] \in Call /\ CallFits(call[c]) /\ call \in [Calls -> Call]
      /\ \A u \in Tasks : lock[u] = c => CopyOf(call[c].written[u], u)
  BY OneCall
<1> DEFINE t == call[c].task
           row == call[c].row
<1>2. CopyOf(row, t)
  BY <1>1 DEF CallFits, CancelSave, At
<1>3. t \in Tasks /\ row \in Row
  BY <1>2 DEF CopyOf
<1>0. PICK new : new = [call[c] EXCEPT !.pc = "subtasks", !.written[t] = row]
  OBVIOUS
<1>4. call' = [call EXCEPT ![c] = new]
  BY <1>0, <1>1 DEF CancelSave, Call
<1>5. lock' = [lock EXCEPT ![t] = c] /\ UNCHANGED rows /\ lock[t] \in {NoCall, c}
  BY DEF CancelSave, Unlocked
<1>6. /\ new \in Call /\ new.pc = "subtasks" /\ new.task = t /\ new.todo = call[c].todo
      /\ new.written = [call[c].written EXCEPT ![t] = row]
  BY <1>0, <1>1, <1>3 DEF Call
<1>7. CallFits(new)
  BY <1>1, <1>3, <1>6 DEF CallFits
<1>8. RowsInv' /\ CallFits(new)' /\ Keeps
  BY <1>5, <1>7 DEF IInv, RowsInv, RowsConsistent, Consistent, NoCircularWait, Exists,
                    CallFits, CopyOf, Keeps
<1>9. /\ lock \in [Tasks -> Calls \cup {NoCall}]
      /\ lock' \in [Tasks -> Calls \cup {NoCall}]
      /\ \A u \in Tasks : lock'[u] \in {lock[u], NoCall, c}
  BY <1>5 DEF IInv, CallsInv
<1>10. \A u \in Tasks : lock'[u] = c => CopyOf(new.written[u], u)
  <2> SUFFICES ASSUME NEW u \in Tasks, lock'[u] = c
               PROVE  CopyOf(new.written[u], u)
    OBVIOUS
  <2>1. call[c].written \in [Tasks -> Row]
    BY <1>1 DEF Call
  <2>2. CASE u = t
    <3>1. new.written[u] = row
      BY <1>3, <1>6, <2>1, <2>2
    <3> QED
      BY <1>2, <2>2, <3>1
  <2>3. CASE u # t
    <3>1. new.written[u] = call[c].written[u] /\ lock[u] = c
      BY <1>3, <1>5, <1>6, <1>9, <2>1, <2>3
    <3> QED
      BY <1>1, <3>1
  <2> QED
    BY <2>2, <2>3
<1>11. \A u \in Tasks : lock'[u] = c =>
         new.pc \in InTransaction /\ CopyOf(new.written[u], u)'
  BY <1>5, <1>6, <1>10 DEF InTransaction, CopyOf, Consistent, Exists
<1> HIDE DEF t, row
<1> QED
  BY <1>4, <1>8, <1>9, <1>11, CallStep DEF IInv

\* A transaction that breaks releases its rows unchanged.
LEMMA AbortInv ==
  ASSUME IInv, NEW c \in Calls, Abort(c)
  PROVE  IInv'
<1>1. UNCHANGED rows /\ call' = [call EXCEPT ![c] = Idle]
  BY DEF Abort, Return
<1>2. lock \in [Tasks -> Calls \cup {NoCall}]
  BY DEF IInv, CallsInv
<1>3. /\ lock' \in [Tasks -> Calls \cup {NoCall}]
      /\ \A t \in Tasks : lock'[t] \in {lock[t], NoCall, c} /\ lock'[t] # c
  BY <1>2, TasksAssumption DEF Abort, Release
<1>4. RowsInv' /\ Keeps
  BY <1>1 DEF IInv, RowsInv, RowsConsistent, Consistent, NoCircularWait, Exists, Keeps
<1>5. CallFits(Idle)'
  BY IdleFits DEF CallFits, Idle
<1> QED
  BY <1>1, <1>3, <1>4, <1>5, CallStep DEF IInv

-----------------------------------------------------------------------------
(* Steps that write rows                                                   *)

\* Copies written over their rows leave the rows whole and the tasks in place.
LEMMA RowsRewritten ==
  ASSUME IInv, rows' \in [Tasks -> Row],
         \A t \in Tasks : rows'[t] = rows[t] \/ CopyOf(rows'[t], t)
  PROVE  RowsInv' /\ Keeps
<1>1. /\ RowsConsistent /\ NoCircularWait
      /\ \A t \in Tasks : ~Exists(t) => rows[t] = Absent
      /\ \A t \in Tasks : \A b \in rows[t].blockedBy : Exists(b)
      /\ rows \in [Tasks -> Row]
  BY DEF IInv, RowsInv
<1>2. \A t \in Tasks : Exists(t)' <=> Exists(t)
  BY DEF CopyOf, Exists
<1>3. \A t \in Tasks : rows'[t].parent = rows[t].parent /\ rows'[t].blockedBy = rows[t].blockedBy
  BY DEF CopyOf
<1>4. Keeps
  BY <1>2, <1>3 DEF Keeps
<1>5. RowsConsistent'
  BY <1>1 DEF RowsConsistent, CopyOf, Consistent
<1>6. NoCircularWait'
  BY <1>1, <1>3 DEF NoCircularWait
<1>7. \A t \in Tasks : ~Exists(t)' => rows'[t] = Absent
  BY <1>1 DEF CopyOf, Exists
<1>8. \A t \in Tasks : \A b \in rows'[t].blockedBy : Exists(b)'
  BY <1>1, <1>2, <1>3 DEF Row
<1> QED
  BY <1>4, <1>5, <1>6, <1>7, <1>8 DEF RowsInv, Exists

LEMMA SaveInv ==
  ASSUME IInv, NEW c \in Calls, Save(c)
  PROVE  IInv'
<1> DEFINE t == call[c].task
<1>1. rows' = [rows EXCEPT ![t] = call[c].row] /\ UNCHANGED lock
  BY DEF Save
<1>2. call' = [call EXCEPT ![c] = Idle]
  BY DEF Save, Return
<1>3. /\ CopyOf(call[c].row, t)
      /\ \A u \in Tasks : lock[u] # c
  BY OneCall DEF CallFits, Save, At, InTransaction
<1>4. rows \in [Tasks -> Row] /\ t \in Tasks /\ call[c].row \in Row
  BY <1>3 DEF IInv, RowsInv, CopyOf
<1>5. rows' \in [Tasks -> Row]
  BY <1>1, <1>4
<1>6. \A u \in Tasks : rows'[u] = rows[u] \/ CopyOf(rows'[u], u)
  BY <1>1, <1>3, <1>4
<1>7. RowsInv' /\ Keeps
  BY <1>5, <1>6, RowsRewritten
<1>8. CallFits(Idle)'
  BY IdleFits DEF CallFits, Idle
<1>9. /\ lock' \in [Tasks -> Calls \cup {NoCall}]
      /\ \A u \in Tasks : lock'[u] \in {lock[u], NoCall, c} /\ lock'[u] # c
  BY <1>1, <1>3 DEF IInv, CallsInv
<1> QED
  BY <1>2, <1>7, <1>8, <1>9, CallStep DEF IInv

\* The commit writes every copy the transaction made.
LEMMA CancelCommitInv ==
  ASSUME IInv, NEW c \in Calls, CancelCommit(c)
  PROVE  IInv'
<1>1. rows' = [t \in Tasks |-> IF lock[t] = c THEN call[c].written[t] ELSE rows[t]]
  BY DEF CancelCommit
<1>2. call' = [call EXCEPT ![c] = Idle]
  BY DEF CancelCommit, Return
<1>3. \A t \in Tasks : lock[t] = c => CopyOf(call[c].written[t], t)
  BY OneCall
<1>4. rows \in [Tasks -> Row] /\ call[c].written \in [Tasks -> Row]
  BY OneCall DEF IInv, RowsInv, Call
<1>5. rows' \in [Tasks -> Row]
  BY <1>1, <1>4
<1>6. \A t \in Tasks : rows'[t] = rows[t] \/ CopyOf(rows'[t], t)
  <2> SUFFICES ASSUME NEW t \in Tasks
               PROVE  rows'[t] = rows[t] \/ CopyOf(rows'[t], t)
    OBVIOUS
  <2>1. rows'[t] = IF lock[t] = c THEN call[c].written[t] ELSE rows[t]
    BY <1>1
  <2> QED
    BY <1>3, <2>1
<1>7. RowsInv' /\ Keeps
  BY <1>5, <1>6, RowsRewritten
<1>8. CallFits(Idle)'
  BY IdleFits DEF CallFits, Idle
<1>9. lock \in [Tasks -> Calls \cup {NoCall}]
  BY DEF IInv, CallsInv
<1>10. /\ lock' \in [Tasks -> Calls \cup {NoCall}]
       /\ \A t \in Tasks : lock'[t] \in {lock[t], NoCall, c} /\ lock'[t] # c
  BY <1>9, TasksAssumption DEF CancelCommit, Release
<1> QED
  BY <1>2, <1>7, <1>8, <1>10, CallStep DEF IInv

\* A new task waits only for tasks that exist, and none of them waits for it.
LEMMA Inserted ==
  ASSUME IInv, NEW t \in Tasks, NEW p \in Tasks \cup {NoTask}, NEW B \in SUBSET Tasks,
         Insert(t, p, B)
  PROVE  RowsInv' /\ Keeps
<1>1. /\ RowsConsistent /\ NoCircularWait
      /\ \A u \in Tasks : ~Exists(u) => rows[u] = Absent
      /\ \A u \in Tasks : \A b \in rows[u].blockedBy : Exists(b)
      /\ rows \in [Tasks -> Row]
  BY DEF IInv, RowsInv
<1>2. ~Exists(t) /\ \A b \in B : Exists(b)
  BY DEF Insert, ValidateBlockers
<1>3. PICK s \in {"draft", "pending"} :
        rows' = [rows EXCEPT ![t] = [Absent EXCEPT !.status = s, !.parent = p, !.blockedBy = B]]
  BY DEF Insert
<1>4. PICK new : new = [Absent EXCEPT !.status = s, !.parent = p, !.blockedBy = B]
  OBVIOUS
<1>5. /\ new \in Row /\ new.status = s /\ new.blockedBy = B
      /\ new.completed = FALSE
  BY <1>4 DEF Absent, Row, Statuses, Board!Statuses
<1>6. Consistent(new) /\ new.status # "absent"
  BY <1>5 DEF Consistent, Terminal, Board!Terminal
<1>7. /\ rows' \in [Tasks -> Row] /\ rows'[t] = new
      /\ \A u \in Tasks \ {t} : rows'[u] = rows[u]
  BY <1>1, <1>3, <1>4, <1>5
<1>8. Keeps
  BY <1>2, <1>7 DEF Keeps, Exists
<1>9. RowsConsistent'
  BY <1>1, <1>6, <1>7 DEF RowsConsistent, Consistent
<1>10. \A u \in Tasks : ~Exists(u)' => rows'[u] = Absent
  BY <1>1, <1>6, <1>7 DEF Exists
<1>11. \A u \in Tasks : Exists(u) => Exists(u)'
  BY <1>8 DEF Keeps
<1>12. \A u \in Tasks : \A b \in rows'[u].blockedBy : Exists(b)'
  <2> SUFFICES ASSUME NEW u \in Tasks, NEW b \in rows'[u].blockedBy
               PROVE  Exists(b)'
    OBVIOUS
  <2>1. b \in Tasks /\ Exists(b)
    BY <1>1, <1>2, <1>5, <1>7 DEF Row
  <2> QED
    BY <1>11, <2>1
<1>13. \A W \in (SUBSET Tasks) \ {{}} : \E u \in W : rows'[u].blockedBy \cap W = {}
  <2> SUFFICES ASSUME NEW W \in (SUBSET Tasks) \ {{}}
               PROVE  \E u \in W : rows'[u].blockedBy \cap W = {}
    OBVIOUS
  <2>1. \A u \in Tasks : t \notin rows'[u].blockedBy
    BY <1>1, <1>2, <1>5, <1>7
  <2>2. CASE W = {t}
    BY <2>1, <2>2
  <2>3. CASE W # {t}
    <3>1. W \ {t} \in (SUBSET Tasks) \ {{}}
      BY <2>3
    <3>2. PICK u \in W \ {t} : rows[u].blockedBy \cap (W \ {t}) = {}
      BY <1>1, <3>1 DEF NoCircularWait
    <3>3. rows'[u].blockedBy = rows[u].blockedBy
      BY <1>7, <3>2
    <3> QED
      BY <2>1, <3>2, <3>3
  <2> QED
    BY <2>2, <2>3
<1> QED
  BY <1>7, <1>8, <1>9, <1>10, <1>12, <1>13 DEF RowsInv, NoCircularWait, Exists

LEMMA CreateTaskInv ==
  ASSUME IInv, NEW c \in Calls, NEW t \in Tasks, NEW B \in SUBSET Tasks, CreateTask(c, t, B)
  PROVE  IInv'
<1>1. RowsInv' /\ Keeps
  BY Inserted DEF CreateTask
<1>2. /\ CallFits(call[c]) /\ call[c].pc \notin InTransaction
      /\ call \in [Calls -> Call]
      /\ \A u \in Tasks : lock[u] # c
  BY OneCall DEF CreateTask, At, InTransaction
<1>3. PICK k : k = call[c]
  OBVIOUS
<1>4. call' = [call EXCEPT ![c] = k]
  BY <1>2, <1>3 DEF CreateTask
<1>5. CallFits(k)
  BY <1>2, <1>3
<1>6. CallFits(k)'
  BY <1>1, <1>5 DEF CallFits, Call, Keeps, CopyOf, Consistent, Exists
<1>7. /\ lock' \in [Tasks -> Calls \cup {NoCall}]
      /\ \A u \in Tasks : lock'[u] \in {lock[u], NoCall, c} /\ lock'[u] # c
  BY <1>2 DEF CreateTask, IInv, CallsInv
<1> QED
  BY <1>1, <1>4, <1>6, <1>7, CallStep DEF IInv

LEMMA CreateSubTaskInv ==
  ASSUME IInv, NEW c \in Calls, NEW t \in Tasks, NEW B \in SUBSET Tasks,
         CreateSubTask(c, t, B)
  PROVE  IInv'
<1>1. /\ call[c].root \in Tasks
      /\ \A u \in Tasks : lock[u] # c
  BY OneCall DEF CreateSubTask, At, InTransaction, CallFits
<1>2. RowsInv' /\ Keeps
  BY <1>1, Inserted DEF CreateSubTask
<1>3. CallFits(Idle)'
  BY IdleFits DEF CallFits, Idle
<1>4. /\ lock' \in [Tasks -> Calls \cup {NoCall}]
      /\ \A u \in Tasks : lock'[u] \in {lock[u], NoCall, c} /\ lock'[u] # c
  BY <1>1 DEF CreateSubTask, IInv, CallsInv
<1>5. call' = [call EXCEPT ![c] = Idle]
  BY DEF CreateSubTask, Return
<1> QED
  BY <1>2, <1>3, <1>4, <1>5, CallStep DEF IInv

-----------------------------------------------------------------------------
(* Theorems                                                                *)

LEMMA InitInv == Init => IInv
<1> SUFFICES ASSUME Init PROVE IInv
  OBVIOUS
<1>1. \A t \in Tasks : rows[t] = Absent /\ ~Exists(t) /\ lock[t] = NoCall
  BY DEF Init, Exists, Absent
<1>2. \A c \in Calls : call[c] = Idle
  BY DEF Init
<1>3. RowsInv
  <2>1. rows \in [Tasks -> Row]
    BY AbsentIsRow DEF Init
  <2>2. RowsConsistent
    BY <1>1, AbsentIsRow DEF RowsConsistent
  <2>3. \A t \in Tasks : rows[t].blockedBy = {}
    BY <1>1 DEF Absent
  <2>4. NoCircularWait
    <3>1. ASSUME NEW W \in (SUBSET Tasks) \ {{}}
          PROVE  \E t \in W : rows[t].blockedBy \cap W = {}
      <4>1. PICK t \in W : TRUE
        BY Zenon
      <4>2. rows[t].blockedBy \cap W = {}
        BY <2>3
      <4> QED
        BY <4>2
    <3> QED
      BY <3>1, Zenon DEF NoCircularWait
  <2> QED
    BY <1>1, <2>1, <2>2, <2>3, <2>4 DEF RowsInv
<1>4. \A c \in Calls : CallFits(call[c])
  BY <1>2, IdleFits
<1>5. CallsInv
  BY <1>1, <1>4, IdleFits, TasksAssumption DEF Init, CallsInv
<1> QED
  BY <1>3, <1>5 DEF IInv

LEMMA StepInv == IInv /\ [Next]_vars => IInv'
<1> SUFFICES ASSUME IInv, [Next]_vars PROVE IInv'
  OBVIOUS
<1>1. CASE UNCHANGED vars
  BY <1>1 DEF vars, IInv, RowsInv, CallsInv, RowsConsistent, Consistent, NoCircularWait,
              Exists, CallFits, CopyOf
<1>2. ASSUME NEW c \in Calls, Step(c)
      PROVE  IInv'
  BY <1>2, SaveInv, CancelVisitInv, CancelSaveInv, CancelSubtasksInv, CancelCommitInv,
     CreateSubTaskInv DEF Step
<1>3. ASSUME NEW c \in Calls, NEW t \in Tasks,
             \/ \E s \in Statuses : UpdateStatus(c, t, s)
             \/ EditTask(c, t) \/ AssignTaskToAgent(c, t)
             \/ ValidateParent(c, t) \/ BeginCancel(c, t)
             \/ \E B \in SUBSET Tasks : CreateTask(c, t, B)
      PROVE  IInv'
  BY <1>3, UpdatesInv, BeginInv, CreateTaskInv
<1> QED
  BY <1>1, <1>2, <1>3, AbortInv DEF Next

LEMMA Invariance == Spec => []IInv
BY InitInv, StepInv, PTL DEF Spec

\* The database and the calls keep their types.
THEOREM TypeCorrect == Spec => []TypeOK
<1>1. IInv => TypeOK
  BY DEF IInv, RowsInv, CallsInv, TypeOK, Call
<1> QED
  BY <1>1, Invariance, PTL

\* However calls overlap, a row always carries timestamps that fit its status: saves of
\* whole stale rows lose updates but never mix two of them.
THEOREM RowsStayConsistent == Spec => []RowsConsistent
<1>1. IInv => RowsConsistent
  BY DEF IInv, RowsInv
<1> QED
  BY <1>1, Invariance, PTL

\* However calls overlap, no set of tasks waits for itself.
THEOREM NeverCircular == Spec => []NoCircularWait
<1>1. IInv => NoCircularWait
  BY DEF IInv, RowsInv
<1> QED
  BY <1>1, Invariance, PTL

-----------------------------------------------------------------------------
(* The forest of tasks                                                     *)

\* Every existing task has a short chain of existing parents, and so will the subtask
\* that a call is about to insert: nothing changes the parents it has counted.
ForestInv ==
  /\ \A t \in Tasks : Exists(t) =>
       /\ \A a \in Ancestors(t) : Exists(a)
       /\ t \notin Ancestors(t)
       /\ IsFiniteSet(Ancestors(t)) /\ Depth(t) < MaxTaskDepth
  /\ \A c \in Calls : call[c].pc = "insert" =>
       Exists(call[c].root) /\ Depth(call[c].root) + 1 < MaxTaskDepth

\* Above a task that has a parent are that parent and what is above it.
LEMMA ParentFirst ==
  ASSUME NEW t \in Tasks, NEW p \in Tasks, rows[t].parent = p
  PROVE  Ancestors(t) = {p} \cup Ancestors(p)
<1>1. p \in Ancestors(t)
  BY TasksAssumption DEF Ancestors, HoldsParents
<1>2. ASSUME NEW a \in Ancestors(p)
      PROVE  a \in Ancestors(t)
  <2>1. a \in Tasks
    BY DEF Ancestors
  <2>2. ASSUME NEW S \in SUBSET Tasks, HoldsParents(S, t)
        PROVE  a \in S
    <3>1. p \in S
      BY <2>2, TasksAssumption DEF HoldsParents
    <3>2. HoldsParents(S, p)
      BY <2>2, <3>1 DEF HoldsParents
    <3> QED
      BY <1>2, <3>2 DEF Ancestors
  <2> QED
    BY <2>1, <2>2 DEF Ancestors
<1>3. ASSUME NEW a \in Ancestors(t), a # p
      PROVE  a \in Ancestors(p)
  <2>1. a \in Tasks
    BY DEF Ancestors
  <2>2. ASSUME NEW S \in SUBSET Tasks, HoldsParents(S, p)
        PROVE  a \in S
    <3>1. HoldsParents(S \cup {p}, t)
      BY <2>2 DEF HoldsParents
    <3>2. S \cup {p} \in SUBSET Tasks
      OBVIOUS
    <3> QED
      BY <1>3, <3>1, <3>2 DEF Ancestors
  <2> QED
    BY <2>1, <2>2 DEF Ancestors
<1> QED
  BY <1>1, <1>2, <1>3

\* The same after a step.
ParentsFirst ==
  \A t, p \in Tasks : rows[t].parent = p => Ancestors(t) = {p} \cup Ancestors(p)

LEMMA ParentsFirstAfter == ParentsFirst'
<1>1. ParentsFirst
  BY ParentFirst DEF ParentsFirst
<1> QED
  BY <1>1, PTL

\* What is above a task depends on the parents alone.
LEMMA SameParents ==
  ASSUME \A u \in Tasks : rows'[u].parent = rows[u].parent, NEW t \in Tasks
  PROVE  Ancestors(t)' = Ancestors(t)
<1>1. \A S \in SUBSET Tasks : HoldsParents(S, t)' <=> HoldsParents(S, t)
  BY DEF HoldsParents
<1> QED
  BY <1>1 DEF Ancestors

\* Nor does it change when the row of a task that is nobody's parent does.
LEMMA LeafAdded ==
  ASSUME NEW n \in Tasks, NEW t \in Tasks, t # n,
         \A u \in Tasks \ {n} : rows'[u].parent = rows[u].parent /\ rows[u].parent # n
  PROVE  Ancestors(t)' = Ancestors(t)
<1>1. ASSUME NEW S \in SUBSET Tasks, HoldsParents(S, t)
      PROVE  HoldsParents(S \ {n}, t)'
  BY <1>1 DEF HoldsParents
<1>2. ASSUME NEW S \in SUBSET Tasks, HoldsParents(S, t)'
      PROVE  HoldsParents(S \ {n}, t)
  BY <1>2 DEF HoldsParents
<1>3. \A S \in SUBSET Tasks : S \ {n} \in SUBSET Tasks
  OBVIOUS
<1>4. ASSUME NEW a \in Ancestors(t)'
      PROVE  a \in Ancestors(t)
  <2>1. a \in Tasks /\ \A S \in SUBSET Tasks : HoldsParents(S, t)' => a \in S
    BY DEF Ancestors
  <2>2. ASSUME NEW S \in SUBSET Tasks, HoldsParents(S, t)
        PROVE  a \in S
    <3>1. HoldsParents(S \ {n}, t)'
      BY <1>1, <2>2
    <3>2. a \in S \ {n}
      BY <1>3, <2>1, <3>1
    <3> QED
      BY <3>2
  <2> QED
    BY <2>1, <2>2 DEF Ancestors
<1>5. ASSUME NEW a \in Ancestors(t)
      PROVE  a \in Ancestors(t)'
  <2>1. a \in Tasks /\ \A S \in SUBSET Tasks : HoldsParents(S, t) => a \in S
    BY DEF Ancestors
  <2>2. ASSUME NEW S \in SUBSET Tasks, HoldsParents(S, t)'
        PROVE  a \in S
    <3>1. HoldsParents(S \ {n}, t)
      BY <1>2, <2>2
    <3>2. a \in S \ {n}
      BY <1>3, <2>1, <3>1
    <3> QED
      BY <3>2
  <2> QED
    BY <2>1, <2>2 DEF Ancestors
<1> QED
  BY <1>4, <1>5

\* A call goes on to insert below the parent it has counted from, or has just counted.
CountsWell ==
  \A c \in Calls : call'[c].pc = "insert" =>
    \/ call[c].pc = "insert" /\ call'[c].root = call[c].root
    \/ Exists(call'[c].root) /\ Depth(call'[c].root) + 1 < MaxTaskDepth

\* Rows that keep their parents keep the forest.
LEMMA ForestStays ==
  ASSUME ForestInv, IInv', CountsWell,
         \A u \in Tasks : rows'[u].parent = rows[u].parent /\ (Exists(u)' <=> Exists(u))
  PROVE  ForestInv'
<1>1. \A t \in Tasks : Ancestors(t)' = Ancestors(t) /\ Ancestors(t) \subseteq Tasks
  BY SameParents DEF Ancestors
<1>2. \A t \in Tasks : Depth(t)' = Depth(t)
  BY <1>1 DEF Depth
<1>3. ASSUME NEW t \in Tasks, Exists(t)'
      PROVE  /\ \A a \in Ancestors(t)' : Exists(a)'
             /\ t \notin Ancestors(t)'
             /\ IsFiniteSet(Ancestors(t)') /\ Depth(t)' < MaxTaskDepth
  BY <1>1, <1>2, <1>3 DEF ForestInv
<1>4. ASSUME NEW c \in Calls, call'[c].pc = "insert"
      PROVE  Exists(call[c].root)' /\ Depth(call[c].root)' + 1 < MaxTaskDepth
  <2>1. call'[c].root \in Tasks
    BY <1>4 DEF IInv, CallsInv, CallFits
  <2>2. Exists(call'[c].root) /\ Depth(call'[c].root) + 1 < MaxTaskDepth
    BY <1>4 DEF CountsWell, ForestInv
  <2>3. PICK r \in Tasks : r = call'[c].root
    BY <2>1
  <2>4. Exists(r)' /\ Depth(r)' + 1 < MaxTaskDepth
    BY <1>2, <2>2, <2>3
  <2>5. Exists(call[c].root)' <=> Exists(r)'
    BY <2>3 DEF Exists
  <2>6. Depth(call[c].root)' = Depth(r)'
    BY <2>3 DEF Depth, Ancestors, HoldsParents
  <2> QED
    BY <2>4, <2>5, <2>6
<1> QED
  BY <1>3, <1>4 DEF ForestInv

\* A new task below p is one deeper than p, and changes nobody's depth.
LEMMA ForestGrows ==
  ASSUME ForestInv, IInv, IInv', CountsWell,
         NEW n \in Tasks, NEW p \in Tasks \cup {NoTask}, NEW B \in SUBSET Tasks,
         Insert(n, p, B), p # NoTask => Exists(p) /\ Depth(p) + 1 < MaxTaskDepth
  PROVE  ForestInv'
<1>1. /\ \A u \in Tasks : ~Exists(u) => rows[u].parent = NoTask
      /\ rows \in [Tasks -> Row] /\ ~Exists(n)
  BY DEF IInv, RowsInv, Absent, Insert
<1>2. PICK s \in {"draft", "pending"} :
        rows' = [rows EXCEPT ![n] = [Absent EXCEPT !.status = s, !.parent = p, !.blockedBy = B]]
  BY DEF Insert
<1>3. /\ rows'[n].parent = p /\ rows'[n].status = s
      /\ \A u \in Tasks \ {n} : rows'[u] = rows[u]
  BY <1>1, <1>2 DEF Absent
<1>4. \A u \in Tasks : Exists(u)' <=> Exists(u) \/ u = n
  BY <1>1, <1>3 DEF Exists
<1>5. \A u \in Tasks : rows[u].parent # n
  <2> SUFFICES ASSUME NEW u \in Tasks, rows[u].parent = n
               PROVE  FALSE
    OBVIOUS
  <2>1. Exists(u)
    BY <1>1, TasksAssumption
  <2>2. n \in Ancestors(u)
    BY ParentFirst
  <2> QED
    BY <1>1, <2>1, <2>2 DEF ForestInv
<1>6. \A t \in Tasks \ {n} : Ancestors(t)' = Ancestors(t)
  BY <1>3, <1>5, LeafAdded
<1>7. \A t \in Tasks \ {n} : Depth(t)' = Depth(t)
  BY <1>6 DEF Depth
<1>8. /\ \A a \in Ancestors(n)' : Exists(a)
      /\ IsFiniteSet(Ancestors(n)') /\ Cardinality(Ancestors(n)') < MaxTaskDepth
  <2>1. CASE p = NoTask
    <3>1. Ancestors(n)' = {}
      <4>1. {} \in SUBSET Tasks /\ HoldsParents({}, n)'
        BY <1>3, <2>1 DEF HoldsParents
      <4> QED
        BY <4>1 DEF Ancestors
    <3> QED
      BY <3>1, FS_EmptySet, TasksAssumption
  <2>2. CASE p \in Tasks
    <3>1. /\ Exists(p) /\ Depth(p) + 1 < MaxTaskDepth
          /\ IsFiniteSet(Ancestors(p)) /\ \A a \in Ancestors(p) : Exists(a)
          /\ p # n
      BY <1>1, <2>2, TasksAssumption DEF ForestInv
    <3>2. Ancestors(n)' = {p} \cup Ancestors(p)
      <4>1. Ancestors(n)' = {p} \cup Ancestors(p)'
        BY <1>3, <2>2, ParentsFirstAfter DEF ParentsFirst
      <4> QED
        BY <1>6, <2>2, <3>1, <4>1
    <3>3. /\ IsFiniteSet(Ancestors(p) \cup {p})
          /\ \/ Cardinality(Ancestors(p) \cup {p}) = Cardinality(Ancestors(p))
             \/ Cardinality(Ancestors(p) \cup {p}) = Cardinality(Ancestors(p)) + 1
      BY <3>1, FS_AddElement
    <3>4. Cardinality(Ancestors(p)) \in Nat
      BY <3>1, FS_CardinalityType
    <3>5. Ancestors(n)' = Ancestors(p) \cup {p}
      BY <3>2
    <3>6. Cardinality(Ancestors(p)) + 1 < MaxTaskDepth
      BY <3>1 DEF Depth
    <3>7. Cardinality(Ancestors(p) \cup {p}) < MaxTaskDepth
      BY <3>3, <3>4, <3>6, TasksAssumption
    <3> QED
      BY <3>1, <3>3, <3>5, <3>7
  <2> QED
    BY <2>1, <2>2
<1>9. ASSUME NEW t \in Tasks, Exists(t)'
      PROVE  /\ \A a \in Ancestors(t)' : Exists(a)'
             /\ t \notin Ancestors(t)'
             /\ IsFiniteSet(Ancestors(t)') /\ Depth(t)' < MaxTaskDepth
  <2>1. Ancestors(t)' \subseteq Tasks
    BY DEF Ancestors
  <2>2. CASE t = n
    BY <1>1, <1>4, <1>8, <2>1, <2>2 DEF Depth
  <2>3. CASE t # n
    BY <1>4, <1>6, <1>7, <1>9, <2>1, <2>3 DEF ForestInv
  <2> QED
    BY <2>2, <2>3
<1>10. ASSUME NEW c \in Calls, call'[c].pc = "insert"
       PROVE  Exists(call[c].root)' /\ Depth(call[c].root)' + 1 < MaxTaskDepth
  <2>1. call'[c].root \in Tasks
    BY <1>10 DEF IInv, CallsInv, CallFits
  <2>2. Exists(call'[c].root) /\ Depth(call'[c].root) + 1 < MaxTaskDepth
    BY <1>10 DEF CountsWell, ForestInv
  <2>3. PICK r \in Tasks : r = call'[c].root
    BY <2>1
  <2>4. Exists(r)' /\ Depth(r)' + 1 < MaxTaskDepth
    BY <1>1, <1>4, <1>7, <2>2, <2>3
  <2>5. Exists(call[c].root)' <=> Exists(r)'
    BY <2>3 DEF Exists
  <2>6. Depth(call[c].root)' = Depth(r)'
    BY <2>3 DEF Depth, Ancestors, HoldsParents
  <2> QED
    BY <2>4, <2>5, <2>6
<1> QED
  BY <1>9, <1>10 DEF ForestInv

\* A call that ends, or goes on to anything but an insert, has nothing to count.
LEMMA OthersCount ==
  ASSUME IInv, NEW c \in Calls, NEW k, call' = [call EXCEPT ![c] = k], k.pc # "insert"
  PROVE  CountsWell
<1>1. call \in [Calls -> Call]
  BY DEF IInv, CallsInv
<1>2. call'[c] = k /\ \A d \in Calls \ {c} : call'[d] = call[d]
  BY <1>1
<1> QED
  BY <1>2 DEF CountsWell

\* Copies written over their rows keep the parents.
LEMMA CopiesKeepForest ==
  ASSUME ForestInv, IInv', CountsWell,
         \A t \in Tasks : rows'[t] = rows[t] \/ CopyOf(rows'[t], t)
  PROVE  ForestInv'
<1>1. \A t \in Tasks : rows'[t].parent = rows[t].parent /\ (Exists(t)' <=> Exists(t))
  BY DEF CopyOf, Exists
<1> QED
  BY <1>1, ForestStays

LEMMA ForestSave ==
  ASSUME IInv, IInv', ForestInv, NEW c \in Calls, Save(c)
  PROVE  ForestInv'
<1>1. CountsWell
  <2>1. call' = [call EXCEPT ![c] = Idle] /\ Idle.pc # "insert"
    BY DEF Save, Return, Idle
  <2> QED
    BY <2>1, OthersCount
<1>2. rows' = [rows EXCEPT ![call[c].task] = call[c].row]
  BY DEF Save
<1>3. CopyOf(call[c].row, call[c].task) /\ rows \in [Tasks -> Row]
  BY OneCall DEF CallFits, Save, At, IInv, RowsInv
<1>4. \A t \in Tasks : rows'[t] = rows[t] \/ CopyOf(rows'[t], t)
  BY <1>2, <1>3
<1> QED
  BY <1>1, <1>4, CopiesKeepForest

LEMMA ForestCommit ==
  ASSUME IInv, IInv', ForestInv, NEW c \in Calls, CancelCommit(c)
  PROVE  ForestInv'
<1>1. CountsWell
  <2>1. call' = [call EXCEPT ![c] = Idle] /\ Idle.pc # "insert"
    BY DEF CancelCommit, Return, Idle
  <2> QED
    BY <2>1, OthersCount
<1>2. rows' = [t \in Tasks |-> IF lock[t] = c THEN call[c].written[t] ELSE rows[t]]
  BY DEF CancelCommit
<1>3. \A t \in Tasks : lock[t] = c => CopyOf(call[c].written[t], t)
  BY OneCall
<1>4. ASSUME NEW t \in Tasks
      PROVE  rows'[t] = rows[t] \/ CopyOf(rows'[t], t)
  <2>1. rows'[t] = IF lock[t] = c THEN call[c].written[t] ELSE rows[t]
    BY <1>2
  <2> QED
    BY <1>3, <2>1
<1> QED
  BY <1>1, <1>4, CopiesKeepForest

\* Steps that do not touch the rows and do not come from validateParent.
LEMMA ForestQuiet ==
  ASSUME IInv, IInv', ForestInv, NEW c \in Calls, UNCHANGED rows,
         \E k : call' = [call EXCEPT ![c] = k] /\ k.pc # "insert"
  PROVE  ForestInv'
<1>1. CountsWell
  BY OthersCount
<1> QED
  BY <1>1, CopiesKeepForest

LEMMA ForestCascade ==
  ASSUME IInv, IInv', ForestInv, NEW c \in Calls,
         CancelVisit(c) \/ CancelSave(c) \/ CancelSubtasks(c)
  PROVE  ForestInv'
<1>1. call \in [Calls -> Call] /\ call[c] \in Call
  BY OneCall
<1>2. CASE CancelVisit(c)
  <2>1. PICK t \in call[c].todo :
          \/ call' = [call EXCEPT ![c].todo = @ \ {t}]
          \/ call' = [call EXCEPT ![c].pc = "saveInTx", ![c].task = t,
                                  ![c].row = Transition(rows[t], "cancelled")]
    BY <1>2 DEF CancelVisit
  <2>2. call[c].pc = "visit" /\ UNCHANGED rows
    BY <1>2 DEF CancelVisit, At
  <2>3. CASE call' = [call EXCEPT ![c].todo = @ \ {t}]
    <3>1. PICK k : k = [call[c] EXCEPT !.todo = @ \ {t}]
      OBVIOUS
    <3>2. call' = [call EXCEPT ![c] = k] /\ k.pc # "insert"
      BY <1>1, <2>2, <2>3, <3>1 DEF Call
    <3> QED
      BY <2>2, <3>2, ForestQuiet
  <2>4. CASE call' = [call EXCEPT ![c].pc = "saveInTx", ![c].task = t,
                                  ![c].row = Transition(rows[t], "cancelled")]
    <3>1. PICK k : k = [call[c] EXCEPT !.pc = "saveInTx", !.task = t,
                                       !.row = Transition(rows[t], "cancelled")]
      OBVIOUS
    <3>2. call' = [call EXCEPT ![c] = k] /\ k.pc # "insert"
      BY <1>1, <2>4, <3>1 DEF Call
    <3> QED
      BY <2>2, <3>2, ForestQuiet
  <2> QED
    BY <2>1, <2>3, <2>4
<1>3. CASE CancelSave(c)
  <2> DEFINE t == call[c].task
  <2>1. PICK k : k = [call[c] EXCEPT !.pc = "subtasks", !.written[t] = call[c].row]
    OBVIOUS
  <2>2. call' = [call EXCEPT ![c] = k] /\ k.pc # "insert"
    BY <1>1, <1>3, <2>1 DEF CancelSave, Call
  <2>3. UNCHANGED rows
    BY <1>3 DEF CancelSave
  <2> QED
    BY <2>2, <2>3, ForestQuiet
<1>4. CASE CancelSubtasks(c)
  <2> DEFINE t == call[c].task
  <2>1. PICK k : k = [call[c] EXCEPT !.pc = "visit", !.todo = (@ \ {t}) \cup Children(t)]
    OBVIOUS
  <2>2. call' = [call EXCEPT ![c] = k] /\ k.pc # "insert"
    BY <1>1, <1>4, <2>1 DEF CancelSubtasks, Call
  <2>3. UNCHANGED rows
    BY <1>4 DEF CancelSubtasks
  <2> QED
    BY <2>2, <2>3, ForestQuiet
<1> QED
  BY <1>2, <1>3, <1>4

LEMMA ForestCalls ==
  ASSUME IInv, IInv', ForestInv, NEW c \in Calls, NEW t \in Tasks,
         \/ \E s \in Statuses : UpdateStatus(c, t, s)
         \/ EditTask(c, t) \/ AssignTaskToAgent(c, t) \/ BeginCancel(c, t)
  PROVE  ForestInv'
<1>1. UNCHANGED rows
  BY DEF UpdateStatus, EditTask, AssignTaskToAgent, Read, BeginCancel
<1>2. CASE BeginCancel(c, t)
  <2>1. PICK k : k = [Idle EXCEPT !.pc = "visit", !.root = t, !.todo = {t}]
    OBVIOUS
  <2>2. call' = [call EXCEPT ![c] = k] /\ k.pc # "insert"
    BY <1>2, <2>1 DEF BeginCancel, Idle
  <2> QED
    BY <1>1, <2>2, ForestQuiet
<1>3. ASSUME NEW copy, Read(c, t, copy)
      PROVE  ForestInv'
  <2>1. PICK k : k = [Idle EXCEPT !.pc = "save", !.task = t, !.row = copy]
    OBVIOUS
  <2>2. call' = [call EXCEPT ![c] = k] /\ k.pc # "insert"
    BY <1>3, <2>1 DEF Read, Idle
  <2> QED
    BY <1>1, <2>2, ForestQuiet
<1> QED
  BY <1>2, <1>3 DEF UpdateStatus, EditTask, AssignTaskToAgent

LEMMA ForestValidate ==
  ASSUME IInv, IInv', ForestInv, NEW c \in Calls, NEW p \in Tasks, ValidateParent(c, p)
  PROVE  ForestInv'
<1>1. call' = [call EXCEPT ![c] = [Idle EXCEPT !.pc = "insert", !.root = p]]
  BY DEF ValidateParent
<1>2. /\ call'[c].root = p /\ \A d \in Calls \ {c} : call'[d] = call[d]
  BY <1>1, OneCall DEF Idle
<1>3. Exists(p) /\ Depth(p) + 1 < MaxTaskDepth
  BY DEF ValidateParent
<1>4. CountsWell
  BY <1>2, <1>3 DEF CountsWell
<1>5. UNCHANGED rows
  BY DEF ValidateParent
<1> QED
  BY <1>4, <1>5, CopiesKeepForest

LEMMA ForestCreate ==
  ASSUME IInv, IInv', ForestInv, NEW c \in Calls, NEW t \in Tasks, NEW B \in SUBSET Tasks,
         CreateTask(c, t, B) \/ CreateSubTask(c, t, B)
  PROVE  ForestInv'
<1>1. CASE CreateTask(c, t, B)
  <2>1. CountsWell /\ Insert(t, NoTask, B)
    BY <1>1 DEF CreateTask, CountsWell
  <2> QED
    BY <2>1, ForestGrows
<1>2. CASE CreateSubTask(c, t, B)
  <2>1. call' = [call EXCEPT ![c] = Idle] /\ Idle.pc # "insert"
    BY <1>2 DEF CreateSubTask, Return, Idle
  <2>2. CountsWell
    BY <2>1, OthersCount
  <2>3. call[c].pc = "insert" /\ Insert(t, call[c].root, B)
    BY <1>2 DEF CreateSubTask, At
  <2>4. call[c].root \in Tasks
    BY <2>3, OneCall DEF CallFits
  <2>5. Exists(call[c].root) /\ Depth(call[c].root) + 1 < MaxTaskDepth
    BY <2>3 DEF ForestInv
  <2> QED
    BY <2>2, <2>3, <2>4, <2>5, ForestGrows
<1> QED
  BY <1>1, <1>2

LEMMA ForestStep == IInv /\ IInv' /\ ForestInv /\ [Next]_vars => ForestInv'
<1> SUFFICES ASSUME IInv, IInv', ForestInv, [Next]_vars PROVE ForestInv'
  OBVIOUS
<1>1. CASE UNCHANGED vars
  BY <1>1, CopiesKeepForest DEF vars, CountsWell
<1>2. ASSUME NEW c \in Calls, Step(c)
      PROVE  ForestInv'
  BY <1>2, ForestSave, ForestCascade, ForestCommit, ForestCreate DEF Step
<1>3. ASSUME NEW c \in Calls, NEW t \in Tasks,
             \/ \E s \in Statuses : UpdateStatus(c, t, s)
             \/ EditTask(c, t) \/ AssignTaskToAgent(c, t)
             \/ ValidateParent(c, t) \/ BeginCancel(c, t)
             \/ \E B \in SUBSET Tasks : CreateTask(c, t, B)
      PROVE  ForestInv'
  BY <1>3, ForestCalls, ForestValidate, ForestCreate
<1>4. ASSUME NEW c \in Calls, Abort(c)
      PROVE  ForestInv'
  <2>1. UNCHANGED rows /\ call' = [call EXCEPT ![c] = Idle] /\ Idle.pc # "insert"
    BY <1>4 DEF Abort, Return, Idle
  <2> QED
    BY <2>1, ForestQuiet
<1> QED
  BY <1>1, <1>2, <1>3, <1>4 DEF Next

\* However many subtasks are created at once, the tasks stay a forest that is never
\* deeper than validateParent allows: a depth counted before other calls have inserted
\* and cancelled is still the depth when its own insert comes.
THEOREM ForestStaysBounded == Spec => []ForestBounded
<1>1. Init => ForestInv
  <2>1. Init => /\ \A t \in Tasks : ~Exists(t)
                /\ \A c \in Calls : call[c].pc = "idle"
    BY DEF Init, Exists, Absent, Idle
  <2> QED
    BY <2>1 DEF ForestInv
<1>2. ForestInv => ForestBounded
  BY DEF ForestInv, ForestBounded
<1> QED
  BY <1>1, <1>2, ForestStep, Invariance, PTL DEF Spec

-----------------------------------------------------------------------------
(***************************************************************************)
(* Calls that do not overlap implement the abstract board.  The invariant  *)
(* says of the one call in flight what is still so of the rows it has      *)
(* read: the copy to save is one transition away from its row, the parent  *)
(* of a subtask is open, and a cascade has locked a part of the subtree    *)
(* below which all that is open is still on its list.                      *)
(***************************************************************************)

Open(t) == Exists(t) /\ rows[t].status \notin Terminal
Written(c) == {t \in Tasks : lock[t] = c}

Cascading(c, k) ==
  /\ \A t \in Written(c) : Open(t) /\ k.written[t].status = "cancelled"
  /\ \A t \in Written(c) \ {k.root} : rows[t].parent \in Written(c)
  /\ \A t \in k.todo \ {k.root} : rows[t].parent \in Written(c)
  /\ \A t \in Tasks : Open(t) /\ rows[t].parent \in Written(c) =>
       \/ t \in Written(c) \cup k.todo
       \/ k.pc = "subtasks" /\ rows[t].parent = k.task
  /\ k.root \in Written(c) \/ (Written(c) = {} /\ k.todo \subseteq {k.root})
  /\ k.pc \in {"saveInTx", "subtasks"} => k.task \in k.todo
  /\ k.pc = "saveInTx" => Open(k.task) /\ k.row.status = "cancelled"
  /\ k.pc = "subtasks" => k.task \in Written(c)

\* What call k, of slot c, has read is still so, for nobody else changes it.
StillSo(c, k) ==
  /\ k.pc = "save" =>
       \/ k.row.status = rows[k.task].status
       \/ k.row.status \in ValidTransitions[rows[k.task].status]
  /\ k.pc = "insert" => Open(k.root)
  /\ k.pc \in InTransaction => Cascading(c, k)

SerialInv == part = "serial" => OneAtATime /\ \A c \in Calls : StillSo(c, call[c])

\* In the serial behaviours the board shows the rows.
LEMMA BoardShows ==
  ASSUME part = "serial", NEW t \in Tasks
  PROVE  /\ SerialBoard!Exists(t) <=> Exists(t)
         /\ SerialBoard!Open(t) <=> Open(t)
BY DEF SerialBoard!Exists, SerialBoard!Open, SerialBoard!Terminal, Exists, Open,
       Terminal, Board!Terminal

\* A step that changes no status and no parent is none of the board.
LEMMA BoardStays ==
  ASSUME part' = part,
         part = "serial" => \A t \in Tasks : rows'[t].status = rows[t].status
                                             /\ rows'[t].parent = rows[t].parent
  PROVE  UNCHANGED SerialBoard!boardVars
BY DEF SerialBoard!boardVars

\* Where calls do not overlap the others are idle when one is made or goes on.
LEMMA OthersIdle ==
  ASSUME IInv, OneAtATime, OneAtATime', NEW c \in Calls, NEW new \in Call,
         call' = [call EXCEPT ![c] = new], ~At(c, "idle") \/ new.pc # "idle"
  PROVE  \A d \in Calls \ {c} : call'[d].pc = "idle"
<1>1. call \in [Calls -> Call]
  BY DEF IInv, CallsInv
<1>2. \A d \in Calls \ {c} : call'[d] = call[d]
  BY <1>1
<1>3. call'[c] = new
  BY <1>1
<1>4. CASE ~At(c, "idle")
  BY <1>2, <1>4 DEF OneAtATime, InFlight, At
<1>5. CASE new.pc # "idle"
  BY <1>3, <1>5 DEF OneAtATime, InFlight, At
<1>6. QED
  BY <1>4, <1>5

\* The call that is made or goes on has read what is still so.
LEMMA SerialGoesOn ==
  ASSUME IInv, SerialInv, part = "serial", part' = part, OneAtATime',
         NEW c \in Calls, NEW new \in Call,
         call' = [call EXCEPT ![c] = new], ~At(c, "idle") \/ new.pc # "idle",
         StillSo(c, new)'
  PROVE  SerialInv'
<1>1. \A d \in Calls \ {c} : call'[d].pc = "idle"
  BY OthersIdle DEF SerialInv
<1>2. call'[c] = new
  BY DEF IInv, CallsInv
<1>3. \A d \in Calls : StillSo(d, call[d])'
  BY <1>1, <1>2 DEF StillSo, InTransaction
<1>4. QED
  BY <1>3 DEF SerialInv

LEMMA IdleStillSo ==
  ASSUME NEW c
  PROVE  StillSo(c, Idle)' /\ StillSo(c, Idle)
BY DEF StillSo, Idle, InTransaction

\* The board does nothing, and the call has read what is so.
LEMMA QuietGoesOn ==
  ASSUME IInv, SerialInv, part = "serial", part' = part, OneAtATime', UNCHANGED rows,
         NEW c \in Calls, NEW new \in Call,
         call' = [call EXCEPT ![c] = new], ~At(c, "idle") \/ new.pc # "idle",
         StillSo(c, new)'
  PROVE  SerialInv' /\ UNCHANGED SerialBoard!boardVars
BY SerialGoesOn, BoardStays

-----------------------------------------------------------------------------
\* Updates read.
LEMMA SerialRead ==
  ASSUME IInv, SerialInv, part = "serial", part' = part, OneAtATime',
         NEW c \in Calls, NEW t \in Tasks, NEW copy \in Row, Read(c, t, copy),
         copy.status = rows[t].status \/ copy.status \in ValidTransitions[rows[t].status]
  PROVE  SerialInv' /\ UNCHANGED SerialBoard!boardVars
<1>1. PICK new : new = [Idle EXCEPT !.pc = "save", !.task = t, !.row = copy]
  OBVIOUS
<1>2. new \in Call /\ new.pc = "save" /\ new.task = t /\ new.row = copy
  BY <1>1, IdleFits DEF Call
<1>3. call' = [call EXCEPT ![c] = new] /\ UNCHANGED rows
  BY <1>1 DEF Read
<1>4. StillSo(c, new)'
  BY <1>2, <1>3 DEF StillSo, InTransaction
<1>5. QED
  BY <1>2, <1>3, <1>4, QuietGoesOn

LEMMA SerialUpdates ==
  ASSUME IInv, SerialInv, part = "serial", part' = part, OneAtATime',
         NEW c \in Calls, NEW t \in Tasks,
         \/ \E target \in Statuses : UpdateStatus(c, t, target)
         \/ EditTask(c, t) \/ AssignTaskToAgent(c, t)
  PROVE  SerialInv' /\ UNCHANGED SerialBoard!boardVars
<1>1. rows[t] \in Row
  BY DEF IInv, RowsInv
<1>2. CASE EditTask(c, t)
  BY <1>1, <1>2, SerialRead DEF EditTask
<1>3. ASSUME NEW target \in ValidTransitions[rows[t].status], target \in Statuses,
             Read(c, t, Transition(rows[t], target))
      PROVE  SerialInv' /\ UNCHANGED SerialBoard!boardVars
  <2>1. PICK copy : copy = Transition(rows[t], target)
    OBVIOUS
  <2>2. copy \in Row /\ copy.status = target
    BY <1>1, <1>3, <2>1 DEF Transition, Row
  <2>3. Read(c, t, copy)
    BY <1>3, <2>1
  <2>4. QED
    BY <1>3, <2>2, <2>3, SerialRead
<1>4. CASE AssignTaskToAgent(c, t)
  <2>1. "in_progress" \in ValidTransitions[rows[t].status] /\ "in_progress" \in Statuses
    BY <1>4 DEF AssignTaskToAgent, ValidTransitions, Board!ValidTransitions, Statuses,
                Board!Statuses
  <2>2. QED
    BY <1>3, <1>4, <2>1 DEF AssignTaskToAgent
<1>5. ASSUME NEW target \in Statuses, UpdateStatus(c, t, target)
      PROVE  SerialInv' /\ UNCHANGED SerialBoard!boardVars
  BY <1>3, <1>5 DEF UpdateStatus
<1>6. QED
  BY <1>2, <1>4, <1>5

\* A subtask is validated, or a cascade begins.
LEMMA SerialBegins ==
  ASSUME IInv, SerialInv, part = "serial", part' = part, OneAtATime',
         NEW c \in Calls, NEW t \in Tasks, ValidateParent(c, t) \/ BeginCancel(c, t)
  PROVE  SerialInv' /\ UNCHANGED SerialBoard!boardVars
<1>1. CASE ValidateParent(c, t)
  <2>1. PICK new : new = [Idle EXCEPT !.pc = "insert", !.root = t]
    OBVIOUS
  <2>2. new \in Call /\ new.pc = "insert" /\ new.root = t
    BY <2>1, IdleFits DEF Call
  <2>3. call' = [call EXCEPT ![c] = new] /\ UNCHANGED rows /\ Open(t)
    BY <1>1, <2>1 DEF ValidateParent, Open
  <2>4. StillSo(c, new)'
    BY <2>2, <2>3 DEF StillSo, InTransaction, Open, Exists
  <2>5. QED
    BY <2>2, <2>3, <2>4, QuietGoesOn
<1>2. CASE BeginCancel(c, t)
  <2>1. PICK new : new = [Idle EXCEPT !.pc = "visit", !.root = t, !.todo = {t}]
    OBVIOUS
  <2>2. new \in Call /\ new.pc = "visit" /\ new.root = t /\ new.todo = {t}
    BY <2>1, IdleFits DEF Call
  <2>3. call' = [call EXCEPT ![c] = new] /\ UNCHANGED <<rows, lock>>
    BY <1>2, <2>1 DEF BeginCancel
  <2>4. Written(c)' = {}
    BY <1>2, <2>3 DEF Written, IInv, CallsInv, BeginCancel, At, InTransaction
  <2>5. Cascading(c, new)'
    BY <2>2, <2>4 DEF Cascading
  <2>6. StillSo(c, new)'
    BY <2>2, <2>5 DEF StillSo
  <2>7. QED
    BY <2>2, <2>3, <2>6, QuietGoesOn
<1>3. QED
  BY <1>1, <1>2

\* A call breaks off.
LEMMA SerialAbort ==
  ASSUME IInv, SerialInv, part = "serial", part' = part, OneAtATime',
         NEW c \in Calls, Abort(c)
  PROVE  SerialInv' /\ UNCHANGED SerialBoard!boardVars
BY IdleFits, IdleStillSo, QuietGoesOn DEF Abort, Return

-----------------------------------------------------------------------------
\* Steps of a cascade change neither the rows nor the root and what it has written.
LEMMA CascadeGoesOn ==
  ASSUME IInv, SerialInv, part = "serial", part' = part, OneAtATime', UNCHANGED rows,
         NEW c \in Calls, call[c].pc \in InTransaction,
         NEW new \in Call, call' = [call EXCEPT ![c] = new],
         new.pc \in InTransaction, Cascading(c, new)'
  PROVE  SerialInv' /\ UNCHANGED SerialBoard!boardVars
<1>1. ~At(c, "idle")
  BY DEF At, InTransaction
<1>2. StillSo(c, new)'
  BY DEF StillSo, InTransaction
<1>3. QED
  BY <1>1, <1>2, QuietGoesOn

\* What SerialInv says of a call in a cascade.
LEMMA OneCascade ==
  ASSUME IInv, SerialInv, part = "serial", NEW c \in Calls, call[c].pc \in InTransaction
  PROVE  \E k \in Call : k = call[c] /\ CallFits(k) /\ Cascading(c, k)
BY OneCall DEF SerialInv, StillSo

\* The cascade leaves a terminal task out, or copies an open one.
LEMMA SerialVisit ==
  ASSUME IInv, SerialInv, part = "serial", part' = part, OneAtATime',
         NEW c \in Calls, CancelVisit(c)
  PROVE  SerialInv' /\ UNCHANGED SerialBoard!boardVars
<1>1. PICK t \in call[c].todo :
        /\ At(c, "visit")
        /\ \/ /\ rows[t].status \in Terminal
              /\ call' = [call EXCEPT ![c].todo = @ \ {t}]
           \/ /\ rows[t].status \notin Terminal
              /\ call' = [call EXCEPT ![c].pc = "saveInTx", ![c].task = t,
                                      ![c].row = Transition(rows[t], "cancelled")]
        /\ UNCHANGED <<rows, lock>>
  BY Zenon DEF CancelVisit
<1>2. call[c].pc \in InTransaction /\ call \in [Calls -> Call]
  BY <1>1, OneCall DEF At, InTransaction
<1>3. PICK k \in Call : k = call[c] /\ CallFits(k) /\ Cascading(c, k)
  BY <1>2, OneCascade
<1>4. t \in Tasks /\ Exists(t) /\ t \in k.todo /\ k.pc = "visit"
  BY <1>1, <1>3 DEF CallFits, Call, At
<1>5. CASE rows[t].status \in Terminal
  <2>1. PICK new : new = [k EXCEPT !.todo = k.todo \ {t}]
    OBVIOUS
  <2>2. /\ new \in Call /\ new.pc = "visit" /\ new.todo = k.todo \ {t}
        /\ new.root = k.root /\ new.written = k.written
    BY <1>3, <1>4, <2>1 DEF Call
  <2>3. call' = [call EXCEPT ![c] = new]
    BY <1>1, <1>2, <1>3, <1>5, <2>1 DEF Call
  <2>4. ~Open(t)
    BY <1>5 DEF Open
  <2>5. Cascading(c, new)
    BY <1>3, <1>4, <2>2, <2>4 DEF Cascading
  <2>6. Cascading(c, new)'
    BY <1>1, <2>5 DEF Cascading, Written, Open, Exists
  <2>7. QED
    BY <1>1, <1>2, <2>2, <2>3, <2>6, CascadeGoesOn DEF InTransaction
<1>6. CASE rows[t].status \notin Terminal
  <2>1. PICK row : row = Transition(rows[t], "cancelled")
    OBVIOUS
  <2>2. row \in Row /\ row.status = "cancelled"
    <3>1. rows[t] \in Row /\ "cancelled" \in Statuses
      BY <1>4 DEF IInv, RowsInv, Statuses, Board!Statuses
    <3>2. QED
      BY <2>1, <3>1 DEF Transition, Row
  <2>3. PICK new : new = [k EXCEPT !.pc = "saveInTx", !.task = t, !.row = row]
    OBVIOUS
  <2>4. /\ new \in Call /\ new.pc = "saveInTx" /\ new.task = t /\ new.row = row
        /\ new.todo = k.todo /\ new.root = k.root /\ new.written = k.written
    BY <1>3, <1>4, <2>2, <2>3 DEF Call
  <2>5. call' = [call EXCEPT ![c] = new]
    BY <1>1, <1>2, <1>3, <1>6, <2>1, <2>3 DEF Call
  <2>6. Open(t)
    BY <1>4, <1>6 DEF Open
  <2>7. Cascading(c, new)
    BY <1>3, <1>4, <2>2, <2>4, <2>6 DEF Cascading
  <2>8. Cascading(c, new)'
    BY <1>1, <2>7 DEF Cascading, Written, Open, Exists
  <2>9. QED
    BY <1>1, <1>2, <2>4, <2>5, <2>8, CascadeGoesOn DEF InTransaction
<1>7. QED
  BY <1>1, <1>5, <1>6

\* The cascade writes the copy; the open children of the task are not on its list yet.
LEMMA SerialCancelSave ==
  ASSUME IInv, SerialInv, part = "serial", part' = part, OneAtATime',
         NEW c \in Calls, CancelSave(c)
  PROVE  SerialInv' /\ UNCHANGED SerialBoard!boardVars
<1>1. call[c].pc \in InTransaction /\ call \in [Calls -> Call]
  BY OneCall DEF CancelSave, At, InTransaction
<1>2. PICK k \in Call : k = call[c] /\ CallFits(k) /\ Cascading(c, k)
  BY <1>1, OneCascade
<1>3. PICK t \in Tasks : t = k.task
  BY <1>2 DEF CallFits, CopyOf, CancelSave, At
<1>4. k.pc = "saveInTx" /\ t \in k.todo /\ Open(t) /\ k.row.status = "cancelled" /\ k.row \in Row
  BY <1>2, <1>3 DEF Cascading, CancelSave, At, Call
<1>5. PICK new : new = [k EXCEPT !.pc = "subtasks", !.written[t] = k.row]
  OBVIOUS
<1>6. /\ new \in Call /\ new.pc = "subtasks" /\ new.task = t /\ new.todo = k.todo
      /\ new.root = k.root /\ new.written = [k.written EXCEPT ![t] = k.row]
  BY <1>2, <1>3, <1>4, <1>5 DEF Call
<1>7. call' = [call EXCEPT ![c] = new] /\ lock' = [lock EXCEPT ![t] = c] /\ UNCHANGED rows
  BY <1>1, <1>2, <1>3, <1>5 DEF CancelSave, Call
<1>8. PICK W : W = Written(c)
  OBVIOUS
<1>9. W \subseteq Tasks /\ Written(c)' = W \cup {t}
  BY <1>7, <1>8 DEF Written, IInv, CallsInv
<1>10. \A u \in Tasks : Open(u)' <=> Open(u)
  BY <1>7 DEF Open, Exists
<1>11. \A u \in W \cup {t} : Open(u) /\ new.written[u].status = "cancelled"
  <2>1. k.written \in [Tasks -> Row]
    BY <1>2 DEF Call
  <2>2. \A u \in W : Open(u) /\ k.written[u].status = "cancelled"
    BY <1>2, <1>8 DEF Cascading
  <2>3. QED
    BY <1>4, <1>6, <1>9, <2>1, <2>2
<1>12. \A u \in (W \cup {t}) \ {k.root} : rows[u].parent \in W
  BY <1>2, <1>4, <1>8 DEF Cascading
<1>13. \A u \in Tasks : Open(u) /\ rows[u].parent \in W \cup {t} =>
         u \in W \cup k.todo \/ rows[u].parent = t
  BY <1>2, <1>4, <1>8 DEF Cascading
<1>14. k.root \in W \cup {t}
  BY <1>2, <1>4, <1>8 DEF Cascading
<1>15. \A u \in k.todo \ {k.root} : rows[u].parent \in W
  BY <1>2, <1>8 DEF Cascading
<1>16. Cascading(c, new)'
  BY <1>4, <1>6, <1>7, <1>9, <1>10, <1>11, <1>12, <1>13, <1>14, <1>15 DEF Cascading
<1>17. QED
  BY <1>1, <1>6, <1>7, <1>16, CascadeGoesOn DEF InTransaction

\* The cascade puts the children on its list.
LEMMA SerialSubtasks ==
  ASSUME IInv, SerialInv, part = "serial", part' = part, OneAtATime',
         NEW c \in Calls, CancelSubtasks(c)
  PROVE  SerialInv' /\ UNCHANGED SerialBoard!boardVars
<1>1. call[c].pc \in InTransaction /\ call \in [Calls -> Call]
  BY OneCall DEF CancelSubtasks, At, InTransaction
<1>2. PICK k \in Call : k = call[c] /\ CallFits(k) /\ Cascading(c, k)
  BY <1>1, OneCascade
<1>3. k.pc = "subtasks" /\ k.task \in Written(c)
  BY <1>2 DEF Cascading, CancelSubtasks, At
<1>4. PICK todo : todo = (k.todo \ {k.task}) \cup Children(k.task)
  OBVIOUS
<1>5. PICK new : new = [k EXCEPT !.pc = "visit", !.todo = todo]
  OBVIOUS
<1>6. todo \subseteq Tasks
  BY <1>2, <1>4 DEF Call, Children
<1>7. new \in Call /\ new.pc = "visit" /\ new.todo = todo /\ new.root = k.root
      /\ new.written = k.written
  BY <1>2, <1>5, <1>6 DEF Call
<1>8. call' = [call EXCEPT ![c] = new] /\ UNCHANGED <<rows, lock>>
  BY <1>1, <1>2, <1>4, <1>5 DEF CancelSubtasks, Call
<1>9. Cascading(c, new)
  BY <1>2, <1>3, <1>4, <1>7 DEF Cascading, Children
<1>10. Cascading(c, new)'
  BY <1>8, <1>9 DEF Cascading, Written, Open, Exists
<1>11. QED
  BY <1>1, <1>7, <1>8, <1>10, CascadeGoesOn DEF InTransaction

-----------------------------------------------------------------------------
\* A save is a transition of the board, or nothing to it.
LEMMA SerialSave ==
  ASSUME IInv, SerialInv, part = "serial", part' = part, OneAtATime',
         NEW c \in Calls, Save(c)
  PROVE  SerialInv' /\ [SerialBoard!Next]_(SerialBoard!boardVars)
<1>1. PICK k \in Call : k = call[c] /\ CallFits(k) /\ StillSo(c, k) /\ k.pc = "save"
  BY OneCall DEF SerialInv, Save, At
<1>2. PICK t \in Tasks : t = k.task
  BY <1>1 DEF CallFits, CopyOf
<1>3. PICK row \in Row : row = k.row
  BY <1>1 DEF Call
<1>4. row.parent = rows[t].parent /\ Exists(t)
  BY <1>1, <1>2, <1>3 DEF CallFits, CopyOf
<1>5. rows' = [rows EXCEPT ![t] = row] /\ call' = [call EXCEPT ![c] = Idle]
  BY <1>1, <1>2, <1>3 DEF Save, Return
<1>6. rows \in [Tasks -> Row]
  BY DEF IInv, RowsInv
<1>7. SerialInv'
  BY <1>5, IdleFits, IdleStillSo, SerialGoesOn DEF Save, At
<1>8. CASE row.status = rows[t].status
  BY <1>4, <1>5, <1>6, <1>7, <1>8, BoardStays
<1>9. CASE row.status \in ValidTransitions[rows[t].status]
  <2>1. row.status \in SerialBoard!Statuses
    <3>1. row.status \in Statuses
      BY <1>1, <1>3 DEF CallFits, CopyOf, Row
    <3>2. QED
      BY <3>1 DEF Statuses, Board!Statuses, SerialBoard!Statuses
  <2>2. row.status \in SerialBoard!ValidTransitions[rows[t].status]
    BY <1>9 DEF ValidTransitions, Board!ValidTransitions, SerialBoard!ValidTransitions
  <2>3. SerialBoard!Exists(t)
    BY <1>4, BoardShows
  <2>4. SerialBoard!Move(t, row.status)
    <3>1. [u \in Tasks |-> IF part' = "serial" THEN rows'[u].status ELSE "absent"]
            = [[u \in Tasks |-> IF part = "serial" THEN rows[u].status ELSE "absent"]
                 EXCEPT ![t] = row.status]
      BY <1>5, <1>6
    <3>2. [u \in Tasks |-> IF part' = "serial" THEN rows'[u].parent ELSE NoTask]
            = [u \in Tasks |-> IF part = "serial" THEN rows[u].parent ELSE NoTask]
      BY <1>4, <1>5, <1>6
    <3>3. row.status \in
            SerialBoard!ValidTransitions[[u \in Tasks |->
               IF part = "serial" THEN rows[u].status ELSE "absent"][t]]
      BY <2>2
    <3>4. QED
      BY <2>3, <3>1, <3>2, <3>3 DEF SerialBoard!Move
  <2>5. QED
    BY <1>7, <2>1, <2>4 DEF SerialBoard!Next
<1>10. QED
  BY <1>1, <1>2, <1>3, <1>8, <1>9 DEF StillSo

\* An insert creates a task of the board.
LEMMA SerialInsert ==
  ASSUME IInv, part = "serial", part' = part, NEW t \in Tasks, NEW p \in Tasks \cup {NoTask},
         NEW B \in SUBSET Tasks, Insert(t, p, B), p # NoTask => Open(p)
  PROVE  SerialBoard!Next
<1>1. PICK s \in {"draft", "pending"} :
        rows' = [rows EXCEPT ![t] = [Absent EXCEPT !.status = s, !.parent = p, !.blockedBy = B]]
  BY DEF Insert
<1>2. PICK new : new = [Absent EXCEPT !.status = s, !.parent = p, !.blockedBy = B]
  OBVIOUS
<1>3. rows' = [rows EXCEPT ![t] = new] /\ new.status = s /\ new.parent = p
  BY <1>1, <1>2 DEF Absent
<1>4. rows \in [Tasks -> Row] /\ ~SerialBoard!Exists(t)
  BY BoardShows DEF IInv, RowsInv, Insert
<1>5. p # NoTask => SerialBoard!Open(p)
  BY BoardShows
<1>6. [u \in Tasks |-> IF part' = "serial" THEN rows'[u].status ELSE "absent"]
        = [[u \in Tasks |-> IF part = "serial" THEN rows[u].status ELSE "absent"] EXCEPT ![t] = s]
  BY <1>3, <1>4
<1>7. [u \in Tasks |-> IF part' = "serial" THEN rows'[u].parent ELSE NoTask]
        = [[u \in Tasks |-> IF part = "serial" THEN rows[u].parent ELSE NoTask] EXCEPT ![t] = p]
  BY <1>3, <1>4
<1>8. SerialBoard!Create(t, p)
  BY <1>4, <1>5, <1>6, <1>7 DEF SerialBoard!Create
<1>9. QED
  BY <1>8 DEF SerialBoard!Next

\* A task may be created at any time: it is a root, and no call knows of it.
LEMMA SerialCreate ==
  ASSUME IInv, SerialInv, part = "serial", part' = part, OneAtATime',
         NEW c \in Calls, NEW t \in Tasks, NEW B \in SUBSET Tasks, CreateTask(c, t, B)
  PROVE  SerialInv' /\ SerialBoard!Next
<1>1. ~Exists(t) /\ rows \in [Tasks -> Row] /\ UNCHANGED <<lock, call>>
  BY DEF CreateTask, Insert, IInv, RowsInv
<1>2. rows'[t].parent = NoTask /\ \A u \in Tasks \ {t} : rows'[u] = rows[u]
  BY <1>1 DEF CreateTask, Insert, Absent
<1>3. \A u \in Tasks : Exists(u) => rows'[u] = rows[u]
  BY <1>1, <1>2
<1>4. \A u \in Tasks : Open(u) => Open(u)'
  BY <1>3 DEF Open, Exists
<1>5. \A u \in Tasks : Open(u)' => u = t \/ Open(u)
  BY <1>2 DEF Open, Exists
<1>6. ASSUME NEW d \in Calls
      PROVE  StillSo(d, call[d])'
  <2>1. PICK k \in Call : k = call[d] /\ CallFits(k) /\ StillSo(d, k)
    BY OneCall DEF SerialInv
  <2>2. Written(d)' = Written(d) /\ NoTask \notin Written(d) /\ t \notin Written(d)
    <3>1. \A u \in Tasks : lock[u] = d => Exists(u)
      BY OneCall DEF CopyOf
    <3>2. QED
      BY <1>1, <3>1, TasksAssumption DEF Written
  <2>3. k.pc = "save" => rows'[k.task] = rows[k.task]
    BY <1>3, <2>1 DEF CallFits, CopyOf
  <2>4. k.pc = "insert" => Open(k.root)'
    BY <1>4, <2>1 DEF CallFits, StillSo
  <2>5. ASSUME Cascading(d, k)
        PROVE  Cascading(d, k)'
    <3>1. PICK W : W = Written(d)
      OBVIOUS
    <3>2. \A u \in k.todo \cup W : u \in Tasks /\ rows'[u] = rows[u]
      <4>1. \A u \in k.todo : u \in Tasks /\ rows'[u] = rows[u]
        BY <1>3, <2>1 DEF CallFits, Call
      <4>2. QED
        BY <1>2, <2>2, <3>1, <4>1 DEF Written
    <3>3. \A u \in W : Open(u)' /\ k.written[u].status = "cancelled"
      BY <1>4, <2>5, <3>1, <3>2 DEF Cascading
    <3>4. \A u \in Tasks : Open(u)' /\ rows'[u].parent \in W =>
            u \in W \cup k.todo \/ (k.pc = "subtasks" /\ rows'[u].parent = k.task)
      BY <1>2, <1>5, <2>2, <2>5, <3>1 DEF Cascading
    <3>5. k.pc = "saveInTx" => Open(k.task)'
      BY <1>4, <2>1, <2>5 DEF Cascading, CallFits, CopyOf
    <3>6. QED
      BY <2>2, <2>5, <3>1, <3>2, <3>3, <3>4, <3>5 DEF Cascading
  <2>6. StillSo(d, k)'
    BY <2>1, <2>3, <2>4, <2>5 DEF StillSo
  <2>7. QED
    BY <1>1, <2>1, <2>6
<1>7. SerialInv'
  BY <1>6 DEF SerialInv
<1>8. SerialBoard!Next
  BY SerialInsert DEF CreateTask
<1>9. QED
  BY <1>7, <1>8

\* A subtask is created under a task that is still open.
LEMMA SerialCreateSub ==
  ASSUME IInv, SerialInv, part = "serial", part' = part, OneAtATime',
         NEW c \in Calls, NEW t \in Tasks, NEW B \in SUBSET Tasks, CreateSubTask(c, t, B)
  PROVE  SerialInv' /\ SerialBoard!Next
<1>1. call[c].root \in Tasks /\ Open(call[c].root)
  BY OneCall DEF CreateSubTask, At, CallFits, SerialInv, StillSo
<1>2. SerialInv'
  BY IdleFits, IdleStillSo, SerialGoesOn DEF CreateSubTask, Return, At
<1>3. SerialBoard!Next
  BY <1>1, SerialInsert DEF CreateSubTask
<1>4. QED
  BY <1>2, <1>3

\* A commit cancels the open tasks of a subtree at once, or finds the root terminal.
LEMMA SerialCommit ==
  ASSUME IInv, SerialInv, part = "serial", part' = part, OneAtATime',
         NEW c \in Calls, CancelCommit(c)
  PROVE  SerialInv' /\ [SerialBoard!Next]_(SerialBoard!boardVars)
<1>1. call[c].pc \in InTransaction
  BY DEF CancelCommit, At, InTransaction
<1>2. PICK k \in Call : k = call[c] /\ CallFits(k) /\ Cascading(c, k)
  BY <1>1, OneCascade
<1>3. PICK W \in SUBSET Tasks : W = Written(c)
  BY DEF Written
<1>4. k.todo = {} /\ k.pc = "visit"
  BY <1>2 DEF CancelCommit, At
<1>5. SerialInv'
  BY IdleFits, IdleStillSo, SerialGoesOn DEF CancelCommit, Return, At
<1>6. rows \in [Tasks -> Row]
  BY DEF IInv, RowsInv
<1>7. \A t \in Tasks : rows'[t] = IF t \in W THEN k.written[t] ELSE rows[t]
  BY <1>2, <1>3 DEF CancelCommit, Written
<1>8. \A t \in W : /\ k.written[t].status = "cancelled"
                   /\ k.written[t].parent = rows[t].parent
  <2>1. \A t \in W : CopyOf(call[c].written[t], t)
    BY <1>3, OneCall DEF Written
  <2>2. QED
    BY <1>2, <1>3, <2>1 DEF Cascading, CopyOf
<1>9. CASE W = {}
  BY <1>5, <1>7, <1>9, BoardStays
<1>10. CASE W # {}
  <2>1. PICK root \in Tasks : root = k.root /\ root \in W
    BY <1>2, <1>3, <1>10 DEF Cascading
  <2>2. /\ \A t \in W : Open(t)
        /\ \A t \in W \ {root} : rows[t].parent \in W
        /\ \A t \in Tasks : Open(t) /\ rows[t].parent \in W => t \in W
    BY <1>2, <1>3, <1>4, <2>1 DEF Cascading
  <2>3. SerialBoard!Cascade(root, W)
    BY <2>1, <2>2, BoardShows DEF SerialBoard!Cascade
  <2>4. [u \in Tasks |-> IF part' = "serial" THEN rows'[u].status ELSE "absent"]
          = [u \in Tasks |-> IF u \in W THEN "cancelled"
               ELSE [v \in Tasks |-> IF part = "serial" THEN rows[v].status ELSE "absent"][u]]
    BY <1>7, <1>8
  <2>5. [u \in Tasks |-> IF part' = "serial" THEN rows'[u].parent ELSE NoTask]
          = [u \in Tasks |-> IF part = "serial" THEN rows[u].parent ELSE NoTask]
    BY <1>7, <1>8
  <2>6. SerialBoard!CancelTree(root)
    BY <2>3, <2>4, <2>5 DEF SerialBoard!CancelTree
  <2>7. QED
    BY <1>5, <2>6 DEF SerialBoard!Next
<1>11. QED
  BY <1>9, <1>10

-----------------------------------------------------------------------------
LEMMA SerialStep ==
  ASSUME IInv, SerialInv, part = "serial", part' = part, OneAtATime', Next
  PROVE  SerialInv' /\ [SerialBoard!Next]_(SerialBoard!boardVars)
<1>1. ASSUME NEW c \in Calls, Step(c)
      PROVE  SerialInv' /\ [SerialBoard!Next]_(SerialBoard!boardVars)
  BY <1>1, SerialSave, SerialVisit, SerialCancelSave, SerialSubtasks, SerialCommit,
     SerialCreateSub
  DEF Step
<1>2. ASSUME NEW c \in Calls, NEW t \in Tasks,
             \/ \E s \in Statuses : UpdateStatus(c, t, s)
             \/ EditTask(c, t) \/ AssignTaskToAgent(c, t)
             \/ ValidateParent(c, t) \/ BeginCancel(c, t)
             \/ \E B \in SUBSET Tasks : CreateTask(c, t, B)
      PROVE  SerialInv' /\ [SerialBoard!Next]_(SerialBoard!boardVars)
  BY <1>2, SerialUpdates, SerialBegins, SerialCreate
<1>3. QED
  BY <1>1, <1>2, SerialAbort DEF Next

\* In the behaviours that overlap the board stays empty.
LEMMA OverlappingStep ==
  ASSUME part # "serial", part' = part
  PROVE  SerialInv' /\ UNCHANGED SerialBoard!boardVars
BY BoardStays DEF SerialInv

LEMMA TasksStep ==
  ASSUME IInv, SerialInv, [TasksNext]_tasksVars
  PROVE  SerialInv' /\ [SerialBoard!Next]_(SerialBoard!boardVars)
<1>1. CASE UNCHANGED tasksVars
  <2>1. UNCHANGED <<part, rows, lock, call>>
    BY <1>1 DEF tasksVars, vars
  <2>2. UNCHANGED SerialBoard!boardVars
    BY <2>1, BoardStays
  <2>3. SerialInv'
    BY <2>1 DEF SerialInv, OneAtATime, InFlight, At, StillSo, Cascading, Written, Open, Exists
  <2>4. QED
    BY <2>2, <2>3
<1>2. CASE TasksNext /\ part = "serial"
  BY <1>2, SerialStep DEF TasksNext
<1>3. CASE TasksNext /\ part # "serial"
  BY <1>3, OverlappingStep DEF TasksNext
<1>4. QED
  BY <1>1, <1>2, <1>3

LEMMA TasksStart ==
  ASSUME TasksInit
  PROVE  IInv /\ SerialInv /\ SerialBoard!Init
<1>1. IInv
  BY InitInv DEF TasksInit
<1>2. \A c \in Calls : call[c] = Idle /\ call[c].pc = "idle"
  BY DEF TasksInit, Init, Idle
<1>3. SerialInv
  BY <1>2, IdleStillSo DEF SerialInv, OneAtATime, InFlight, At
<1>4. \A t \in Tasks : rows[t].status = "absent" /\ rows[t].parent = NoTask
  BY DEF TasksInit, Init, Absent
<1>5. SerialBoard!Init
  BY <1>4 DEF SerialBoard!Init
<1>6. QED
  BY <1>1, <1>3, <1>5

\* Calls that do not overlap implement the board: creations, updates and cascades that
\* read, save and commit in steps are one step of it each, whatever breaks off.
THEOREM ImplementsBoard == TasksSpec => SerialImplementsBoard
<1>1. IInv /\ [TasksNext]_tasksVars => IInv'
  BY StepInv DEF TasksNext, tasksVars
<1>2. QED
  BY <1>1, TasksStart, TasksStep, PTL DEF TasksSpec, SerialImplementsBoard, SerialBoard!Spec
=============================================================================
