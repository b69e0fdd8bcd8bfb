---------------------------- MODULE SerialTasks ---------------------------
(***************************************************************************)
(* The task store with callers that wait for one another, next to the one  *)
(* whose calls overlap: made one at a time, the calls implement the board  *)
(* of TaskBoard.                                                           *)
(***************************************************************************)
EXTENDS EngineTaskProperties

CONSTANT Parts  \* of "serial" and "overlapping", the kinds of behaviour to consider

VARIABLE part  \* whether calls overlap in this behaviour

tasksVars == <<part, vars>>

InFlight == {c \in Calls : ~At(c, "idle")}
OneAtATime == \A c, d \in InFlight : c = d

TasksInit == part \in Parts /\ Init
TasksNext == Next /\ UNCHANGED part /\ (part = "serial" => OneAtATime')
TasksSpec == TasksInit /\ [][TasksNext]_tasksVars

\* The board of the behaviours whose calls do not overlap; in the others it stays empty.
SerialBoard == INSTANCE TaskBoard WITH
  status <- [t \in Tasks |-> IF part = "serial" THEN rows[t].status ELSE "absent"],
  parent <- [t \in Tasks |-> IF part = "serial" THEN rows[t].parent ELSE NoTask]

-----------------------------------------------------------------------------
(* Properties                                                                *)

(* Calls that do not overlap implement the abstract board: each is one creation, one    *)
(* transition or one cascade of it (engine_task.go:77, task_repository.go:189).         *)
SerialImplementsBoard == SerialBoard!Spec
=============================================================================
