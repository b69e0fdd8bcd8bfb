-------------------------- MODULE HumanInterrupts --------------------------
(***************************************************************************)
(* Human in the loop: a turn shows a widget and ends, and the user's       *)
(* answer, a request of its own, goes on with it.  The three records that  *)
(* must fit together are the event log (service/eventstore), the table of  *)
(* interrupts (configrepo/interrupt_repository.go) and the message queue   *)
(* of the session; EventStream.persistAndPublish writes the first two when *)
(* the turn asks, ResumeInterrupt (app/chat_http_adapter.go) all three     *)
(* when the user answers.  Each write may fail, and the server may stop    *)
(* between any two.                                                        *)
(***************************************************************************)
EXTENDS Nil, Naturals

CONSTANTS
  Interrupts,  \* ids of widgets
  Resumers,    \* requests that answer; each answers again when it is done
  MaxEvents    \* bound: resume events logged for one interrupt

ASSUME InterruptAssumption ==
  /\ None \notin Interrupts
  /\ MaxEvents \in Nat

VARIABLES
  asking,      \* per interrupt, how far the turn that asks has got
  requested,   \* the interrupts whose request event is in session_event_log
  row,         \* table interrupts
  resumeLog,   \* number of resume events of each interrupt in session_event_log
  resumer,     \* per request, where it is, what it answers, its event
  unstored,    \* interrupts with a write that failed (history)
  answers      \* messages queued for each interrupt (history)

interruptVars == <<asking, requested, row, resumeLog, resumer, unstored, answers>>

NoAnswer == [pc |-> "idle", interrupt |-> None, event |-> 0]

InterruptTypeOK ==
  /\ asking \in [Interrupts -> {"not", "append", "create", "publish", "shown", "gone"}]
  /\ requested \subseteq Interrupts
  /\ row \in [Interrupts -> [status : {"none", "pending", "resolved"}, event : 0..MaxEvents]]
  /\ resumeLog \in [Interrupts -> 0..MaxEvents]
  /\ resumer \in [Resumers -> [pc : {"idle", "load", "append", "resolve", "agent", "enqueue"},
                               interrupt : Interrupts \cup {None}, event : 0..MaxEvents]]
  /\ \A q \in Resumers : resumer[q].pc # "idle" => resumer[q].interrupt \in Interrupts
  /\ \A q \in Resumers : resumer[q].pc \in {"resolve", "agent", "enqueue"} =>
       resumer[q].event \in 1..resumeLog[resumer[q].interrupt]
  /\ unstored \subseteq Interrupts
  /\ answers \in [Interrupts -> Nat]

InterruptInit ==
  /\ asking = [i \in Interrupts |-> "not"]
  /\ requested = {}
  /\ row = [i \in Interrupts |-> [status |-> "none", event |-> 0]]
  /\ resumeLog = [i \in Interrupts |-> 0]
  /\ resumer = [q \in Resumers |-> NoAnswer]
  /\ unstored = {}
  /\ answers = [i \in Interrupts |-> 0]

-----------------------------------------------------------------------------
(* A turn asks: persistAndPublish of an interrupt request                  *)

AskingGoto(i, step) == asking' = [asking EXCEPT ![i] = step]

\* A tool emits the widget under an id of its own.
Ask(i) ==
  /\ asking[i] = "not"
  /\ AskingGoto(i, "append")
  /\ UNCHANGED <<requested, row, resumeLog, resumer, unstored, answers>>

\* Store.Append; without the event's id no row is written.
AppendRequest(i) ==
  /\ asking[i] = "append"
  /\ \/ requested' = requested \cup {i} /\ AskingGoto(i, "create") /\ UNCHANGED unstored
     \/ unstored' = unstored \cup {i} /\ AskingGoto(i, "publish") /\ UNCHANGED requested
  /\ UNCHANGED <<row, resumeLog, resumer, answers>>

\* Create stamps the row pending; an error is only logged.
CreateRow(i) ==
  /\ asking[i] = "create"
  /\ \/ row' = [row EXCEPT ![i].status = "pending"] /\ UNCHANGED unstored
     \/ unstored' = unstored \cup {i} /\ UNCHANGED row
  /\ AskingGoto(i, "publish")
  /\ UNCHANGED <<requested, resumeLog, resumer, answers>>

\* Variant: the widget is shown before its row is written.
PublishBeforeCreate(i) ==
  /\ asking[i] \in {"create", "publish"}
  /\ AskingGoto(i, "shown")
  /\ UNCHANGED <<requested, row, resumeLog, resumer, unstored, answers>>

PublishRequest(i) ==
  /\ asking[i] = "publish"
  /\ AskingGoto(i, "shown")
  /\ UNCHANGED <<requested, row, resumeLog, resumer, unstored, answers>>

-----------------------------------------------------------------------------
(* The user answers: ResumeInterrupt                                       *)

ResumerAt(q, step) == resumer[q].pc = step
ResumerGoto(q, step) == resumer' = [resumer EXCEPT ![q].pc = step]
GiveUp(q) == resumer' = [resumer EXCEPT ![q] = NoAnswer]

\* The client answers a widget it was shown, now or again later.
Answer(q, i) ==
  /\ ResumerAt(q, "idle") /\ asking[i] = "shown"
  /\ resumer' = [resumer EXCEPT ![q] = [pc |-> "load", interrupt |-> i, event |-> 0]]
  /\ UNCHANGED <<asking, requested, row, resumeLog, unstored, answers>>

\* LoadWithRequestEvent joins row and request event: 404 without them, and 409
\* when the row is not pending.
LoadWithRequestEvent(q) ==
  LET i == resumer[q].interrupt IN
  /\ ResumerAt(q, "load")
  /\ IF i \in requested /\ row[i].status = "pending" THEN ResumerGoto(q, "append")
                                                     ELSE GiveUp(q)
  /\ UNCHANGED <<asking, requested, row, resumeLog, unstored, answers>>

\* Store.Append of the answer; its id goes into the row later.
AppendResume(q) ==
  LET i == resumer[q].interrupt IN
  /\ ResumerAt(q, "append") /\ resumeLog[i] < MaxEvents
  /\ resumeLog' = [resumeLog EXCEPT ![i] = @ + 1]
  /\ resumer' = [resumer EXCEPT ![q].pc = "resolve", ![q].event = resumeLog[i] + 1]
  /\ UNCHANGED <<asking, requested, row, unstored, answers>>

\* Variant: the status read by LoadWithRequestEvent is relied on.
MarkResolvedAlways(q) ==
  LET i == resumer[q].interrupt IN
  /\ ResumerAt(q, "resolve")
  /\ row' = [row EXCEPT ![i] = [status |-> "resolved", event |-> resumer[q].event]]
  /\ ResumerGoto(q, "agent")
  /\ UNCHANGED <<asking, requested, resumeLog, unstored, answers>>

\* Variant: the row is resolved before the event has its id.
MarkResolvedWithoutEvent(q) ==
  LET i == resumer[q].interrupt IN
  /\ ResumerAt(q, "append")
  /\ IF row[i].status = "pending"
       THEN /\ row' = [row EXCEPT ![i] = [status |-> "resolved", event |-> resumer[q].event]]
            /\ ResumerGoto(q, "agent")
       ELSE UNCHANGED row /\ GiveUp(q)
  /\ UNCHANGED <<asking, requested, resumeLog, unstored, answers>>

\* UPDATE ... WHERE id = ? AND status = 'pending': a later caller gets a 409.
MarkResolved(q) ==
  LET i == resumer[q].interrupt IN
  /\ ResumerAt(q, "resolve")
  /\ IF row[i].status = "pending"
       THEN /\ row' = [row EXCEPT ![i] = [status |-> "resolved", event |-> resumer[q].event]]
            /\ ResumerGoto(q, "agent")
       ELSE UNCHANGED row /\ GiveUp(q)
  /\ UNCHANGED <<asking, requested, resumeLog, unstored, answers>>

\* The entry agent of the schema is looked up only now.
FindEntryAgent(q) ==
  /\ ResumerAt(q, "agent")
  /\ ResumerGoto(q, "enqueue")
  /\ UNCHANGED <<asking, requested, row, resumeLog, unstored, answers>>

EnqueueAnswer(q) ==
  /\ ResumerAt(q, "enqueue")
  /\ answers' = [answers EXCEPT ![resumer[q].interrupt] = @ + 1]
  /\ GiveUp(q)
  /\ UNCHANGED <<asking, requested, row, resumeLog, unstored>>

\* The statement fails, the agent is gone or the queue is full: an early return
\* that leaves what was written before.
FailAnswer(q) ==
  /\ ~ResumerAt(q, "idle")
  /\ GiveUp(q)
  /\ UNCHANGED <<asking, requested, row, resumeLog, unstored, answers>>

-----------------------------------------------------------------------------

\* The server stops and starts.  A widget that was not yet shown never will be.
InterruptRestart ==
  /\ resumer' = [q \in Resumers |-> NoAnswer]
  /\ asking' = [i \in Interrupts |->
                   IF asking[i] \in {"append", "create", "publish"} THEN "gone" ELSE asking[i]]
  /\ UNCHANGED <<requested, row, resumeLog, unstored, answers>>

InterruptNext ==
  \/ \E i \in Interrupts : Ask(i) \/ AppendRequest(i) \/ CreateRow(i) \/ PublishRequest(i)
  \/ \E q \in Resumers :
       \/ \E i \in Interrupts : Answer(q, i)
       \/ LoadWithRequestEvent(q) \/ AppendResume(q) \/ MarkResolved(q)
       \/ FindEntryAgent(q) \/ EnqueueAnswer(q) \/ FailAnswer(q)
  \/ InterruptRestart

InterruptSpec == InterruptInit /\ [][InterruptNext]_interruptVars

-----------------------------------------------------------------------------
(* Properties                                                              *)

\* An answer reaches the agent at most once, however many requests resume the
\* interrupt at the same time, or again after a failure or a restart: the second
\* reader of "pending" loses in MarkResolved.
AnsweredOnce == \A i \in Interrupts : answers[i] <= 1

\* The three records fit, whichever write failed: an answer was queued only for a
\* resolved interrupt, a resolved interrupt names a resume event in the log, and a
\* row names a request event in the log.
RecordsFit ==
  \A i \in Interrupts :
    /\ answers[i] > 0 => row[i].status = "resolved"
    /\ row[i].status = "resolved" => row[i].event \in 1..resumeLog[i]
    /\ row[i].status # "none" => i \in requested

\* A widget that a client sees can be answered: its row was written first, unless
\* a write failed, which persistAndPublish logs and goes on.
WidgetAnswerable ==
  \A i \in Interrupts : asking[i] = "shown" /\ i \notin unstored => row[i].status # "none"

(* However requests, failed writes and restarts fall together, an interrupt is answered   *)
(* once, and its events, its row and what the client was shown of it fit together         *)
(* (EventStream.persistAndPublish, ResumeInterrupt).                                      *)
InterruptsAnswered == AnsweredOnce /\ RecordsFit /\ WidgetAnswerable
=============================================================================
