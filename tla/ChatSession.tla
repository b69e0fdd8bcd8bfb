--------------------------- MODULE ChatSession ---------------------------
(***************************************************************************)
(* A chat turn end to end: the HTTP adapter (app/chat_http_adapter.go),    *)
(* the processing loops (service/sessionprocessor/processor.go) and the    *)
(* session registry they share.                                            *)
(*                                                                         *)
(* Two kinds of goroutines run.  A request process is Chat (or             *)
(* ResumeInterrupt) followed by the fan-out goroutine it starts.  A loop   *)
(* process is processMessages, named by the request whose StartProcessing  *)
(* launched it.  Both are cut into steps where the code releases a lock.   *)
(***************************************************************************)
EXTENDS SessionRegistry, FiniteSets

CONSTANTS
  Resumes,     \* the requests that are HITL resumes (ResumeInterrupt)
  Confirming,  \* the turns in which a tool asks for confirmation
  MaxChunks,   \* bound: answer chunks a turn may publish
  Overlap,     \* FALSE: a client waits for its stream to close before the next request
  Cancels      \* the sessions whose turns users cancel

ASSUME ChatAssumption ==
  /\ Resumes \subseteq Requests
  /\ Confirming \subseteq Requests
  /\ MaxChunks \in Nat
  /\ Overlap \in BOOLEAN
  /\ Cancels \subseteq Sessions

VARIABLES
  active,       \* p.active: the loop registered for a session
  turnsActive,  \* p.turnsActive
  pool,         \* AgentPool proxy and callback of a session: the turn that set them
  request,      \* the request processes
  loop,         \* the loop processes
  stopped,      \* loops whose context StopProcessing cancelled
  aborted,      \* turns whose own context was cancelled by Cancel
  chunks,       \* chunks published by a turn
  decision,     \* what RequestConfirmation returned to the tool of a turn
  answered,     \* turns whose user confirmed (history)
  stream        \* what the fan-out forwarded to the client of a request

processorVars == <<active, turnsActive, pool, loop, stopped, aborted,
                   chunks, decision, answered>>
vars == <<registryVars, processorVars, request, stream>>

RequestSteps == {"new", "create", "subscribe", "insert", "enqueue", "offer", "refuse",
                 "start", "stream", "unsubscribe", "stop", "remove", "close",
                 "finished", "refused"}

\* Steps in which a loop publishes an event, the kind of the event, the next step.
Published == [user |-> "user", started |-> "started", chunk |-> "chunk",
              question |-> "question", error |-> "error", done |-> "done",
              noModel |-> "error", noModelDone |-> "done"]
\* Variants: the path without a model forgets "done"; "error" follows "done"; the
\* turn goes on after "error".
NextStepNoDone == [user |-> "started", started |-> "executor", chunk |-> "execute",
                   question |-> "waiting", error |-> "done", done |-> "clearCancel",
                   noModel |-> "clearTurn", noModelDone |-> "clearTurn"]
NextStepErrorLast == [user |-> "started", started |-> "executor", chunk |-> "execute",
                      question |-> "waiting", error |-> "clearCancel", done |-> "error",
                      noModel |-> "noModelDone", noModelDone |-> "clearTurn"]
NextStepErrorGoesOn == [user |-> "started", started |-> "executor", chunk |-> "execute",
                        question |-> "waiting", error |-> "execute", done |-> "clearCancel",
                        noModel |-> "noModelDone", noModelDone |-> "clearTurn"]

NextStep == [user |-> "started", started |-> "executor", chunk |-> "execute",
             question |-> "waiting", error |-> "done", done |-> "clearCancel",
             noModel |-> "noModelDone", noModelDone |-> "clearTurn"]

LoopSteps == {"off", "channel", "select", "context", "mark", "executor", "register",
              "storeCancel", "execute", "ask", "waiting", "unregister", "clearCancel",
              "dropPool", "clearTurn", "exit", "gone"} \cup DOMAIN Published

\* Event kinds convertSessionEventToSSE does not drop.
Forwarded == {"chunk", "question", "error", "done"}

Maybe == Requests \cup {NoOne}

InTurn(l) == loop[l].pc \notin {"off", "channel", "select", "exit", "gone"}

\* A loop that receives has a channel, one in a turn a message: neither is ever nil.
LoopFits(l) ==
  /\ loop[l].pc = "select" \/ InTurn(l) => loop[l].src # NoOne
  /\ InTurn(l) => loop[l].msg # NoOne

TypeOK ==
  /\ RegistryTypeOK
  /\ active \in [Sessions -> Maybe]
  /\ turnsActive \in [Sessions -> BOOLEAN]
  /\ pool \in [Sessions -> Maybe]
  /\ request \in [Requests -> [pc : RequestSteps, sub : Maybe, target : Maybe]]
  /\ loop \in [Requests -> [pc : LoopSteps, src : Maybe, msg : Maybe, target : Maybe]]
  /\ stopped \in SUBSET Requests
  /\ aborted \in SUBSET Requests
  /\ chunks \in [Requests -> 0..MaxChunks]
  /\ decision \in [Requests -> {"none", "yes", "no"}]
  /\ answered \in SUBSET Requests
  /\ stream \in [Requests -> Seq(Events)]
  /\ \A l \in Requests : LoopFits(l)

Init ==
  /\ RegistryInit
  /\ active = [s \in Sessions |-> NoOne]
  /\ turnsActive = [s \in Sessions |-> FALSE]
  /\ pool = [s \in Sessions |-> NoOne]
  /\ request = [r \in Requests |-> [pc |-> "new", sub |-> NoOne, target |-> NoOne]]
  /\ loop = [l \in Requests |->
               [pc |-> "off", src |-> NoOne, msg |-> NoOne, target |-> NoOne]]
  /\ stopped = {}
  /\ aborted = {}
  /\ chunks = [t \in Requests |-> 0]
  /\ decision = [t \in Requests |-> "none"]
  /\ answered = {}
  /\ stream = [r \in Requests |-> <<>>]

At(r, step) == request[r].pc = step
Goto(r, step) == request' = [request EXCEPT ![r].pc = step]

LoopAt(l, step) == loop[l].pc = step
LoopGoto(l, step) == loop' = [loop EXCEPT ![l].pc = step]

-----------------------------------------------------------------------------
(* Chat and ResumeInterrupt                                                *)

Over(r) == request[r].pc \in {"finished", "refused"}

\* HasSession decides whether this request creates the session.
Arrive(r) ==
  /\ At(r, "new")
  /\ Overlap \/ \A q \in Requests :
                  SessionOf[q] = SessionOf[r] => At(q, "new") \/ Over(q)
  /\ Goto(r, IF HasSession(SessionOf[r]) THEN "subscribe" ELSE "create")
  /\ UNCHANGED <<registryVars, processorVars, stream>>

Create(r) ==
  /\ At(r, "create")
  /\ CreateSession(SessionOf[r], r)
  /\ Goto(r, "subscribe")
  /\ UNCHANGED <<processorVars, stream>>

SubscribeLookup(r) ==
  LET e == sessions[SessionOf[r]] IN
  /\ At(r, "subscribe")
  /\ \/ /\ e = NoOne
        /\ SubscribeToMissing(r)
        /\ Goto(r, "enqueue")
     \/ /\ e # NoOne
        /\ request' = [request EXCEPT ![r].pc = "insert", ![r].sub = e]
        /\ UNCHANGED registryVars
  /\ UNCHANGED <<processorVars, stream>>

SubscribeInsert(r) ==
  /\ At(r, "insert")
  /\ AddSubscriber(request[r].sub, r)
  /\ Goto(r, "enqueue")
  /\ UNCHANGED <<processorVars, stream>>

EnqueueLookup(r) ==
  LET e == sessions[SessionOf[r]] IN
  /\ At(r, "enqueue")
  /\ request' = [request EXCEPT ![r].pc = IF e = NoOne THEN "refuse" ELSE "offer",
                                ![r].target = e]
  /\ UNCHANGED <<registryVars, processorVars, stream>>

EnqueueSend(r) ==
  LET e == request[r].target IN
  /\ At(r, "offer")
  /\ \/ /\ Len(messageCh[e]) < MessageBuffer
        /\ Offer(e, r)
        /\ Goto(r, "start")
     \/ /\ Len(messageCh[e]) >= MessageBuffer
        /\ Goto(r, "refuse")
        /\ UNCHANGED registryVars
  /\ UNCHANGED <<processorVars, stream>>

\* The enqueue error path: unsubscribe and answer with an error.
Refuse(r) ==
  /\ At(r, "refuse")
  /\ Unsubscribe(request[r].sub, r)
  /\ Goto(r, "refused")
  /\ UNCHANGED <<processorVars, stream>>

\* StartProcessing, the last call of Chat before its fan-out goroutine runs.
StartProcessing(r) ==
  LET s == SessionOf[r] IN
  /\ At(r, "start")
  /\ \/ active[s] # NoOne /\ UNCHANGED <<active, loop>>
     \/ /\ active[s] = NoOne
        /\ active' = [active EXCEPT ![s] = r]
        /\ LoopGoto(r, "channel")
  /\ Goto(r, "stream")
  /\ UNCHANGED <<registryVars, turnsActive, pool, stopped, aborted, chunks,
                 decision, answered, stream>>

\* Variant: the fan-out also returns after "error".
ForwardUntilError(r) ==
  /\ At(r, "stream")
  /\ channel[r].buf # <<>>
  /\ TakeEvent(r)
  /\ LET ev == Head(channel[r].buf) IN
       /\ stream' = IF ev.kind \in Forwarded THEN [stream EXCEPT ![r] = Append(@, ev)]
                                             ELSE stream
       /\ Goto(r, IF ev.kind \in {"error", "done"} THEN "unsubscribe" ELSE "stream")
  /\ UNCHANGED processorVars

\* The fan-out forwards one event, and returns after forwarding "done".
Forward(r) ==
  /\ At(r, "stream")
  /\ channel[r].buf # <<>>
  /\ TakeEvent(r)
  /\ LET ev == Head(channel[r].buf) IN
       /\ stream' = IF ev.kind \in Forwarded THEN [stream EXCEPT ![r] = Append(@, ev)]
                                             ELSE stream
       /\ Goto(r, IF ev.kind = "done" THEN "unsubscribe" ELSE "stream")
  /\ UNCHANGED processorVars

\* The range loop ends when the channel is closed and drained.
ChannelClosed(r) ==
  /\ At(r, "stream")
  /\ channel[r].buf = <<>> /\ channel[r].closed
  /\ Goto(r, "unsubscribe")
  /\ UNCHANGED <<registryVars, processorVars, stream>>

\* The deferred calls of the fan-out, in the order they run.
DeferUnsubscribe(r) ==
  /\ At(r, "unsubscribe")
  /\ Unsubscribe(request[r].sub, r)
  /\ Goto(r, "stop")
  /\ UNCHANGED <<processorVars, stream>>

StopProcessing(r) ==
  LET s == SessionOf[r] IN
  /\ At(r, "stop")
  /\ stopped' = stopped \cup ({active[s]} \ {NoOne})
  /\ active' = [active EXCEPT ![s] = NoOne]
  /\ Goto(r, "remove")
  /\ UNCHANGED <<registryVars, turnsActive, pool, loop, aborted, chunks,
                 decision, answered, stream>>

RemoveDetach(r) ==
  LET e == sessions[SessionOf[r]] IN
  /\ At(r, "remove")
  /\ Detach(SessionOf[r])
  /\ request' = [request EXCEPT ![r].pc = IF e = NoOne THEN "finished" ELSE "close",
                                ![r].target = e]
  /\ UNCHANGED <<processorVars, stream>>

\* Closing the entry is the last deferred call but close(sseCh), which ends the response.
RemoveClose(r) ==
  /\ At(r, "close")
  /\ CloseEntry(request[r].target)
  /\ Goto(r, "finished")
  /\ UNCHANGED <<processorVars, stream>>

RequestStep(r) ==
  \/ Create(r) \/ SubscribeLookup(r) \/ SubscribeInsert(r)
  \/ EnqueueLookup(r) \/ EnqueueSend(r) \/ Refuse(r) \/ StartProcessing(r)
  \/ Forward(r) \/ ChannelClosed(r)
  \/ DeferUnsubscribe(r) \/ StopProcessing(r) \/ RemoveDetach(r) \/ RemoveClose(r)

-----------------------------------------------------------------------------
(* processMessages and processMessage                                      *)

Turn(l) == loop[l].msg

\* turnCtx and the contexts derived from it.
TurnCancelled(l) == l \in stopped \/ Turn(l) \in aborted

\* Variant: what a closed channel yields is taken for a message.
OpenChannelUnchecked(l) ==
  LET e == sessions[SessionOf[l]] IN
  /\ LoopAt(l, "channel")
  /\ loop' = [loop EXCEPT ![l].pc = IF e = NoOne THEN "context" ELSE "select", ![l].src = e]
  /\ UNCHANGED <<registryVars, active, turnsActive, pool, stopped, aborted, chunks,
                 decision, answered, request, stream>>

\* MessageChannel: a missing session yields a closed channel, which ends the loop.
OpenChannel(l) ==
  LET e == sessions[SessionOf[l]] IN
  /\ LoopAt(l, "channel")
  /\ loop' = [loop EXCEPT ![l].pc = IF e = NoOne THEN "exit" ELSE "select", ![l].src = e]
  /\ UNCHANGED <<registryVars, active, turnsActive, pool, stopped, aborted, chunks,
                 decision, answered, request, stream>>

\* The two ready cases of the select; Go picks either when both are.
SelectDone(l) ==
  /\ LoopAt(l, "select") /\ l \in stopped
  /\ LoopGoto(l, "exit")
  /\ UNCHANGED <<registryVars, active, turnsActive, pool, stopped, aborted, chunks,
                 decision, answered, request, stream>>

SelectMessage(l) ==
  LET e == loop[l].src IN
  /\ LoopAt(l, "select") /\ messageCh[e] # <<>>
  /\ Receive(e)
  /\ loop' = [loop EXCEPT ![l].pc = "context", ![l].msg = Head(messageCh[e])]
  /\ UNCHANGED <<active, turnsActive, pool, stopped, aborted, chunks,
                 decision, answered, request, stream>>

\* GetSessionContext: without a session the message is dropped.
SessionContext(l) ==
  /\ LoopAt(l, "context")
  /\ LoopGoto(l, IF HasSession(SessionOf[l]) THEN "mark" ELSE "select")
  /\ UNCHANGED <<registryVars, active, turnsActive, pool, stopped, aborted, chunks,
                 decision, answered, request, stream>>

MarkTurn(l) ==
  /\ LoopAt(l, "mark")
  /\ turnsActive' = [turnsActive EXCEPT ![SessionOf[l]] = TRUE]
  /\ LoopGoto(l, IF Turn(l) \in Resumes THEN "started" ELSE "user")
  /\ UNCHANGED <<registryVars, active, pool, stopped, aborted, chunks,
                 decision, answered, request, stream>>

\* PublishEvent, first half: no session, no event.
PublishLookup(l) ==
  LET step == loop[l].pc
      e == sessions[SessionOf[l]] IN
  /\ step \in DOMAIN Published /\ loop[l].target = NoOne
  /\ loop' = [loop EXCEPT ![l].pc = IF e = NoOne THEN NextStep[step] ELSE step,
                          ![l].target = e]
  /\ UNCHANGED <<registryVars, active, turnsActive, pool, stopped, aborted, chunks,
                 decision, answered, request, stream>>

PublishDeliver(l) ==
  LET step == loop[l].pc IN
  /\ step \in DOMAIN Published /\ loop[l].target # NoOne
  /\ PublishTo(loop[l].target, [kind |-> Published[step], turn |-> Turn(l)])
  /\ loop' = [loop EXCEPT ![l].pc = NextStep[step], ![l].target = NoOne]
  /\ UNCHANGED <<active, turnsActive, pool, stopped, aborted, chunks,
                 decision, answered, request, stream>>

\* CreateForSession succeeds, or returns nil when no model is configured.
CreateExecutor(l) ==
  /\ LoopAt(l, "executor")
  /\ LoopGoto(l, "register") \/ LoopGoto(l, "noModel")
  /\ UNCHANGED <<registryVars, active, turnsActive, pool, stopped, aborted, chunks,
                 decision, answered, request, stream>>

RegisterWithPool(l) ==
  /\ LoopAt(l, "register")
  /\ pool' = [pool EXCEPT ![SessionOf[l]] = Turn(l)]
  /\ LoopGoto(l, "storeCancel")
  /\ UNCHANGED <<registryVars, active, turnsActive, stopped, aborted, chunks,
                 decision, answered, request, stream>>

StoreCancel(l) ==
  /\ LoopAt(l, "storeCancel")
  /\ StoreTurnCancel(SessionOf[l], Turn(l))
  /\ LoopGoto(l, "execute")
  /\ UNCHANGED <<active, turnsActive, pool, stopped, aborted, chunks,
                 decision, answered, request, stream>>

\* ExecuteTurn: emits chunks, runs a tool that asks for confirmation, returns.
EmitChunk(l) ==
  LET t == Turn(l) IN
  /\ LoopAt(l, "execute") /\ chunks[t] < MaxChunks
  /\ chunks' = [chunks EXCEPT ![t] = @ + 1]
  /\ LoopGoto(l, "chunk")
  /\ UNCHANGED <<registryVars, active, turnsActive, pool, stopped, aborted,
                 decision, answered, request, stream>>

CallConfirmedTool(l) ==
  LET t == Turn(l) IN
  /\ LoopAt(l, "execute") /\ t \in Confirming /\ decision[t] = "none"
  /\ LoopGoto(l, "ask")
  /\ UNCHANGED <<registryVars, active, turnsActive, pool, stopped, aborted, chunks,
                 decision, answered, request, stream>>

\* A failed turn publishes ERROR, unless its context was cancelled.
ReturnFromTurn(l) ==
  /\ LoopAt(l, "execute")
  /\ LoopGoto(l, "done") \/ (~TurnCancelled(l) /\ LoopGoto(l, "error"))
  /\ UNCHANGED <<registryVars, active, turnsActive, pool, stopped, aborted, chunks,
                 decision, answered, request, stream>>

\* RequestConfirmation registers a reply channel, publishes the question, waits.
AskUser(l) ==
  /\ LoopAt(l, "ask")
  /\ RegisterAskUser(SessionOf[l], Turn(l))
  /\ LoopGoto(l, "question")
  /\ UNCHANGED <<active, turnsActive, pool, stopped, aborted, chunks,
                 decision, answered, request, stream>>

\* Variant: any reply approves.
ApprovesAny(reply) == reply # "empty"

\* The reply received from a closed channel is "", which is not a denial.
Approves(reply) == reply \in {"yes", "closed"}

Decide(l, verdict) ==
  /\ decision' = [decision EXCEPT ![Turn(l)] = verdict]
  /\ LoopGoto(l, "unregister")
  /\ UNCHANGED <<registryVars, active, turnsActive, pool, stopped, aborted, chunks,
                 answered, request, stream>>

ReceiveReply(l) ==
  /\ LoopAt(l, "waiting") /\ replyCh[Turn(l)] # "empty"
  /\ Decide(l, IF Approves(replyCh[Turn(l)]) THEN "yes" ELSE "no")

\* The 60 second timer fires, or the context of the tool call is cancelled.
ConfirmTimeout(l) == LoopAt(l, "waiting") /\ Decide(l, "no")

Unregister(l) ==
  /\ LoopAt(l, "unregister")
  /\ UnregisterAskUser(SessionOf[l], Turn(l))
  /\ LoopGoto(l, "execute")
  /\ UNCHANGED <<active, turnsActive, pool, stopped, aborted, chunks,
                 decision, answered, request, stream>>

\* The deferred calls of processMessage, after "done" was published.
ClearCancel(l) ==
  /\ LoopAt(l, "clearCancel")
  /\ StoreTurnCancel(SessionOf[l], NoOne)
  /\ LoopGoto(l, "dropPool")
  /\ UNCHANGED <<active, turnsActive, pool, stopped, aborted, chunks,
                 decision, answered, request, stream>>

DropPool(l) ==
  /\ LoopAt(l, "dropPool")
  /\ pool' = [pool EXCEPT ![SessionOf[l]] = NoOne]
  /\ LoopGoto(l, "clearTurn")
  /\ UNCHANGED <<registryVars, active, turnsActive, stopped, aborted, chunks,
                 decision, answered, request, stream>>

ClearTurn(l) ==
  /\ LoopAt(l, "clearTurn")
  /\ turnsActive' = [turnsActive EXCEPT ![SessionOf[l]] = FALSE]
  /\ LoopGoto(l, "select")
  /\ UNCHANGED <<registryVars, active, pool, stopped, aborted, chunks,
                 decision, answered, request, stream>>

\* The deferred delete of processMessages, by session and not by loop.
Exit(l) ==
  /\ LoopAt(l, "exit")
  /\ active' = [active EXCEPT ![SessionOf[l]] = NoOne]
  /\ LoopGoto(l, "gone")
  /\ UNCHANGED <<registryVars, turnsActive, pool, stopped, aborted, chunks,
                 decision, answered, request, stream>>

LoopStep(l) ==
  \/ OpenChannel(l) \/ SelectDone(l) \/ SelectMessage(l) \/ SessionContext(l)
  \/ MarkTurn(l) \/ PublishLookup(l) \/ PublishDeliver(l) \/ CreateExecutor(l)
  \/ RegisterWithPool(l) \/ StoreCancel(l) \/ EmitChunk(l) \/ CallConfirmedTool(l)
  \/ ReturnFromTurn(l) \/ AskUser(l) \/ ReceiveReply(l) \/ ConfirmTimeout(l)
  \/ Unregister(l) \/ ClearCancel(l) \/ DropPool(l) \/ ClearTurn(l) \/ Exit(l)

-----------------------------------------------------------------------------
(* The user                                                                *)

\* Cancel interrupts the turn whose cancel function the entry holds.
Cancel(s) ==
  /\ s \in Cancels /\ HasSession(s)
  /\ aborted' = aborted \cup ({turnCancelFn[sessions[s]]} \ {NoOne})
  /\ aborted' # aborted
  /\ UNCHANGED <<registryVars, active, turnsActive, pool, loop, stopped, chunks,
                 decision, answered, request, stream>>

\* The user answers a confirmation question.
Reply(t, reply) ==
  /\ SendAskUserReply(SessionOf[t], t, reply)
  /\ answered' = IF reply = "yes" THEN answered \cup {t} ELSE answered
  /\ UNCHANGED <<active, turnsActive, pool, loop, stopped, aborted, chunks,
                 decision, request, stream>>

Next ==
  \/ \E r \in Requests : Arrive(r) \/ RequestStep(r) \/ LoopStep(r)
  \/ \E s \in Sessions : Cancel(s)
  \/ \E t \in Requests, reply \in {"yes", "no"} : Reply(t, reply)

Spec == Init /\ [][Next]_vars

\* Goroutines are scheduled; nobody has to send a request, cancel or reply.
Fairness == \A r \in Requests : WF_vars(RequestStep(r)) /\ WF_vars(LoopStep(r))

FairSpec == Spec /\ Fairness
=============================================================================
