------------------------- MODULE SessionRegistry -------------------------
(***************************************************************************)
(* The in-memory registry of server-streaming sessions,                    *)
(* infrastructure/flowregistry/session_registry.go.                        *)
(*                                                                         *)
(* r.mu guards the map of sessions, entry.mu guards what one entry holds,  *)
(* and no operation holds both: an operation looks its entry up under      *)
(* r.mu and works on that entry after releasing it.  The operators below   *)
(* are the critical sections; a caller that needs two of them takes two    *)
(* steps, with whatever other goroutines do in between.                    *)
(*                                                                         *)
(* One HTTP request creates at most one entry, opens at most one           *)
(* subscription and enqueues at most one message, so the request itself    *)
(* names the entry, the subscriber channel and the message.                *)
(***************************************************************************)
EXTENDS Naturals, Sequences

CONSTANTS
  Sessions,          \* session identifiers
  Requests,          \* chat requests: also name entries, subscribers, messages
  NoOne,             \* stands for nil
  SessionOf,         \* the session a request is addressed to
  SubscriberBuffer,  \* capacity of a subscriber channel (64 in the code)
  MessageBuffer      \* capacity of messageCh (32 in the code)

ASSUME RegistryAssumption ==
  /\ NoOne \notin Requests
  /\ SessionOf \in [Requests -> Sessions]
  /\ SubscriberBuffer \in Nat
  /\ MessageBuffer \in Nat

EventKinds == {"user", "started", "chunk", "question", "error", "done"}

\* An event is produced while the message of one request, the turn, is handled.
Events == [kind : EventKinds, turn : Requests]

VARIABLES
  sessions,     \* r.sessions: the entry of each session
  messageCh,    \* per entry, the queued user messages
  subscribers,  \* per entry, the registered subscriber channels
  channel,      \* per subscriber, its buffered events and whether it is closed
  askReplies,   \* per entry, the turns with a registered reply channel
  replyCh,      \* per turn, the content of its reply channel
  turnCancelFn  \* per entry, the turn that Cancel would interrupt

registryVars == <<sessions, messageCh, subscribers, channel,
                  askReplies, replyCh, turnCancelFn>>

Replies == {"empty", "yes", "no", "closed"}

RegistryTypeOK ==
  /\ sessions \in [Sessions -> Requests \cup {NoOne}]
  /\ messageCh \in [Requests -> Seq(Requests)]
  /\ subscribers \in [Requests -> SUBSET Requests]
  /\ channel \in [Requests -> [buf : Seq(Events), closed : BOOLEAN]]
  /\ askReplies \in [Requests -> SUBSET Requests]
  /\ replyCh \in [Requests -> Replies]
  /\ turnCancelFn \in [Requests -> Requests \cup {NoOne}]

RegistryInit ==
  /\ sessions = [s \in Sessions |-> NoOne]
  /\ messageCh = [e \in Requests |-> <<>>]
  /\ subscribers = [e \in Requests |-> {}]
  /\ channel = [r \in Requests |-> [buf |-> <<>>, closed |-> FALSE]]
  /\ askReplies = [e \in Requests |-> {}]
  /\ replyCh = [t \in Requests |-> "empty"]
  /\ turnCancelFn = [e \in Requests |-> NoOne]

-----------------------------------------------------------------------------
(* Critical sections of r.mu                                               *)

HasSession(s) == sessions[s] # NoOne

\* CreateSession replaces whatever entry the session has; the new one, named
\* by the request that makes it, is empty.
CreateSession(s, e) ==
  /\ sessions' = [sessions EXCEPT ![s] = e]
  /\ UNCHANGED <<messageCh, subscribers, channel, askReplies, replyCh, turnCancelFn>>

\* First half of RemoveSession: the entry leaves the map.
Detach(s) ==
  /\ sessions' = [sessions EXCEPT ![s] = NoOne]
  /\ UNCHANGED <<messageCh, subscribers, channel, askReplies, replyCh, turnCancelFn>>

-----------------------------------------------------------------------------
(* Critical sections of entry.mu, on an entry looked up before             *)

\* Second half of Subscribe.
AddSubscriber(e, r) ==
  /\ subscribers' = [subscribers EXCEPT ![e] = @ \cup {r}]
  /\ UNCHANGED <<sessions, messageCh, channel, askReplies, replyCh, turnCancelFn>>

\* Subscribe on a missing session hands out a channel that is already closed.
SubscribeToMissing(r) ==
  /\ channel' = [channel EXCEPT ![r].closed = TRUE]
  /\ UNCHANGED <<sessions, messageCh, subscribers, askReplies, replyCh, turnCancelFn>>

\* The cleanup function Subscribe returns; it forgets the channel but never closes it.
Unsubscribe(e, r) ==
  /\ subscribers' = [f \in Requests |->
                       IF f = e THEN subscribers[f] \ {r} ELSE subscribers[f]]
  /\ UNCHANGED <<sessions, messageCh, channel, askReplies, replyCh, turnCancelFn>>

\* Variant: the event reaches the subscribers of every entry.
PublishToAll(e, ev) ==
  /\ channel' = [r \in Requests |->
                   IF \E f \in Requests : r \in subscribers[f]
                     THEN [channel[r] EXCEPT !.buf = Append(@, ev)]
                     ELSE channel[r]]
  /\ UNCHANGED <<sessions, messageCh, subscribers, askReplies, replyCh, turnCancelFn>>

\* PublishEvent under entry.mu: a subscriber whose buffer is full loses the event.
PublishTo(e, ev) ==
  /\ channel' = [r \in Requests |->
                   IF r \in subscribers[e] /\ Len(channel[r].buf) < SubscriberBuffer
                     THEN [channel[r] EXCEPT !.buf = Append(@, ev)]
                     ELSE channel[r]]
  /\ UNCHANGED <<sessions, messageCh, subscribers, askReplies, replyCh, turnCancelFn>>

\* The non-blocking send of EnqueueMessage, when there is room.
Offer(e, m) ==
  /\ messageCh' = [messageCh EXCEPT ![e] = Append(@, m)]
  /\ UNCHANGED <<sessions, subscribers, channel, askReplies, replyCh, turnCancelFn>>

\* Variant: the message is read but stays in the queue.
Peek(e) == UNCHANGED registryVars

\* The processing loop's receive from MessageChannel.
Receive(e) ==
  /\ messageCh' = [messageCh EXCEPT ![e] = Tail(@)]
  /\ UNCHANGED <<sessions, subscribers, channel, askReplies, replyCh, turnCancelFn>>

\* The range loop over a subscriber channel takes the next event.
TakeEvent(r) ==
  /\ channel' = [channel EXCEPT ![r].buf = Tail(@)]
  /\ UNCHANGED <<sessions, messageCh, subscribers, askReplies, replyCh, turnCancelFn>>

\* Variant: closed subscriber channels stay registered.
CloseEntryKeepingThem(e) ==
  /\ channel' = [r \in Requests |->
                   IF r \in subscribers[e] THEN [channel[r] EXCEPT !.closed = TRUE]
                                           ELSE channel[r]]
  /\ replyCh' = [t \in Requests |->
                   IF t \in askReplies[e] THEN "closed" ELSE replyCh[t]]
  /\ askReplies' = [askReplies EXCEPT ![e] = {}]
  /\ UNCHANGED <<sessions, messageCh, subscribers, turnCancelFn>>

\* Second half of RemoveSession: every subscriber and reply channel of the
\* entry is closed and forgotten; messageCh is left as it is.
CloseEntry(e) ==
  /\ channel' = [r \in Requests |->
                   IF r \in subscribers[e] THEN [channel[r] EXCEPT !.closed = TRUE]
                                           ELSE channel[r]]
  /\ replyCh' = [t \in Requests |->
                   IF t \in askReplies[e] THEN "closed" ELSE replyCh[t]]
  /\ subscribers' = [subscribers EXCEPT ![e] = {}]
  /\ askReplies' = [askReplies EXCEPT ![e] = {}]
  /\ UNCHANGED <<sessions, messageCh, turnCancelFn>>

\* StoreTurnCancel(s, cancel of turn t); t = NoOne is the nil that clears it.
StoreTurnCancel(s, t) ==
  /\ turnCancelFn' = [e \in Requests |->
                        IF e = sessions[s] THEN t ELSE turnCancelFn[e]]
  /\ UNCHANGED <<sessions, messageCh, subscribers, channel, askReplies, replyCh>>

\* RegisterAskUser: on a missing session the channel exists but nobody can find it.
RegisterAskUser(s, t) ==
  /\ askReplies' = [e \in Requests |->
                      IF e = sessions[s] THEN askReplies[e] \cup {t} ELSE askReplies[e]]
  /\ UNCHANGED <<sessions, messageCh, subscribers, channel, replyCh, turnCancelFn>>

UnregisterAskUser(s, t) ==
  /\ askReplies' = [e \in Requests |->
                      IF e = sessions[s] THEN askReplies[e] \ {t} ELSE askReplies[e]]
  /\ UNCHANGED <<sessions, messageCh, subscribers, channel, replyCh, turnCancelFn>>

\* SendAskUserReply: delivered only to a registered, still empty reply channel.
SendAskUserReply(s, t, reply) ==
  /\ HasSession(s) /\ t \in askReplies[sessions[s]] /\ replyCh[t] = "empty"
  /\ replyCh' = [replyCh EXCEPT ![t] = reply]
  /\ UNCHANGED <<sessions, messageCh, subscribers, channel, askReplies, turnCancelFn>>
=============================================================================
