---------------------------- MODULE ChatProofs ----------------------------
(***************************************************************************)
(* Proofs about ChatSession for any set of sessions and requests, any      *)
(* buffer sizes and any client behaviour.                                  *)
(*                                                                         *)
(* IInv types every variable by session: whatever is kept for a session,   *)
(* an entry, a subscriber or a loop comes from requests of its own         *)
(* session, its Mates.  Stated as membership in Seq(...) this survives     *)
(* Append and Tail, and implies both TypeOK and SessionIsolation.          *)
(*                                                                         *)
(* OnceInv follows a message from its request to a queue and from there to *)
(* a turn, and says that it is never at two of these places.  OrderInv     *)
(* needs it: a turn has one loop, so what has been published of the turn   *)
(* comes before what this loop publishes next.                             *)
(*                                                                         *)
(* The last two parts are about clients that wait for their response       *)
(* before they send again.  SoloInv says that a request in flight is alone *)
(* in its session, with an entry and a loop of its own; WholeInv counts    *)
(* what the loop has published and the client has received.                *)
(***************************************************************************)
EXTENDS ChatProperties, FiniteSetTheorems, FunctionTheorems, SequenceTheorems, TLAPS

Mates(s) == {r \in Requests : SessionOf[r] = s}
MateOrNone(s) == Mates(s) \cup {NoOne}
EventsOf(s) == [kind : EventKinds, turn : Mates(s)]

RegistryInv ==
  /\ sessions \in [Sessions -> Maybe]
  /\ \A s \in Sessions : sessions[s] \in MateOrNone(s)
  /\ messageCh \in [Requests -> Seq(Requests)]
  /\ \A e \in Requests : messageCh[e] \in Seq(Mates(SessionOf[e]))
  /\ subscribers \in [Requests -> SUBSET Requests]
  /\ \A e \in Requests : subscribers[e] \in SUBSET Mates(SessionOf[e])
  /\ channel \in [Requests -> [buf : Seq(Events), closed : BOOLEAN]]
  /\ \A r \in Requests : channel[r].buf \in Seq(EventsOf(SessionOf[r]))
  /\ askReplies \in [Requests -> SUBSET Requests]
  /\ replyCh \in [Requests -> Replies]
  /\ turnCancelFn \in [Requests -> Maybe]
  /\ \A e \in Requests : turnCancelFn[e] \in MateOrNone(SessionOf[e])

RequestInv ==
  /\ request \in [Requests -> [pc : RequestSteps, sub : Maybe, target : Maybe]]
  /\ \A r \in Requests :
       /\ request[r].sub \in MateOrNone(SessionOf[r])
       /\ request[r].target \in MateOrNone(SessionOf[r])
       /\ At(r, "insert") => request[r].sub # NoOne
       /\ At(r, "offer") \/ At(r, "close") => request[r].target # NoOne

LoopInv ==
  /\ loop \in [Requests -> [pc : LoopSteps, src : Maybe, msg : Maybe, target : Maybe]]
  /\ \A l \in Requests :
       /\ loop[l].src \in MateOrNone(SessionOf[l])
       /\ loop[l].msg \in MateOrNone(SessionOf[l])
       /\ loop[l].target \in MateOrNone(SessionOf[l])
       /\ LoopAt(l, "select") => loop[l].src # NoOne
       /\ InTurn(l) => loop[l].src # NoOne /\ loop[l].msg # NoOne

OtherInv ==
  /\ active \in [Sessions -> Maybe]
  /\ turnsActive \in [Sessions -> BOOLEAN]
  /\ pool \in [Sessions -> Maybe]
  /\ stopped \in SUBSET Requests
  /\ aborted \in SUBSET Requests
  /\ chunks \in [Requests -> 0..MaxChunks]
  /\ decision \in [Requests -> {"none", "yes", "no"}]
  /\ answered \in SUBSET Requests
  /\ stream \in [Requests -> Seq(Events)]
  /\ \A r \in Requests : stream[r] \in Seq(EventsOf(SessionOf[r]))

IInv == RegistryInv /\ RequestInv /\ LoopInv /\ OtherInv

-----------------------------------------------------------------------------
(* Sequences                                                               *)

LEMMA SeqOps ==
  ASSUME NEW S, NEW q \in Seq(S)
  PROVE  /\ \A x \in S : Append(q, x) \in Seq(S)
         /\ q # <<>> => Head(q) \in S /\ Tail(q) \in Seq(S)
  OBVIOUS

LEMMA EmptySeqIn == \A S : <<>> \in Seq(S)
  OBVIOUS

LEMMA SeqElements ==
  ASSUME NEW S, NEW q \in Seq(S)
  PROVE  \A i \in DOMAIN q : q[i] \in S
  OBVIOUS

LEMMA MatesFacts ==
  /\ NoOne \notin Requests
  /\ \A r \in Requests : SessionOf[r] \in Sessions /\ r \in Mates(SessionOf[r])
  /\ \A s : Mates(s) \subseteq Requests /\ EventsOf(s) \subseteq Events
  BY RegistryAssumption DEF Mates, EventsOf, Events

-----------------------------------------------------------------------------

LEMMA InitInv == Init => IInv
  <1> SUFFICES ASSUME Init PROVE IInv
    OBVIOUS
  <1>1. RegistryInv
    BY EmptySeqIn DEF Init, RegistryInit, RegistryInv, Maybe, MateOrNone, Replies
  <1>2. RequestInv
    BY DEF Init, RequestInv, RequestSteps, Maybe, MateOrNone, At
  <1>3. LoopInv
    BY DEF Init, LoopInv, LoopSteps, Maybe, MateOrNone, LoopAt, InTurn
  <1>4. OtherInv
    BY EmptySeqIn, ChatAssumption DEF Init, OtherInv, Maybe
  <1> QED
    BY <1>1, <1>2, <1>3, <1>4 DEF IInv

-----------------------------------------------------------------------------
(* The critical sections of the registry keep RegistryInv                  *)

LEMMA CreateSessionInv ==
  ASSUME RegistryInv, NEW r \in Requests, CreateSession(SessionOf[r], r)
  PROVE  RegistryInv'
  BY MatesFacts DEF RegistryInv, CreateSession, MateOrNone, Maybe

LEMMA DetachInv ==
  ASSUME RegistryInv, NEW s \in Sessions, Detach(s)
  PROVE  RegistryInv'
  BY DEF RegistryInv, Detach, MateOrNone, Maybe

LEMMA AddSubscriberInv ==
  ASSUME RegistryInv, NEW r \in Requests, NEW e \in Mates(SessionOf[r]), AddSubscriber(e, r)
  PROVE  RegistryInv'
  <1>1. subscribers' \in [Requests -> SUBSET Requests]
    BY DEF RegistryInv, AddSubscriber
  <1>2. \A f \in Requests : subscribers'[f] \in SUBSET Mates(SessionOf[f])
    BY DEF RegistryInv, AddSubscriber, Mates
  <1> QED
    BY <1>1, <1>2 DEF RegistryInv, AddSubscriber, MateOrNone, Maybe

LEMMA SubscribeToMissingInv ==
  ASSUME RegistryInv, NEW r \in Requests, SubscribeToMissing(r)
  PROVE  RegistryInv'
  BY DEF RegistryInv, SubscribeToMissing, MateOrNone, Maybe

LEMMA UnsubscribeInv ==
  ASSUME RegistryInv, NEW r \in Requests, NEW e \in Maybe, Unsubscribe(e, r)
  PROVE  RegistryInv'
  <1>1. subscribers' \in [Requests -> SUBSET Requests]
    BY DEF RegistryInv, Unsubscribe
  <1>2. \A f \in Requests : subscribers'[f] \in SUBSET Mates(SessionOf[f])
    BY DEF RegistryInv, Unsubscribe
  <1> QED
    BY <1>1, <1>2 DEF RegistryInv, Unsubscribe, MateOrNone, Maybe

LEMMA PublishToInv ==
  ASSUME RegistryInv,
         NEW s \in Sessions, NEW e \in Mates(s), NEW ev \in EventsOf(s), PublishTo(e, ev)
  PROVE  RegistryInv'
  <1>1. ASSUME NEW r \in Requests
        PROVE  /\ channel'[r] \in [buf : Seq(Events), closed : BOOLEAN]
               /\ channel'[r].buf \in Seq(EventsOf(SessionOf[r]))
    <2>1. CASE r \in subscribers[e] /\ Len(channel[r].buf) < SubscriberBuffer
      <3>1. SessionOf[r] = s
        BY <2>1 DEF RegistryInv, Mates
      <3>2. channel'[r] = [channel[r] EXCEPT !.buf = Append(channel[r].buf, ev)]
        BY <2>1 DEF PublishTo
      <3>3. Append(channel[r].buf, ev) \in Seq(EventsOf(s))
        BY <3>1, SeqOps DEF RegistryInv
      <3>4. Append(channel[r].buf, ev) \in Seq(Events)
        BY MatesFacts, SeqOps DEF RegistryInv
      <3> QED
        BY <3>1, <3>2, <3>3, <3>4 DEF RegistryInv
    <2>2. CASE ~(r \in subscribers[e] /\ Len(channel[r].buf) < SubscriberBuffer)
      BY <2>2 DEF PublishTo, RegistryInv
    <2> QED
      BY <2>1, <2>2
  <1> QED
    BY <1>1 DEF RegistryInv, PublishTo, MateOrNone, Maybe

LEMMA OfferInv ==
  ASSUME RegistryInv, NEW r \in Requests, NEW e \in Mates(SessionOf[r]), Offer(e, r)
  PROVE  RegistryInv'
  <1>1. e \in Requests /\ r \in Mates(SessionOf[e])
    BY DEF Mates
  <1>2. Append(messageCh[e], r) \in Seq(Requests) /\ Append(messageCh[e], r) \in Seq(Mates(SessionOf[e]))
    BY <1>1, SeqOps DEF RegistryInv
  <1> QED
    BY <1>1, <1>2 DEF RegistryInv, Offer, MateOrNone, Maybe

LEMMA ReceiveInv ==
  ASSUME RegistryInv, NEW e \in Requests, messageCh[e] # <<>>, Receive(e)
  PROVE  RegistryInv' /\ Head(messageCh[e]) \in Mates(SessionOf[e])
  <1>1. /\ Tail(messageCh[e]) \in Seq(Requests)
        /\ Tail(messageCh[e]) \in Seq(Mates(SessionOf[e]))
        /\ Head(messageCh[e]) \in Mates(SessionOf[e])
    BY SeqOps DEF RegistryInv
  <1> QED
    BY <1>1 DEF RegistryInv, Receive, MateOrNone, Maybe

LEMMA TakeEventInv ==
  ASSUME RegistryInv, NEW r \in Requests, channel[r].buf # <<>>, TakeEvent(r)
  PROVE  RegistryInv' /\ Head(channel[r].buf) \in EventsOf(SessionOf[r])
  <1>1. /\ Tail(channel[r].buf) \in Seq(Events)
        /\ Tail(channel[r].buf) \in Seq(EventsOf(SessionOf[r]))
        /\ Head(channel[r].buf) \in EventsOf(SessionOf[r])
    BY SeqOps DEF RegistryInv
  <1> QED
    BY <1>1 DEF RegistryInv, TakeEvent, MateOrNone, Maybe

LEMMA CloseEntryInv ==
  ASSUME RegistryInv, NEW e \in Requests, CloseEntry(e)
  PROVE  RegistryInv'
  <1>1. /\ channel' \in [Requests -> [buf : Seq(Events), closed : BOOLEAN]]
        /\ \A r \in Requests : channel'[r].buf \in Seq(EventsOf(SessionOf[r]))
    BY DEF RegistryInv, CloseEntry
  <1>2. /\ subscribers' \in [Requests -> SUBSET Requests]
        /\ \A f \in Requests : subscribers'[f] \in SUBSET Mates(SessionOf[f])
        /\ askReplies' \in [Requests -> SUBSET Requests]
        /\ replyCh' \in [Requests -> Replies]
    BY DEF RegistryInv, CloseEntry, Replies
  <1> QED
    BY <1>1, <1>2 DEF RegistryInv, CloseEntry, MateOrNone, Maybe

LEMMA StoreTurnCancelInv ==
  ASSUME RegistryInv, NEW s \in Sessions, NEW t \in MateOrNone(s), StoreTurnCancel(s, t)
  PROVE  RegistryInv'
  <1>1. ASSUME NEW e \in Requests
        PROVE  turnCancelFn'[e] \in MateOrNone(SessionOf[e]) /\ turnCancelFn'[e] \in Maybe
    BY MatesFacts DEF RegistryInv, StoreTurnCancel, MateOrNone, Maybe, Mates
  <1>2. turnCancelFn' \in [Requests -> Maybe]
    BY <1>1 DEF StoreTurnCancel
  <1> QED
    BY <1>1, <1>2 DEF RegistryInv, StoreTurnCancel, MateOrNone, Maybe

LEMMA AskUserInv ==
  ASSUME RegistryInv, NEW s \in Sessions, NEW t \in Requests,
         RegisterAskUser(s, t) \/ UnregisterAskUser(s, t)
  PROVE  RegistryInv'
  <1>1. CASE RegisterAskUser(s, t)
    <2>1. askReplies' \in [Requests -> SUBSET Requests]
      BY <1>1 DEF RegistryInv, RegisterAskUser
    <2> QED
      BY <1>1, <2>1 DEF RegistryInv, RegisterAskUser, MateOrNone, Maybe
  <1>2. CASE UnregisterAskUser(s, t)
    <2>1. askReplies' \in [Requests -> SUBSET Requests]
      BY <1>2 DEF RegistryInv, UnregisterAskUser
    <2> QED
      BY <1>2, <2>1 DEF RegistryInv, UnregisterAskUser, MateOrNone, Maybe
  <1> QED
    BY <1>1, <1>2

LEMMA SendAskUserReplyInv ==
  ASSUME RegistryInv, NEW s \in Sessions, NEW t \in Requests,
         NEW reply \in {"yes", "no"}, SendAskUserReply(s, t, reply)
  PROVE  RegistryInv'
  <1>1. replyCh' \in [Requests -> Replies]
    BY DEF RegistryInv, SendAskUserReply, Replies
  <1> QED
    BY <1>1 DEF RegistryInv, SendAskUserReply, MateOrNone, Maybe

LEMMA RegistryUnchanged ==
  ASSUME RegistryInv, UNCHANGED registryVars
  PROVE  RegistryInv'
  BY DEF RegistryInv, registryVars, MateOrNone, Maybe

-----------------------------------------------------------------------------
(* The steps of a request                                                  *)

LEMMA ArriveInv ==
  ASSUME IInv, NEW r \in Requests, Arrive(r)
  PROVE  IInv'
  <1>1. RegistryInv'
    BY RegistryUnchanged DEF IInv, Arrive
  <1>2. RequestInv'
    BY DEF IInv, RequestInv, Arrive, At, Goto, RequestSteps, MateOrNone
  <1>3. LoopInv' /\ OtherInv'
    BY DEF IInv, LoopInv, OtherInv, Arrive, processorVars, LoopAt, InTurn
  <1> QED
    BY <1>1, <1>2, <1>3 DEF IInv

LEMMA RequestStepInv ==
  ASSUME IInv, NEW r \in Requests, RequestStep(r)
  PROVE  IInv'
  <1>f. RegistryInv /\ RequestInv /\ LoopInv /\ OtherInv
    BY DEF IInv
  <1>e. sessions[SessionOf[r]] \in MateOrNone(SessionOf[r]) /\ sessions[SessionOf[r]] \in Maybe
    BY <1>f, MatesFacts DEF RegistryInv
  <1>l. processorVars' = processorVars => LoopInv'
    BY <1>f DEF LoopInv, processorVars, LoopAt, InTurn
  <1>o. processorVars' = processorVars /\ stream' = stream => OtherInv'
    BY <1>f DEF OtherInv, processorVars
  <1>1. CASE Create(r)
    <2>1. RegistryInv'
      BY <1>1, <1>f, CreateSessionInv DEF Create
    <2>2. RequestInv'
      BY <1>1, <1>f DEF RequestInv, Create, At, Goto, RequestSteps, MateOrNone
    <2> QED
      BY <1>1, <1>l, <1>o, <2>1, <2>2 DEF IInv, Create
  <1>2. CASE SubscribeLookup(r)
    <2>1. RegistryInv'
      BY <1>2, <1>f, SubscribeToMissingInv, RegistryUnchanged DEF SubscribeLookup
    <2>2. RequestInv'
      BY <1>2, <1>f, <1>e DEF RequestInv, SubscribeLookup, At, Goto, RequestSteps
    <2> QED
      BY <1>2, <1>l, <1>o, <2>1, <2>2 DEF IInv, SubscribeLookup
  <1>3. CASE SubscribeInsert(r)
    <2>1. request[r].sub \in Mates(SessionOf[r])
      BY <1>3, <1>f DEF RequestInv, SubscribeInsert, MateOrNone
    <2>2. RegistryInv'
      BY <1>3, <1>f, <2>1, AddSubscriberInv DEF SubscribeInsert
    <2>3. RequestInv'
      BY <1>3, <1>f DEF RequestInv, SubscribeInsert, At, Goto, RequestSteps, MateOrNone
    <2> QED
      BY <1>3, <1>l, <1>o, <2>2, <2>3 DEF IInv, SubscribeInsert
  <1>4. CASE EnqueueLookup(r)
    <2>1. RegistryInv'
      BY <1>4, <1>f, RegistryUnchanged DEF EnqueueLookup
    <2>2. RequestInv'
      BY <1>4, <1>f, <1>e DEF RequestInv, EnqueueLookup, At, RequestSteps
    <2> QED
      BY <1>4, <1>l, <1>o, <2>1, <2>2 DEF IInv, EnqueueLookup
  <1>5. CASE EnqueueSend(r)
    <2>1. request[r].target \in Mates(SessionOf[r])
      BY <1>5, <1>f DEF RequestInv, EnqueueSend, MateOrNone
    <2>2. RegistryInv'
      BY <1>5, <1>f, <2>1, OfferInv, RegistryUnchanged DEF EnqueueSend
    <2>3. RequestInv'
      BY <1>5, <1>f DEF RequestInv, EnqueueSend, At, Goto, RequestSteps, MateOrNone
    <2> QED
      BY <1>5, <1>l, <1>o, <2>2, <2>3 DEF IInv, EnqueueSend
  <1>6. CASE Refuse(r)
    <2>1. RegistryInv'
      BY <1>6, <1>f, UnsubscribeInv DEF Refuse, RequestInv
    <2>2. RequestInv'
      BY <1>6, <1>f DEF RequestInv, Refuse, At, Goto, RequestSteps, MateOrNone
    <2> QED
      BY <1>6, <1>l, <1>o, <2>1, <2>2 DEF IInv, Refuse
  <1>7. CASE StartProcessing(r)
    <2>1. RegistryInv'
      BY <1>7, <1>f, RegistryUnchanged DEF StartProcessing
    <2>2. RequestInv'
      BY <1>7, <1>f DEF RequestInv, StartProcessing, At, Goto, RequestSteps, MateOrNone
    <2>3. LoopInv'
      BY <1>7, <1>f
      DEF LoopInv, StartProcessing, LoopGoto, LoopAt, InTurn, LoopSteps, MateOrNone
    <2>4. OtherInv'
      BY <1>7, <1>f DEF OtherInv, StartProcessing, Maybe
    <2> QED
      BY <2>1, <2>2, <2>3, <2>4 DEF IInv
  <1>8. CASE Forward(r)
    <2>1. RegistryInv' /\ Head(channel[r].buf) \in EventsOf(SessionOf[r])
      BY <1>8, <1>f, TakeEventInv DEF Forward
    <2>2. RequestInv'
      BY <1>8, <1>f DEF RequestInv, Forward, At, Goto, RequestSteps, MateOrNone
    <2>3. /\ Append(stream[r], Head(channel[r].buf)) \in Seq(Events)
          /\ Append(stream[r], Head(channel[r].buf)) \in Seq(EventsOf(SessionOf[r]))
      BY <1>f, <2>1, SeqOps, MatesFacts DEF OtherInv
    <2>4. OtherInv'
      BY <1>8, <1>f, <2>3 DEF OtherInv, Forward, processorVars
    <2> QED
      BY <1>8, <1>l, <2>1, <2>2, <2>4 DEF IInv, Forward
  <1>9. CASE ChannelClosed(r)
    <2>1. RegistryInv'
      BY <1>9, <1>f, RegistryUnchanged DEF ChannelClosed
    <2>2. RequestInv'
      BY <1>9, <1>f DEF RequestInv, ChannelClosed, At, Goto, RequestSteps, MateOrNone
    <2> QED
      BY <1>9, <1>l, <1>o, <2>1, <2>2 DEF IInv, ChannelClosed
  <1>10. CASE DeferUnsubscribe(r)
    <2>1. RegistryInv'
      BY <1>10, <1>f, UnsubscribeInv DEF DeferUnsubscribe, RequestInv
    <2>2. RequestInv'
      BY <1>10, <1>f DEF RequestInv, DeferUnsubscribe, At, Goto, RequestSteps, MateOrNone
    <2> QED
      BY <1>10, <1>l, <1>o, <2>1, <2>2 DEF IInv, DeferUnsubscribe
  <1>11. CASE StopProcessing(r)
    <2>1. RegistryInv'
      BY <1>11, <1>f, RegistryUnchanged DEF StopProcessing
    <2>2. RequestInv'
      BY <1>11, <1>f DEF RequestInv, StopProcessing, At, Goto, RequestSteps, MateOrNone
    <2>3. LoopInv'
      BY <1>11, <1>f DEF LoopInv, StopProcessing, LoopAt, InTurn
    <2>4. OtherInv'
      BY <1>11, <1>f, MatesFacts DEF OtherInv, StopProcessing, Maybe
    <2> QED
      BY <2>1, <2>2, <2>3, <2>4 DEF IInv
  <1>12. CASE RemoveDetach(r)
    <2>1. RegistryInv'
      BY <1>12, <1>f, DetachInv, MatesFacts DEF RemoveDetach
    <2>2. RequestInv'
      BY <1>12, <1>f, <1>e DEF RequestInv, RemoveDetach, At, RequestSteps
    <2> QED
      BY <1>12, <1>l, <1>o, <2>1, <2>2 DEF IInv, RemoveDetach
  <1>13. CASE RemoveClose(r)
    <2>1. request[r].target \in Requests
      BY <1>13, <1>f DEF RequestInv, RemoveClose, Maybe
    <2>2. RegistryInv'
      BY <1>13, <1>f, <2>1, CloseEntryInv DEF RemoveClose
    <2>3. RequestInv'
      BY <1>13, <1>f DEF RequestInv, RemoveClose, At, Goto, RequestSteps, MateOrNone
    <2> QED
      BY <1>13, <1>l, <1>o, <2>2, <2>3 DEF IInv, RemoveClose
  <1> QED
    BY <1>1, <1>2, <1>3, <1>4, <1>5, <1>6, <1>7, <1>8, <1>9, <1>10, <1>11, <1>12, <1>13
    DEF RequestStep

-----------------------------------------------------------------------------
(* The steps of a loop                                                     *)

LEMMA LoopStepInv ==
  ASSUME IInv, NEW l \in Requests, LoopStep(l)
  PROVE  IInv'
  <1>f. RegistryInv /\ RequestInv /\ LoopInv /\ OtherInv
    BY DEF IInv
  <1>s. SessionOf[l] \in Sessions
    BY MatesFacts
  <1>e. sessions[SessionOf[l]] \in MateOrNone(SessionOf[l]) /\ sessions[SessionOf[l]] \in Maybe
    BY <1>f, <1>s DEF RegistryInv
  <1>t. InTurn(l) => Turn(l) \in Requests /\ Turn(l) \in Mates(SessionOf[l])
    BY <1>f DEF LoopInv, Turn, Maybe, MateOrNone
  <1>q. request' = request => RequestInv'
    BY <1>f DEF RequestInv, At
  <1>r. registryVars' = registryVars => RegistryInv'
    BY <1>f, RegistryUnchanged
  <1>1. CASE OpenChannel(l)
    <2>1. RegistryInv'
      BY <1>1, <1>r DEF OpenChannel
    <2>a. PICK e \in Maybe : e = sessions[SessionOf[l]]
      BY <1>e
    <2>b. PICK step \in LoopSteps :
            /\ loop' = [loop EXCEPT ![l].pc = step, ![l].src = e]
            /\ step = "exit" \/ (step = "select" /\ e # NoOne)
      BY <1>1, <2>a DEF OpenChannel, LoopSteps
    <2>c. e \in MateOrNone(SessionOf[l])
      BY <1>e, <2>a
    <2>2. LoopInv'
      BY <1>f, <2>b, <2>c DEF LoopInv, LoopAt, InTurn
    <2>3. OtherInv'
      BY <1>1, <1>f DEF OtherInv, OpenChannel
    <2> QED
      BY <1>1, <1>q, <2>1, <2>2, <2>3 DEF IInv, OpenChannel
  <1>2. CASE SelectDone(l)
    <2>1. RegistryInv'
      BY <1>2, <1>r DEF SelectDone
    <2>2. LoopInv'
      BY <1>2, <1>f DEF SelectDone,
             LoopInv, LoopAt, LoopGoto, InTurn, LoopSteps, MateOrNone,
             Published, NextStep
    <2>3. OtherInv'
      BY <1>2, <1>f DEF OtherInv, SelectDone
    <2> QED
      BY <1>2, <1>q, <2>1, <2>2, <2>3 DEF IInv, SelectDone
  <1>3. CASE SelectMessage(l)
    <2>0. loop[l].src \in Requests /\ SessionOf[loop[l].src] = SessionOf[l]
      BY <1>3, <1>f DEF SelectMessage, LoopInv, MateOrNone, Mates
    <2>1. RegistryInv' /\ Head(messageCh[loop[l].src]) \in Mates(SessionOf[l])
      BY <1>3, <1>f, <2>0, ReceiveInv DEF SelectMessage
    <2>m. Head(messageCh[loop[l].src]) \in Requests /\ Head(messageCh[loop[l].src]) # NoOne
      BY <2>1, MatesFacts
    <2>a. PICK m \in Requests : m = Head(messageCh[loop[l].src])
      BY <2>m
    <2>b. /\ loop' = [loop EXCEPT ![l].pc = "context", ![l].msg = m]
          /\ m \in MateOrNone(SessionOf[l]) /\ m # NoOne /\ m \in Maybe
          /\ loop[l].src # NoOne
      BY <1>3, <2>0, <2>1, <2>m, <2>a, MatesFacts DEF SelectMessage, MateOrNone, Maybe
    <2>2. LoopInv'
      BY <1>f, <2>b DEF LoopInv, LoopAt, InTurn, LoopSteps
    <2>3. OtherInv'
      BY <1>3, <1>f DEF OtherInv, SelectMessage
    <2> QED
      BY <1>3, <1>q, <2>1, <2>2, <2>3 DEF IInv, SelectMessage
  <1>4. CASE SessionContext(l)
    <2>1. RegistryInv'
      BY <1>4, <1>r DEF SessionContext
    <2>2. LoopInv'
      BY <1>4, <1>f DEF SessionContext,
             LoopInv, LoopAt, LoopGoto, InTurn, LoopSteps, MateOrNone,
             Published, NextStep
    <2>3. OtherInv'
      BY <1>4, <1>f DEF OtherInv, SessionContext
    <2> QED
      BY <1>4, <1>q, <2>1, <2>2, <2>3 DEF IInv, SessionContext
  <1>5. CASE MarkTurn(l)
    <2>1. RegistryInv'
      BY <1>5, <1>r DEF MarkTurn
    <2>2. LoopInv'
      BY <1>5, <1>f DEF MarkTurn,
             LoopInv, LoopAt, LoopGoto, InTurn, LoopSteps, MateOrNone,
             Published, NextStep
    <2>3. OtherInv'
      BY <1>5, <1>f, <1>t DEF OtherInv, MarkTurn
    <2> QED
      BY <1>5, <1>q, <2>1, <2>2, <2>3 DEF IInv, MarkTurn
  <1>6. CASE PublishLookup(l)
    <2>1. RegistryInv'
      BY <1>6, <1>r DEF PublishLookup
    <2>a. PICK e \in Maybe : e = sessions[SessionOf[l]]
      BY <1>e
    <2>b. PICK step \in LoopSteps :
            /\ loop' = [loop EXCEPT ![l].pc = step, ![l].target = e]
            /\ step \notin {"off", "channel", "select", "exit", "gone"}
      <3> DEFINE from == loop[l].pc
                 to == IF e = NoOne THEN NextStep[from] ELSE from
      <3>1. loop' = [loop EXCEPT ![l].pc = to, ![l].target = e]
        BY <1>6, <2>a DEF PublishLookup
      <3>2. from \in DOMAIN Published
        BY <1>6 DEF PublishLookup
      <3>3. to \in LoopSteps /\ to \notin {"off", "channel", "select", "exit", "gone"}
        BY <3>2 DEF Published, NextStep, LoopSteps
      <3> QED
        BY <3>1, <3>3
    <2>c. e \in MateOrNone(SessionOf[l])
      BY <1>e, <2>a
    <2>d. InTurn(l)
      BY <1>6 DEF PublishLookup, Published, InTurn
    <2>2. LoopInv'
      BY <1>f, <2>b, <2>c, <2>d DEF LoopInv, LoopAt, InTurn
    <2>3. OtherInv'
      BY <1>6, <1>f DEF OtherInv, PublishLookup
    <2> QED
      BY <1>6, <1>q, <2>1, <2>2, <2>3 DEF IInv, PublishLookup
  <1>7. CASE PublishDeliver(l)
    <2>0. loop[l].target \in Mates(SessionOf[l])
      BY <1>7, <1>f DEF PublishDeliver, LoopInv, MateOrNone
    <2>k. [kind |-> Published[loop[l].pc], turn |-> Turn(l)] \in EventsOf(SessionOf[l])
      BY <1>7, <1>t DEF PublishDeliver, Published, EventKinds, EventsOf, InTurn
    <2>1. RegistryInv'
      BY <1>7, <1>f, <1>s, <2>0, <2>k, PublishToInv DEF PublishDeliver
    <2>2. LoopInv'
      BY <1>7, <1>f DEF PublishDeliver,
             LoopInv, LoopAt, LoopGoto, InTurn, LoopSteps, MateOrNone,
             Published, NextStep
    <2>3. OtherInv'
      BY <1>7, <1>f DEF OtherInv, PublishDeliver
    <2> QED
      BY <1>7, <1>q, <2>1, <2>2, <2>3 DEF IInv, PublishDeliver
  <1>8. CASE CreateExecutor(l)
    <2>1. RegistryInv'
      BY <1>8, <1>r DEF CreateExecutor
    <2>2. LoopInv'
      BY <1>8, <1>f DEF CreateExecutor,
             LoopInv, LoopAt, LoopGoto, InTurn, LoopSteps, MateOrNone,
             Published, NextStep
    <2>3. OtherInv'
      BY <1>8, <1>f DEF OtherInv, CreateExecutor
    <2> QED
      BY <1>8, <1>q, <2>1, <2>2, <2>3 DEF IInv, CreateExecutor
  <1>9. CASE RegisterWithPool(l)
    <2>1. RegistryInv'
      BY <1>9, <1>r DEF RegisterWithPool
    <2>2. LoopInv'
      BY <1>9, <1>f DEF RegisterWithPool,
             LoopInv, LoopAt, LoopGoto, InTurn, LoopSteps, MateOrNone,
             Published, NextStep
    <2>3. OtherInv'
      BY <1>9, <1>f, <1>t DEF OtherInv, RegisterWithPool, Maybe, LoopAt, InTurn
    <2> QED
      BY <1>9, <1>q, <2>1, <2>2, <2>3 DEF IInv, RegisterWithPool
  <1>10. CASE StoreCancel(l)
    <2>0. Turn(l) \in MateOrNone(SessionOf[l])
      BY <1>f DEF LoopInv, Turn
    <2>1. RegistryInv'
      BY <1>10, <1>f, <1>s, <2>0, StoreTurnCancelInv DEF StoreCancel
    <2>2. LoopInv'
      BY <1>10, <1>f DEF StoreCancel,
             LoopInv, LoopAt, LoopGoto, InTurn, LoopSteps, MateOrNone,
             Published, NextStep
    <2>3. OtherInv'
      BY <1>10, <1>f DEF OtherInv, StoreCancel
    <2> QED
      BY <1>10, <1>q, <2>1, <2>2, <2>3 DEF IInv, StoreCancel
  <1>11. CASE EmitChunk(l)
    <2>1. RegistryInv'
      BY <1>11, <1>r DEF EmitChunk
    <2>2. LoopInv'
      BY <1>11, <1>f DEF EmitChunk,
             LoopInv, LoopAt, LoopGoto, InTurn, LoopSteps, MateOrNone,
             Published, NextStep
    <2>3. OtherInv'
      BY <1>11, <1>f, <1>t, ChatAssumption DEF OtherInv, EmitChunk, LoopAt, InTurn
    <2> QED
      BY <1>11, <1>q, <2>1, <2>2, <2>3 DEF IInv, EmitChunk
  <1>12. CASE CallConfirmedTool(l)
    <2>1. RegistryInv'
      BY <1>12, <1>r DEF CallConfirmedTool
    <2>2. LoopInv'
      BY <1>12, <1>f DEF CallConfirmedTool,
             LoopInv, LoopAt, LoopGoto, InTurn, LoopSteps, MateOrNone,
             Published, NextStep
    <2>3. OtherInv'
      BY <1>12, <1>f DEF OtherInv, CallConfirmedTool
    <2> QED
      BY <1>12, <1>q, <2>1, <2>2, <2>3 DEF IInv, CallConfirmedTool
  <1>13. CASE ReturnFromTurn(l)
    <2>1. RegistryInv'
      BY <1>13, <1>r DEF ReturnFromTurn
    <2>2. LoopInv'
      BY <1>13, <1>f DEF ReturnFromTurn,
             LoopInv, LoopAt, LoopGoto, InTurn, LoopSteps, MateOrNone,
             Published, NextStep
    <2>3. OtherInv'
      BY <1>13, <1>f DEF OtherInv, ReturnFromTurn
    <2> QED
      BY <1>13, <1>q, <2>1, <2>2, <2>3 DEF IInv, ReturnFromTurn
  <1>14. CASE AskUser(l)
    <2>0. Turn(l) \in Requests
      BY <1>14, <1>t DEF AskUser, LoopAt, InTurn
    <2>1. RegistryInv'
      BY <1>14, <1>f, <1>s, <2>0, AskUserInv DEF AskUser
    <2>2. LoopInv'
      BY <1>14, <1>f DEF AskUser,
             LoopInv, LoopAt, LoopGoto, InTurn, LoopSteps, MateOrNone,
             Published, NextStep
    <2>3. OtherInv'
      BY <1>14, <1>f DEF OtherInv, AskUser
    <2> QED
      BY <1>14, <1>q, <2>1, <2>2, <2>3 DEF IInv, AskUser
  <1>15. CASE ReceiveReply(l)
    <2>1. RegistryInv'
      BY <1>15, <1>r DEF ReceiveReply, Decide
    <2>2. LoopInv'
      BY <1>15, <1>f DEF ReceiveReply, Decide,
             LoopInv, LoopAt, LoopGoto, InTurn, LoopSteps, MateOrNone,
             Published, NextStep
    <2>3. OtherInv'
      BY <1>15, <1>f, <1>t DEF OtherInv, ReceiveReply, Decide
    <2> QED
      BY <1>15, <1>q, <2>1, <2>2, <2>3 DEF IInv, ReceiveReply, Decide
  <1>16. CASE ConfirmTimeout(l)
    <2>1. RegistryInv'
      BY <1>16, <1>r DEF ConfirmTimeout, Decide
    <2>2. LoopInv'
      BY <1>16, <1>f DEF ConfirmTimeout, Decide,
             LoopInv, LoopAt, LoopGoto, InTurn, LoopSteps, MateOrNone,
             Published, NextStep
    <2>3. OtherInv'
      BY <1>16, <1>f, <1>t DEF OtherInv, ConfirmTimeout, Decide
    <2> QED
      BY <1>16, <1>q, <2>1, <2>2, <2>3 DEF IInv, ConfirmTimeout, Decide
  <1>17. CASE Unregister(l)
    <2>0. Turn(l) \in Requests
      BY <1>17, <1>t DEF Unregister, LoopAt, InTurn
    <2>1. RegistryInv'
      BY <1>17, <1>f, <1>s, <2>0, AskUserInv DEF Unregister
    <2>2. LoopInv'
      BY <1>17, <1>f DEF Unregister,
             LoopInv, LoopAt, LoopGoto, InTurn, LoopSteps, MateOrNone,
             Published, NextStep
    <2>3. OtherInv'
      BY <1>17, <1>f DEF OtherInv, Unregister
    <2> QED
      BY <1>17, <1>q, <2>1, <2>2, <2>3 DEF IInv, Unregister
  <1>18. CASE ClearCancel(l)
    <2>0. NoOne \in MateOrNone(SessionOf[l])
      BY DEF MateOrNone
    <2>1. RegistryInv'
      BY <1>18, <1>f, <1>s, <2>0, StoreTurnCancelInv DEF ClearCancel
    <2>2. LoopInv'
      BY <1>18, <1>f DEF ClearCancel,
             LoopInv, LoopAt, LoopGoto, InTurn, LoopSteps, MateOrNone,
             Published, NextStep
    <2>3. OtherInv'
      BY <1>18, <1>f DEF OtherInv, ClearCancel
    <2> QED
      BY <1>18, <1>q, <2>1, <2>2, <2>3 DEF IInv, ClearCancel
  <1>19. CASE DropPool(l)
    <2>1. RegistryInv'
      BY <1>19, <1>r DEF DropPool
    <2>2. LoopInv'
      BY <1>19, <1>f DEF DropPool,
             LoopInv, LoopAt, LoopGoto, InTurn, LoopSteps, MateOrNone,
             Published, NextStep
    <2>3. OtherInv'
      BY <1>19, <1>f DEF OtherInv, DropPool, Maybe, LoopAt, InTurn
    <2> QED
      BY <1>19, <1>q, <2>1, <2>2, <2>3 DEF IInv, DropPool
  <1>20. CASE ClearTurn(l)
    <2>1. RegistryInv'
      BY <1>20, <1>r DEF ClearTurn
    <2>2. LoopInv'
      BY <1>20, <1>f DEF ClearTurn,
             LoopInv, LoopAt, LoopGoto, InTurn, LoopSteps, MateOrNone,
             Published, NextStep
    <2>3. OtherInv'
      BY <1>20, <1>f DEF OtherInv, ClearTurn
    <2> QED
      BY <1>20, <1>q, <2>1, <2>2, <2>3 DEF IInv, ClearTurn
  <1>21. CASE Exit(l)
    <2>1. RegistryInv'
      BY <1>21, <1>r DEF Exit
    <2>2. LoopInv'
      BY <1>21, <1>f DEF Exit,
             LoopInv, LoopAt, LoopGoto, InTurn, LoopSteps, MateOrNone,
             Published, NextStep
    <2>3. OtherInv'
      BY <1>21, <1>f DEF OtherInv, Exit, Maybe, LoopAt, InTurn
    <2> QED
      BY <1>21, <1>q, <2>1, <2>2, <2>3 DEF IInv, Exit
  <1> QED
    BY <1>1, <1>2, <1>3, <1>4, <1>5, <1>6, <1>7, <1>8, <1>9, <1>10, <1>11,
       <1>12, <1>13, <1>14, <1>15, <1>16, <1>17, <1>18, <1>19, <1>20, <1>21
    DEF LoopStep

-----------------------------------------------------------------------------
(* The user, and the theorems                                              *)

LEMMA UserInv ==
  ASSUME IInv,
         \/ \E s \in Sessions : Cancel(s)
         \/ \E t \in Requests, reply \in {"yes", "no"} : Reply(t, reply)
  PROVE  IInv'
  <1>f. RegistryInv /\ RequestInv /\ LoopInv /\ OtherInv
    BY DEF IInv
  <1>1. ASSUME NEW s \in Sessions, Cancel(s)
        PROVE  IInv'
    <2>1. RegistryInv'
      BY <1>1, <1>f, RegistryUnchanged DEF Cancel
    <2>2. RequestInv' /\ LoopInv'
      BY <1>1, <1>f DEF Cancel, RequestInv, LoopInv, At, LoopAt, InTurn
    <2>3. turnCancelFn[sessions[s]] # NoOne => turnCancelFn[sessions[s]] \in Requests
      BY <1>1, <1>f DEF Cancel, HasSession, RegistryInv, Maybe
    <2>4. OtherInv'
      BY <1>1, <1>f, <2>3 DEF Cancel, OtherInv
    <2> QED
      BY <2>1, <2>2, <2>4 DEF IInv
  <1>2. ASSUME NEW t \in Requests, NEW reply \in {"yes", "no"}, Reply(t, reply)
        PROVE  IInv'
    <2>1. RegistryInv'
      BY <1>2, <1>f, MatesFacts, SendAskUserReplyInv DEF Reply
    <2>2. RequestInv' /\ LoopInv'
      BY <1>2, <1>f DEF Reply, RequestInv, LoopInv, At, LoopAt, InTurn
    <2>3. OtherInv'
      BY <1>2, <1>f DEF Reply, OtherInv
    <2> QED
      BY <2>1, <2>2, <2>3 DEF IInv
  <1> QED
    BY <1>1, <1>2

LEMMA StepInv == IInv /\ [Next]_vars => IInv'
  <1> SUFFICES ASSUME IInv, [Next]_vars PROVE IInv'
    OBVIOUS
  <1>1. CASE UNCHANGED vars
    <2>1. RegistryInv'
      BY <1>1, RegistryUnchanged DEF IInv, vars
    <2>2. RequestInv' /\ LoopInv' /\ OtherInv'
      BY <1>1
      DEF IInv, vars, processorVars, RequestInv, LoopInv, OtherInv, At, LoopAt, InTurn
    <2> QED
      BY <2>1, <2>2 DEF IInv
  <1>2. CASE Next
    BY <1>2, ArriveInv, RequestStepInv, LoopStepInv, UserInv DEF Next
  <1> QED
    BY <1>1, <1>2

LEMMA Invariance == Spec => []IInv
  BY InitInv, StepInv, PTL DEF Spec

\* Every variable keeps its type.
THEOREM TypeCorrect == Spec => []TypeOK
  <1>1. IInv => TypeOK
    BY DEF IInv, RegistryInv, RequestInv, LoopInv, OtherInv, TypeOK, RegistryTypeOK, Maybe, LoopFits,
           LoopAt
  <1> QED
    BY <1>1, Invariance, PTL

\* No message, turn or event crosses from one session into another: whatever the
\* registry, the loops and the responses hold for a session stems from requests
\* addressed to it, for any number of sessions and overlapping requests.
THEOREM Isolation == Spec => []SessionIsolation
  <1>1. IInv => SessionIsolation
    <2> SUFFICES ASSUME IInv PROVE SessionIsolation
      OBVIOUS
    <2>1. \A s \in Sessions : sessions[s] # NoOne => SessionOf[sessions[s]] = s
      BY DEF IInv, RegistryInv, MateOrNone, Mates
    <2>2. ASSUME NEW e \in Requests, NEW i \in DOMAIN messageCh[e]
          PROVE  SessionOf[messageCh[e][i]] = SessionOf[e]
      <3>1. messageCh[e][i] \in Mates(SessionOf[e])
        BY SeqElements DEF IInv, RegistryInv
      <3> QED
        BY <3>1 DEF Mates
    <2>3. \A e \in Requests :
            turnCancelFn[e] # NoOne => SessionOf[turnCancelFn[e]] = SessionOf[e]
      BY DEF IInv, RegistryInv, MateOrNone, Mates
    <2>4. \A l \in Requests : Turn(l) # NoOne => SessionOf[Turn(l)] = SessionOf[l]
      BY DEF IInv, LoopInv, MateOrNone, Mates, Turn
    <2>5. ASSUME NEW r \in Requests, NEW i \in DOMAIN channel[r].buf
          PROVE  SessionOf[channel[r].buf[i].turn] = SessionOf[r]
      <3>1. channel[r].buf[i] \in EventsOf(SessionOf[r])
        BY SeqElements DEF IInv, RegistryInv
      <3> QED
        BY <3>1 DEF EventsOf, Mates
    <2>6. ASSUME NEW r \in Requests, NEW i \in DOMAIN stream[r]
          PROVE  SessionOf[stream[r][i].turn] = SessionOf[r]
      <3>1. stream[r][i] \in EventsOf(SessionOf[r])
        BY SeqElements DEF IInv, OtherInv
      <3> QED
        BY <3>1 DEF EventsOf, Mates
    <2> QED
      BY <2>1, <2>2, <2>3, <2>4, <2>5, <2>6 DEF SessionIsolation
  <1> QED
    BY <1>1, Invariance, PTL

-----------------------------------------------------------------------------
(***************************************************************************)
(* Channel safety.  A closed channel must not be registered, and must not  *)
(* become registered later: a subscriber sits in at most one entry, the    *)
(* one its Subscribe looked up, and not before that Subscribe is over.     *)
(***************************************************************************)
Subscribing(r) == request[r].pc \in {"new", "create", "subscribe", "insert"}

ChannelInv ==
  /\ RegisteredChannelsOpen
  /\ \A e, r \in Requests :
       r \in subscribers[e] => request[r].sub = e /\ ~Subscribing(r)
  /\ \A r \in Requests : Subscribing(r) => ~channel[r].closed

\* Steps that register nobody: r either was already past its Subscribe, or still is in it.
LEMMA ChannelFrame ==
  ASSUME IInv, ChannelInv, NEW r \in Requests,
         UNCHANGED subscribers,
         \A q \in Requests \ {r} :
           request'[q] = request[q] /\ channel'[q].closed = channel[q].closed,
         \/ /\ ~Subscribing(r) /\ ~Subscribing(r)'
            /\ request'[r].sub = request[r].sub /\ channel'[r].closed = channel[r].closed
         \/ Subscribing(r) /\ (Subscribing(r)' => ~channel'[r].closed)
  PROVE  ChannelInv'
  <1>1. \A e, q \in Requests :
          q \in subscribers[e] => request'[q].sub = e /\ ~Subscribing(q)' /\ ~channel'[q].closed
    <2> SUFFICES ASSUME NEW e \in Requests, NEW q \in Requests, q \in subscribers[e]
                 PROVE  request'[q].sub = e /\ ~Subscribing(q)' /\ ~channel'[q].closed
      OBVIOUS
    <2>1. request[q].sub = e /\ ~Subscribing(q) /\ ~channel[q].closed
      BY DEF ChannelInv, RegisteredChannelsOpen
    <2>2. CASE q = r
      BY <2>1, <2>2
    <2>3. CASE q # r
      BY <2>1, <2>3 DEF Subscribing
    <2> QED
      BY <2>2, <2>3
  <1>2. \A q \in Requests : Subscribing(q)' => ~channel'[q].closed
    <2> SUFFICES ASSUME NEW q \in Requests, Subscribing(q)' PROVE ~channel'[q].closed
      OBVIOUS
    <2>1. CASE q = r
      BY <2>1
    <2>2. CASE q # r
      BY <2>2 DEF Subscribing, ChannelInv
    <2> QED
      BY <2>1, <2>2
  <1>3. \A e \in Requests : subscribers[e] \subseteq Requests
    BY DEF IInv, RegistryInv
  <1> QED
    BY <1>1, <1>2, <1>3 DEF ChannelInv, RegisteredChannelsOpen

LEMMA ChannelStep == IInv /\ ChannelInv /\ [Next]_vars => ChannelInv'
  <1> SUFFICES ASSUME IInv, ChannelInv, [Next]_vars PROVE ChannelInv'
    OBVIOUS
  <1>t. /\ request \in [Requests -> [pc : RequestSteps, sub : Maybe, target : Maybe]]
        /\ subscribers \in [Requests -> SUBSET Requests]
        /\ channel \in [Requests -> [buf : Seq(Events), closed : BOOLEAN]]
    BY DEF IInv, RequestInv, RegistryInv
  <1>c. ASSUME UNCHANGED <<subscribers, request>>,
               \A r \in Requests : channel'[r].closed = channel[r].closed
        PROVE  ChannelInv'
    BY <1>c, <1>t DEF ChannelInv, RegisteredChannelsOpen, Subscribing
  <1>u. ASSUME UNCHANGED vars PROVE ChannelInv'
    BY <1>u, <1>c DEF vars, registryVars
  <1>a. ASSUME NEW r \in Requests, Arrive(r) PROVE ChannelInv'
    <2>1. Subscribing(r)' => ~channel'[r].closed
      BY <1>a DEF Arrive, At, registryVars, ChannelInv, Subscribing
    <2> QED
      BY <1>a, <2>1, <1>t, ChannelFrame DEF Arrive, At, Goto, registryVars, Subscribing
  <1>b. ASSUME NEW r \in Requests, RequestStep(r) PROVE ChannelInv'
    <2>1. CASE Create(r)
      <3>1. Subscribing(r) /\ UNCHANGED subscribers
        BY <2>1 DEF Create, CreateSession, At, Goto, Subscribing
      <3>2. \A q \in Requests \ {r} :
              request'[q] = request[q] /\ channel'[q].closed = channel[q].closed
        BY <2>1, <1>t DEF Create, CreateSession, At, Goto
      <3>3. Subscribing(r)' => ~channel'[r].closed
        BY <2>1, <1>t DEF Create, CreateSession, At, Goto, ChannelInv, Subscribing
      <3> QED
        BY <3>1, <3>2, <3>3, ChannelFrame
    <2>2. CASE SubscribeLookup(r)
      <3>1. Subscribing(r) /\ UNCHANGED subscribers
        BY <2>2 DEF SubscribeLookup, SubscribeToMissing, registryVars, At, Goto, Subscribing
      <3>2. \A q \in Requests \ {r} :
              request'[q] = request[q] /\ channel'[q].closed = channel[q].closed
        BY <2>2, <1>t DEF SubscribeLookup, SubscribeToMissing, registryVars, At, Goto
      <3>3. Subscribing(r)' => ~channel'[r].closed
        BY <2>2, <1>t DEF SubscribeLookup, SubscribeToMissing, registryVars, At, Goto, ChannelInv, Subscribing
      <3> QED
        BY <3>1, <3>2, <3>3, ChannelFrame
    <2>3. CASE SubscribeInsert(r)
      BY <2>3, <1>t
      DEF SubscribeInsert, AddSubscriber, At, Goto, ChannelInv, RegisteredChannelsOpen, Subscribing
    <2>4. CASE EnqueueLookup(r)
      <3>1. ~Subscribing(r) /\ UNCHANGED subscribers
        BY <2>4 DEF EnqueueLookup, registryVars, At, Subscribing
      <3>2. \A q \in Requests \ {r} :
              request'[q] = request[q] /\ channel'[q].closed = channel[q].closed
        BY <2>4, <1>t DEF EnqueueLookup, registryVars, At
      <3>3. /\ ~Subscribing(r)'
            /\ request'[r].sub = request[r].sub /\ channel'[r].closed = channel[r].closed
        BY <2>4, <1>t DEF EnqueueLookup, registryVars, At, Subscribing
      <3> QED
        BY <3>1, <3>2, <3>3, ChannelFrame
    <2>5. CASE EnqueueSend(r)
      <3>1. ~Subscribing(r) /\ UNCHANGED subscribers
        BY <2>5 DEF EnqueueSend, Offer, registryVars, At, Goto, Subscribing
      <3>2. \A q \in Requests \ {r} :
              request'[q] = request[q] /\ channel'[q].closed = channel[q].closed
        BY <2>5, <1>t DEF EnqueueSend, Offer, registryVars, At, Goto
      <3>3. /\ ~Subscribing(r)'
            /\ request'[r].sub = request[r].sub /\ channel'[r].closed = channel[r].closed
        BY <2>5, <1>t DEF EnqueueSend, Offer, registryVars, At, Goto, Subscribing
      <3> QED
        BY <3>1, <3>2, <3>3, ChannelFrame
    <2>6. CASE Refuse(r)
      BY <2>6, <1>t
      DEF Refuse, Unsubscribe, At, Goto, ChannelInv, RegisteredChannelsOpen, Subscribing
    <2>7. CASE StartProcessing(r)
      <3>1. ~Subscribing(r) /\ UNCHANGED subscribers
        BY <2>7 DEF StartProcessing, registryVars, At, Goto, Subscribing
      <3>2. \A q \in Requests \ {r} :
              request'[q] = request[q] /\ channel'[q].closed = channel[q].closed
        BY <2>7, <1>t DEF StartProcessing, registryVars, At, Goto
      <3>3. /\ ~Subscribing(r)'
            /\ request'[r].sub = request[r].sub /\ channel'[r].closed = channel[r].closed
        BY <2>7, <1>t DEF StartProcessing, registryVars, At, Goto, Subscribing
      <3> QED
        BY <3>1, <3>2, <3>3, ChannelFrame
    <2>8. CASE Forward(r)
      <3>1. ~Subscribing(r) /\ UNCHANGED subscribers
        BY <2>8 DEF Forward, TakeEvent, At, Goto, Subscribing
      <3>2. \A q \in Requests \ {r} :
              request'[q] = request[q] /\ channel'[q].closed = channel[q].closed
        BY <2>8, <1>t DEF Forward, TakeEvent, At, Goto
      <3>3. /\ ~Subscribing(r)'
            /\ request'[r].sub = request[r].sub /\ channel'[r].closed = channel[r].closed
        BY <2>8, <1>t DEF Forward, TakeEvent, At, Goto, Subscribing
      <3> QED
        BY <3>1, <3>2, <3>3, ChannelFrame
    <2>9. CASE ChannelClosed(r)
      <3>1. ~Subscribing(r) /\ UNCHANGED subscribers
        BY <2>9 DEF ChannelClosed, registryVars, At, Goto, Subscribing
      <3>2. \A q \in Requests \ {r} :
              request'[q] = request[q] /\ channel'[q].closed = channel[q].closed
        BY <2>9, <1>t DEF ChannelClosed, registryVars, At, Goto
      <3>3. /\ ~Subscribing(r)'
            /\ request'[r].sub = request[r].sub /\ channel'[r].closed = channel[r].closed
        BY <2>9, <1>t DEF ChannelClosed, registryVars, At, Goto, Subscribing
      <3> QED
        BY <3>1, <3>2, <3>3, ChannelFrame
    <2>10. CASE DeferUnsubscribe(r)
      BY <2>10, <1>t
      DEF DeferUnsubscribe, Unsubscribe, At, Goto, ChannelInv, RegisteredChannelsOpen, Subscribing
    <2>11. CASE StopProcessing(r)
      <3>1. ~Subscribing(r) /\ UNCHANGED subscribers
        BY <2>11 DEF StopProcessing, registryVars, At, Goto, Subscribing
      <3>2. \A q \in Requests \ {r} :
              request'[q] = request[q] /\ channel'[q].closed = channel[q].closed
        BY <2>11, <1>t DEF StopProcessing, registryVars, At, Goto
      <3>3. /\ ~Subscribing(r)'
            /\ request'[r].sub = request[r].sub /\ channel'[r].closed = channel[r].closed
        BY <2>11, <1>t DEF StopProcessing, registryVars, At, Goto, Subscribing
      <3> QED
        BY <3>1, <3>2, <3>3, ChannelFrame
    <2>12. CASE RemoveDetach(r)
      <3>1. ~Subscribing(r) /\ UNCHANGED subscribers
        BY <2>12 DEF RemoveDetach, Detach, At, Subscribing
      <3>2. \A q \in Requests \ {r} :
              request'[q] = request[q] /\ channel'[q].closed = channel[q].closed
        BY <2>12, <1>t DEF RemoveDetach, Detach, At
      <3>3. /\ ~Subscribing(r)'
            /\ request'[r].sub = request[r].sub /\ channel'[r].closed = channel[r].closed
        BY <2>12, <1>t DEF RemoveDetach, Detach, At, Subscribing
      <3> QED
        BY <3>1, <3>2, <3>3, ChannelFrame
    <2>13. CASE RemoveClose(r)
      <3> DEFINE e == request[r].target
      <3>1. /\ subscribers' = [subscribers EXCEPT ![e] = {}]
            /\ channel' = [q \in Requests |->
                             IF q \in subscribers[e] THEN [channel[q] EXCEPT !.closed = TRUE]
                                                     ELSE channel[q]]
            /\ request' = [request EXCEPT ![r].pc = "finished"]
            /\ request[r].pc = "close"
        BY <2>13 DEF RemoveClose, CloseEntry, At, Goto
      <3>2. e \in Requests
        BY <2>13 DEF IInv, RequestInv, RemoveClose, Maybe
      <3>3. \A q \in Requests : request'[q].sub = request[q].sub /\ (Subscribing(q)' <=> Subscribing(q))
        BY <3>1, <1>t DEF Subscribing
      <3>4. ASSUME NEW f \in Requests, NEW q \in Requests, q \in subscribers'[f]
            PROVE  request'[q].sub = f /\ ~Subscribing(q)' /\ ~channel'[q].closed
        <4>1. f # e /\ q \in subscribers[f]
          BY <3>1, <3>2, <3>4, <1>t
        <4>2. request[q].sub = f /\ ~Subscribing(q) /\ ~channel[q].closed /\ q \notin subscribers[e]
          BY <4>1, <3>2 DEF ChannelInv, RegisteredChannelsOpen
        <4> QED
          BY <4>2, <3>1, <3>3
      <3>5. ASSUME NEW q \in Requests, Subscribing(q)'
            PROVE  ~channel'[q].closed
        <4>1. Subscribing(q) /\ ~channel[q].closed /\ q \notin subscribers[e]
          BY <3>2, <3>3, <3>5 DEF ChannelInv
        <4> QED
          BY <4>1, <3>1
      <3>6. \A f \in Requests : subscribers'[f] \subseteq Requests
        BY <3>1, <1>t
      <3> QED
        BY <3>4, <3>5, <3>6 DEF ChannelInv, RegisteredChannelsOpen
    <2> QED
      BY <1>b, <2>1, <2>2, <2>3, <2>4, <2>5, <2>6, <2>7, <2>8, <2>9, <2>10, <2>11,
         <2>12, <2>13 DEF RequestStep
  <1>d. ASSUME NEW l \in Requests, LoopStep(l) PROVE ChannelInv'
    <2>1. UNCHANGED <<subscribers, request>>
      BY <1>d
      DEF LoopStep, OpenChannel, SelectDone, SelectMessage, SessionContext, MarkTurn,
          PublishLookup, PublishDeliver, CreateExecutor, RegisterWithPool, StoreCancel,
          EmitChunk, CallConfirmedTool, ReturnFromTurn, AskUser, ReceiveReply,
          ConfirmTimeout, Decide, Unregister, ClearCancel, DropPool, ClearTurn, Exit,
          registryVars, Receive, PublishTo, StoreTurnCancel, RegisterAskUser,
          UnregisterAskUser
    <2>2. channel' = channel \/ PublishDeliver(l)
      BY <1>d
      DEF LoopStep, OpenChannel, SelectDone, SelectMessage, SessionContext, MarkTurn,
          PublishLookup, CreateExecutor, RegisterWithPool, StoreCancel,
          EmitChunk, CallConfirmedTool, ReturnFromTurn, AskUser, ReceiveReply,
          ConfirmTimeout, Decide, Unregister, ClearCancel, DropPool, ClearTurn, Exit,
          registryVars, Receive, StoreTurnCancel, RegisterAskUser,
          UnregisterAskUser
    <2>3. PublishDeliver(l) => \A r \in Requests : channel'[r].closed = channel[r].closed
      BY <1>t DEF PublishDeliver, PublishTo
    <2> QED
      BY <2>1, <2>2, <2>3, <1>c
  <1>e. ASSUME \/ \E s \in Sessions : Cancel(s)
               \/ \E t \in Requests, reply \in {"yes", "no"} : Reply(t, reply)
        PROVE  ChannelInv'
    BY <1>e, <1>c DEF Cancel, Reply, SendAskUserReply, registryVars
  <1> QED
    BY <1>u, <1>a, <1>b, <1>d, <1>e DEF Next

\* No goroutine ever sends to, or closes, a closed subscriber channel.
THEOREM ChannelSafety == Spec => []RegisteredChannelsOpen
  <1>1. Init => ChannelInv
    BY DEF Init, RegistryInit, ChannelInv, RegisteredChannelsOpen, Subscribing
  <1>2. ChannelInv => RegisteredChannelsOpen
    BY DEF ChannelInv
  <1> QED
    BY <1>1, <1>2, ChannelStep, Invariance, PTL DEF Spec

-----------------------------------------------------------------------------
(* A message is handled once                                               *)

\* Requests whose message is in no queue yet.
Unsent(t) == request[t].pc \in {"new", "create", "subscribe", "insert", "enqueue", "offer"}

\* A message that was sent is at one place of one queue or in one turn.
OnceInv ==
  /\ \A t \in Requests : Unsent(t) =>
       /\ \A e \in Requests : \A i \in DOMAIN messageCh[e] : messageCh[e][i] # t
       /\ \A l \in Requests : InTurn(l) => Turn(l) # t
  /\ \A e, f \in Requests : \A i \in DOMAIN messageCh[e], j \in DOMAIN messageCh[f] :
       messageCh[e][i] = messageCh[f][j] => e = f /\ i = j
  /\ TurnRunsOnce

\* What leaves the queues alone, lets no request be unsent again and no turn begin.
LEMMA OnceFrame ==
  ASSUME OnceInv, messageCh' = messageCh,
         \A t \in Requests : Unsent(t)' => Unsent(t),
         \A l \in Requests : InTurn(l)' => InTurn(l) /\ Turn(l)' = Turn(l)
  PROVE  OnceInv'
  BY DEF OnceInv, TurnRunsOnce

\* The message of a request that has sent none joins a queue.
LEMMA OnceOffered ==
  ASSUME IInv, OnceInv, NEW r \in Requests, NEW e \in Requests, Unsent(r), Offer(e, r),
         Goto(r, "start"), loop' = loop
  PROVE  OnceInv'
  <1>1. messageCh \in [Requests -> Seq(Requests)]
    BY DEF IInv, RegistryInv
  <1>2. /\ messageCh'[e] = Append(messageCh[e], r)
        /\ \A f \in Requests \ {e} : messageCh'[f] = messageCh[f]
    BY <1>1 DEF Offer
  <1>3. messageCh[e] \in Seq(Requests)
    BY <1>1
  <1>4. \A i \in DOMAIN messageCh'[e] :
          \/ i \in DOMAIN messageCh[e] /\ messageCh'[e][i] = messageCh[e][i]
          \/ i = Len(messageCh[e]) + 1 /\ messageCh'[e][i] = r
    BY <1>2, <1>3
  <1>5. \A t \in Requests : Unsent(t)' => t # r /\ Unsent(t)
    BY DEF IInv, RequestInv, Goto, Unsent
  <1>6. \A f \in Requests : \A i \in DOMAIN messageCh'[f] :
          \/ i \in DOMAIN messageCh[f] /\ messageCh'[f][i] = messageCh[f][i]
          \/ f = e /\ i = Len(messageCh[e]) + 1 /\ messageCh'[f][i] = r
    BY <1>2, <1>4
  <1>7. \A f \in Requests : \A i \in DOMAIN messageCh[f] : messageCh[f][i] # r
    BY DEF OnceInv
  <1>8. \A l \in Requests : InTurn(l) => Turn(l) # r
    BY DEF OnceInv
  <1>9. \A l \in Requests : (InTurn(l)' <=> InTurn(l)) /\ Turn(l)' = Turn(l)
    BY DEF InTurn, Turn
  <1>10. \A f, g \in Requests : \A i \in DOMAIN messageCh'[f], j \in DOMAIN messageCh'[g] :
           messageCh'[f][i] = messageCh'[g][j] => f = g /\ i = j
    BY <1>6, <1>7 DEF OnceInv
  <1>11. TurnRunsOnce'
    BY <1>6, <1>8, <1>9 DEF OnceInv, TurnRunsOnce
  <1>12. \A t \in Requests : Unsent(t)' =>
           /\ \A f \in Requests : \A i \in DOMAIN messageCh'[f] : messageCh'[f][i] # t
           /\ \A l \in Requests : InTurn(l)' => Turn(l)' # t
    BY <1>5, <1>6, <1>9 DEF OnceInv
  <1> QED
    BY <1>10, <1>11, <1>12 DEF OnceInv

\* A loop takes the first message of a queue, where it was the only one of its kind.
LEMMA OnceReceived ==
  ASSUME IInv, OnceInv, NEW l \in Requests, SelectMessage(l)
  PROVE  OnceInv'
  <1> DEFINE e == loop[l].src
             t == Head(messageCh[e])
  <1>1. /\ e \in Requests /\ messageCh[e] # <<>> /\ Receive(e) /\ request' = request
        /\ loop' = [loop EXCEPT ![l].pc = "context", ![l].msg = t]
    BY DEF SelectMessage, IInv, LoopInv, MateOrNone, Mates
  <1> HIDE DEF e
  <1>2. messageCh \in [Requests -> Seq(Requests)] /\ messageCh[e] \in Seq(Requests)
    BY <1>1 DEF IInv, RegistryInv
  <1>3. /\ messageCh'[e] = Tail(messageCh[e])
        /\ \A f \in Requests \ {e} : messageCh'[f] = messageCh[f]
    BY <1>1, <1>2 DEF Receive
  <1>4. 1 \in DOMAIN messageCh[e] /\ t = messageCh[e][1] /\ t \in Requests
    BY <1>1, <1>2
  <1>5. \A i \in DOMAIN messageCh'[e] :
          i + 1 \in DOMAIN messageCh[e] /\ i + 1 # 1 /\ messageCh'[e][i] = messageCh[e][i + 1]
    BY <1>1, <1>2, <1>3
  <1> HIDE DEF t
  <1>6. \A k \in Requests :
          /\ k # l => Turn(k)' = Turn(k) /\ (InTurn(k)' <=> InTurn(k))
          /\ k = l => Turn(k)' = t
    BY <1>1 DEF IInv, LoopInv, InTurn, Turn
  <1>7. \A f \in Requests : \A i \in DOMAIN messageCh'[f] : messageCh'[f][i] # t
    <2> SUFFICES ASSUME NEW f \in Requests, NEW i \in DOMAIN messageCh'[f], messageCh'[f][i] = t
        PROVE FALSE
      OBVIOUS
    <2>1. CASE f = e
      <3>1. i + 1 \in DOMAIN messageCh[e] /\ i + 1 # 1 /\ messageCh[e][i + 1] = messageCh[e][1]
        BY <1>4, <1>5, <2>1
      <3> QED
        BY <3>1, <1>1, <1>4 DEF OnceInv
    <2>2. CASE f # e
      <3>1. i \in DOMAIN messageCh[f] /\ messageCh[f][i] = messageCh[e][1]
        BY <1>3, <1>4, <2>2
      <3> QED
        BY <3>1, <1>1, <1>4, <2>2 DEF OnceInv
    <2> QED
      BY <2>1, <2>2
  <1>8. \A f, g \in Requests : \A i \in DOMAIN messageCh'[f], j \in DOMAIN messageCh'[g] :
           messageCh'[f][i] = messageCh'[g][j] => f = g /\ i = j
    <2> SUFFICES ASSUME NEW f \in Requests, NEW g \in Requests,
                        NEW i \in DOMAIN messageCh'[f], NEW j \in DOMAIN messageCh'[g],
                        messageCh'[f][i] = messageCh'[g][j]
        PROVE f = g /\ i = j
      OBVIOUS
    <2>1. messageCh'[e] \in Seq(Requests)
      BY <1>1, <1>2, <1>3, SeqOps
    <2>2. CASE f = e /\ g = e
      <3>1. i \in Nat /\ j \in Nat
        BY <2>1, <2>2
      <3>2. /\ i + 1 \in DOMAIN messageCh[e] /\ j + 1 \in DOMAIN messageCh[e]
            /\ messageCh[e][i + 1] = messageCh[e][j + 1]
        BY <1>5, <2>2
      <3>3. i + 1 = j + 1
        BY <1>1, <3>2 DEF OnceInv
      <3> QED
        BY <2>2, <3>1, <3>3
    <2>3. CASE f = e /\ g # e
      <3>1. i + 1 \in DOMAIN messageCh[e] /\ messageCh[e][i + 1] = messageCh[g][j]
            /\ j \in DOMAIN messageCh[g]
        BY <1>3, <1>5, <2>3
      <3> QED
        BY <1>1, <2>3, <3>1 DEF OnceInv
    <2>4. CASE f # e /\ g = e
      <3>1. j + 1 \in DOMAIN messageCh[e] /\ messageCh[f][i] = messageCh[e][j + 1]
            /\ i \in DOMAIN messageCh[f]
        BY <1>3, <1>5, <2>4
      <3> QED
        BY <1>1, <2>4, <3>1 DEF OnceInv
    <2>5. CASE f # e /\ g # e
      BY <1>3, <2>5 DEF OnceInv
    <2> QED
      BY <2>2, <2>3, <2>4, <2>5
  <1>9. \A f \in Requests : \A i \in DOMAIN messageCh'[f] :
          \E j \in DOMAIN messageCh[f] : messageCh'[f][i] = messageCh[f][j]
    BY <1>3, <1>5
  <1>10. \A k \in Requests : InTurn(k) => Turn(k) # t
    BY <1>1, <1>4 DEF OnceInv, TurnRunsOnce
  <1>11. TurnRunsOnce'
    BY <1>6, <1>7, <1>9, <1>10 DEF OnceInv, TurnRunsOnce
  <1>12. \A u \in Requests : Unsent(u)' => Unsent(u) /\ u # t
    BY <1>1, <1>4 DEF OnceInv, Unsent
  <1>13. \A u \in Requests : Unsent(u)' =>
           /\ \A f \in Requests : \A i \in DOMAIN messageCh'[f] : messageCh'[f][i] # u
           /\ \A k \in Requests : InTurn(k)' => Turn(k)' # u
    BY <1>6, <1>9, <1>12 DEF OnceInv
  <1> QED
    BY <1>8, <1>11, <1>13 DEF OnceInv

\* No other step moves a message or begins a turn.
LEMMA OnceStep == IInv /\ OnceInv /\ [Next]_vars => OnceInv'
  <1> SUFFICES ASSUME IInv, OnceInv, [Next]_vars PROVE OnceInv'
    OBVIOUS
  <1>t. /\ request \in [Requests -> [pc : RequestSteps, sub : Maybe, target : Maybe]]
        /\ loop \in [Requests -> [pc : LoopSteps, src : Maybe, msg : Maybe, target : Maybe]]
    BY DEF IInv, RequestInv, LoopInv
  <1>u. CASE UNCHANGED vars
    BY <1>u, OnceFrame DEF vars, registryVars, processorVars, Unsent, InTurn, Turn
  <1>a. ASSUME NEW r \in Requests, Arrive(r) PROVE OnceInv'
    <2>1. UNCHANGED <<messageCh, loop>>
      BY <1>a DEF Arrive, registryVars, processorVars
    <2>2. \A q \in Requests : Unsent(q)' => Unsent(q)
      BY <1>a, <1>t DEF Arrive, Goto, At, Unsent
    <2> QED
      BY <2>1, <2>2, OnceFrame DEF InTurn, Turn
  <1>b. ASSUME NEW r \in Requests, RequestStep(r) PROVE OnceInv'
    <2>1. CASE EnqueueSend(r) /\ Offer(request[r].target, r) /\ Goto(r, "start")
      <3>1. request[r].target \in Requests /\ Unsent(r) /\ loop' = loop
        BY <2>1 DEF EnqueueSend, At, Unsent, IInv, RequestInv, MateOrNone, Mates, processorVars
      <3> QED
        BY <2>1, <3>1, OnceOffered
    <2>2. CASE StartProcessing(r)
      <3>1. \A q \in Requests : Unsent(q)' => Unsent(q)
        BY <1>t, <2>2 DEF StartProcessing, Goto, At, Unsent
      <3>2. \A l \in Requests : InTurn(l)' => InTurn(l) /\ Turn(l)' = Turn(l)
        BY <1>t, <2>2 DEF StartProcessing, LoopGoto, InTurn, Turn
      <3> QED
        BY <2>2, <3>1, <3>2, OnceFrame DEF StartProcessing, registryVars
    <2>3. CASE Create(r) \/ SubscribeLookup(r) \/ SubscribeInsert(r) \/ EnqueueLookup(r)
      <3>1. UNCHANGED <<messageCh, loop>>
        BY <2>3 DEF Create, SubscribeLookup, SubscribeInsert, EnqueueLookup, CreateSession,
                    SubscribeToMissing, AddSubscriber, registryVars, processorVars
      <3>2. Unsent(r) /\ \A q \in Requests \ {r} : request'[q] = request[q]
        BY <1>t, <2>3 DEF Create, SubscribeLookup, SubscribeInsert, EnqueueLookup, At, Goto, Unsent
      <3>3. \A q \in Requests : Unsent(q)' => Unsent(q)
        BY <3>2 DEF Unsent
      <3> QED
        BY <3>1, <3>3, OnceFrame DEF InTurn, Turn
    <2>4. CASE EnqueueSend(r) /\ Goto(r, "refuse") /\ UNCHANGED registryVars
      <3>1. \A q \in Requests : Unsent(q)' => Unsent(q)
        BY <1>t, <2>4 DEF Goto, Unsent
      <3> QED
        BY <2>4, <3>1, OnceFrame DEF EnqueueSend, registryVars, processorVars, InTurn, Turn
    <2>5. CASE \/ Refuse(r) \/ Forward(r) \/ ChannelClosed(r) \/ DeferUnsubscribe(r)
               \/ StopProcessing(r) \/ RemoveDetach(r) \/ RemoveClose(r)
      <3>1. UNCHANGED <<messageCh, loop>>
        BY <2>5 DEF Refuse, Forward, ChannelClosed, DeferUnsubscribe, StopProcessing,
                    RemoveDetach, RemoveClose, Unsubscribe, TakeEvent, Detach, CloseEntry,
                    registryVars, processorVars
      <3>2. /\ \A q \in Requests \ {r} : request'[q] = request[q]
            /\ request'[r].pc \in {"refused", "stream", "unsubscribe", "stop", "remove", "close",
                                   "finished"}
        BY <1>t, <2>5 DEF Refuse, Forward, ChannelClosed, DeferUnsubscribe, StopProcessing,
                          RemoveDetach, RemoveClose, Goto
      <3>3. \A q \in Requests : Unsent(q)' => Unsent(q)
        BY <3>2 DEF Unsent
      <3> QED
        BY <3>1, <3>3, OnceFrame DEF InTurn, Turn
    <2> QED
      BY <1>b, <2>1, <2>2, <2>3, <2>4, <2>5 DEF RequestStep, EnqueueSend
  <1>d. ASSUME NEW l \in Requests, LoopStep(l) PROVE OnceInv'
    <2>1. CASE SelectMessage(l)
      BY <2>1, OnceReceived
    <2>2. CASE ~SelectMessage(l)
      <3>1. UNCHANGED <<messageCh, request>>
        BY <1>d, <2>2
        DEF LoopStep, OpenChannel, SelectDone, SessionContext, MarkTurn,
            PublishLookup, PublishDeliver, CreateExecutor, RegisterWithPool, StoreCancel,
            EmitChunk, CallConfirmedTool, ReturnFromTurn, AskUser, ReceiveReply,
            ConfirmTimeout, Decide, Unregister, ClearCancel, DropPool, ClearTurn, Exit,
            registryVars, PublishTo, StoreTurnCancel, RegisterAskUser, UnregisterAskUser
      <3>2. \A k \in Requests \ {l} : loop'[k] = loop[k]
        BY <1>d, <1>t, <2>2
        DEF LoopStep, LoopGoto, OpenChannel, SelectDone, SessionContext, MarkTurn,
            PublishLookup, PublishDeliver, CreateExecutor, RegisterWithPool, StoreCancel,
            EmitChunk, CallConfirmedTool, ReturnFromTurn, AskUser, ReceiveReply,
            ConfirmTimeout, Decide, Unregister, ClearCancel, DropPool, ClearTurn, Exit
      <3>3. loop'[l].msg = loop[l].msg
        BY <1>d, <1>t, <2>2
        DEF LoopStep, LoopGoto, OpenChannel, SelectDone, SessionContext, MarkTurn,
            PublishLookup, PublishDeliver, CreateExecutor, RegisterWithPool, StoreCancel,
            EmitChunk, CallConfirmedTool, ReturnFromTurn, AskUser, ReceiveReply,
            ConfirmTimeout, Decide, Unregister, ClearCancel, DropPool, ClearTurn, Exit
      <3>4. InTurn(l)' => InTurn(l)
        BY <1>d, <1>t, <2>2
        DEF LoopStep, LoopGoto, LoopAt, InTurn, OpenChannel, SelectDone, SessionContext,
            MarkTurn, PublishLookup, PublishDeliver, CreateExecutor, RegisterWithPool,
            StoreCancel, EmitChunk, CallConfirmedTool, ReturnFromTurn, AskUser, ReceiveReply,
            ConfirmTimeout, Decide, Unregister, ClearCancel, DropPool, ClearTurn, Exit,
            Published
      <3> QED
        BY <3>1, <3>2, <3>3, <3>4, OnceFrame DEF InTurn, Turn, Unsent
    <2> QED
      BY <2>1, <2>2
  <1>e. ASSUME \/ \E s \in Sessions : Cancel(s)
               \/ \E t \in Requests, reply \in {"yes", "no"} : Reply(t, reply)
        PROVE  OnceInv'
    <2>1. UNCHANGED <<messageCh, loop, request>>
      BY <1>e DEF Cancel, Reply, SendAskUserReply, registryVars
    <2> QED
      BY <2>1, OnceFrame DEF InTurn, Turn, Unsent
  <1> QED
    BY <1>u, <1>a, <1>b, <1>d, <1>e DEF Next

\* However many loops of a session read its messages, each message is handled in one turn
\* (processor.go: processMessages; session_registry.go: EnqueueMessage, MessageChannel).
THEOREM HandledOnce == Spec => []TurnRunsOnce
  <1>1. Init => OnceInv
    BY DEF Init, RegistryInit, OnceInv, TurnRunsOnce, InTurn
  <1>2. OnceInv => TurnRunsOnce
    BY DEF OnceInv
  <1> QED
    BY <1>1, <1>2, OnceStep, Invariance, PTL DEF Spec

-----------------------------------------------------------------------------
(* The events of a turn come in order                                      *)

\* The order in which processMessage emits the events of a turn; chunks and questions mix.
Place == [user |-> 1, started |-> 2, chunk |-> 3, question |-> 3, error |-> 4, done |-> 5]
Precedes(a, b) ==
  a.turn = b.turn =>
    Place[a.kind] < Place[b.kind] \/ (Place[a.kind] = 3 /\ Place[b.kind] = 3)

\* How far a loop at a step of a turn may have come with its events.
Reached(step) ==
  IF step \in {"context", "mark", "user"} THEN 0
  ELSE IF step = "started" THEN 1
  ELSE IF step \in {"done", "noModelDone"} THEN 4
  ELSE IF step \in {"clearCancel", "dropPool", "clearTurn"} THEN 5
  ELSE 3

\* What was published for a request: forwarded or still in its channel.
Emitted(r) ==
  {stream[r][i] : i \in DOMAIN stream[r]} \cup {channel[r].buf[i] : i \in DOMAIN channel[r].buf}

InOrder(r) ==
  /\ \A i \in DOMAIN stream[r] : stream[r][i].kind \in Forwarded
  /\ \A i, j \in DOMAIN stream[r] : i < j => Precedes(stream[r][i], stream[r][j])
  /\ \A i \in DOMAIN stream[r], j \in DOMAIN channel[r].buf :
       Precedes(stream[r][i], channel[r].buf[j])
  /\ \A i, j \in DOMAIN channel[r].buf :
       i < j => Precedes(channel[r].buf[i], channel[r].buf[j])

Queued(t) == \E e \in Requests : \E i \in DOMAIN messageCh[e] : messageCh[e][i] = t

\* An event is of a turn that has begun and has come that far.
Fits(ev) ==
  /\ ~Unsent(ev.turn) /\ ~Queued(ev.turn)
  /\ \A l \in Requests : InTurn(l) /\ Turn(l) = ev.turn => Place[ev.kind] <= Reached(loop[l].pc)

OrderInv ==
  /\ \A r \in Requests : InOrder(r)
  /\ \A r \in Requests : \A ev \in Emitted(r) : Fits(ev)

\* A step of the turns and queues: a message is queued only when it was unsent, a turn only
\* begins with a queued message, and a turn comes no less far.
TurnsGoOn ==
  /\ \A t \in Requests : Unsent(t)' => Unsent(t)
  /\ \A t \in Requests : Queued(t)' => Queued(t) \/ Unsent(t)
  /\ \A l \in Requests : InTurn(l)' =>
       \/ Queued(Turn(l)')
       \/ InTurn(l) /\ Turn(l)' = Turn(l) /\ Reached(loop[l].pc) <= Reached(loop'[l].pc)

LEMMA ReachedNat == \A step : Reached(step) \in {0, 1, 3, 4, 5}
  BY DEF Reached

LEMMA PlaceNat == \A kind \in EventKinds : Place[kind] \in 1..5
  BY DEF Place, EventKinds

LEMMA EmittedTypes ==
  ASSUME IInv, NEW r \in Requests
  PROVE  /\ stream[r] \in Seq(Events) /\ channel[r].buf \in Seq(Events)
         /\ Emitted(r) \subseteq Events
  <1>1. stream[r] \in Seq(Events) /\ channel[r].buf \in Seq(Events)
    BY DEF IInv, OtherInv, RegistryInv
  <1> QED
    BY <1>1, SeqElements DEF Emitted

\* What was published goes on fitting.
LEMMA FitsOn ==
  ASSUME TurnsGoOn, NEW ev \in Events, Fits(ev)
  PROVE  Fits(ev)'
  <1>1. ev.turn \in Requests /\ Place[ev.kind] \in Nat
    BY PlaceNat DEF Events
  <1>2. \A l \in Requests : Reached(loop[l].pc) \in Nat /\ Reached(loop'[l].pc) \in Nat
    BY ReachedNat
  <1>3. ~Unsent(ev.turn)' /\ ~Queued(ev.turn)'
    BY <1>1 DEF TurnsGoOn, Fits
  <1>4. \A l \in Requests : InTurn(l)' /\ Turn(l)' = ev.turn => Place[ev.kind] <= Reached(loop'[l].pc)
    BY <1>1, <1>2 DEF TurnsGoOn, Fits
  <1> QED
    BY <1>3, <1>4 DEF Fits

\* Streams and channels hold the same events.
LEMMA OrderFrame ==
  ASSUME IInv, OrderInv, TurnsGoOn, stream' = stream,
         \A r \in Requests : channel'[r].buf = channel[r].buf
  PROVE  OrderInv'
  <1>1. \A r \in Requests : Emitted(r)' = Emitted(r) /\ InOrder(r)'
    BY DEF OrderInv, InOrder, Emitted
  <1>2. \A r \in Requests : \A ev \in Emitted(r) : Fits(ev)'
    BY EmittedTypes, FitsOn DEF OrderInv
  <1> QED
    BY <1>1, <1>2 DEF OrderInv

\* The fan-out forwards the first event of its channel, or drops it.
LEMMA OrderForward ==
  ASSUME IInv, OrderInv, NEW r \in Requests, Forward(r)
  PROVE  OrderInv'
  <1> DEFINE ev == Head(channel[r].buf)
  <1>1. /\ channel[r].buf # <<>> /\ TakeEvent(r) /\ UNCHANGED <<messageCh, loop>>
        /\ stream' = IF ev.kind \in Forwarded THEN [stream EXCEPT ![r] = Append(@, ev)] ELSE stream
    BY DEF Forward, TakeEvent, processorVars
  <1>2. stream[r] \in Seq(Events) /\ channel[r].buf \in Seq(Events)
    BY EmittedTypes
  <1>3. ev = channel[r].buf[1] /\ 1 \in DOMAIN channel[r].buf
    BY <1>1, <1>2
  <1>4. channel'[r].buf = Tail(channel[r].buf)
        /\ \A q \in Requests \ {r} : channel'[q].buf = channel[q].buf
    BY <1>1 DEF TakeEvent, IInv, RegistryInv
  <1>5. \A i \in DOMAIN channel'[r].buf :
          /\ i \in Nat /\ i + 1 \in DOMAIN channel[r].buf /\ 1 < i + 1
          /\ channel'[r].buf[i] = channel[r].buf[i + 1]
    BY <1>1, <1>2, <1>4
  <1> HIDE DEF ev
  <1>6. /\ \A q \in Requests \ {r} : stream'[q] = stream[q]
        /\ stream'[r] = stream[r] \/ (ev.kind \in Forwarded /\ stream'[r] = Append(stream[r], ev))
    BY <1>1 DEF IInv, OtherInv
  <1>7. \A i \in DOMAIN stream'[r] :
          \/ i \in DOMAIN stream[r] /\ stream'[r][i] = stream[r][i]
          \/ /\ i = Len(stream[r]) + 1 /\ stream'[r][i] = ev /\ ev.kind \in Forwarded
             /\ \A j \in DOMAIN stream[r] : j < i
    BY <1>2, <1>6
  <1>8. DOMAIN stream[r] \subseteq Nat /\ Len(stream[r]) \in Nat
        /\ \A i \in DOMAIN stream[r] : i <= Len(stream[r])
    BY <1>2
  <1>9. InOrder(r)'
    <2>1. \A i \in DOMAIN stream'[r] : stream'[r][i].kind \in Forwarded
      BY <1>7 DEF OrderInv, InOrder
    <2>2. \A i, j \in DOMAIN stream'[r] : i < j => Precedes(stream'[r][i], stream'[r][j])
      <3> SUFFICES ASSUME NEW i \in DOMAIN stream'[r], NEW j \in DOMAIN stream'[r], i < j
          PROVE Precedes(stream'[r][i], stream'[r][j])
        OBVIOUS
      <3>1. i \in DOMAIN stream[r] /\ stream'[r][i] = stream[r][i]
        BY <1>7, <1>8
      <3>2. CASE j \in DOMAIN stream[r] /\ stream'[r][j] = stream[r][j]
        BY <3>1, <3>2 DEF OrderInv, InOrder
      <3>3. CASE stream'[r][j] = ev
        BY <3>1, <3>3, <1>3 DEF OrderInv, InOrder
      <3> QED
        BY <1>7, <3>2, <3>3
    <2>3. \A i \in DOMAIN stream'[r], j \in DOMAIN channel'[r].buf :
            Precedes(stream'[r][i], channel'[r].buf[j])
      <3> SUFFICES ASSUME NEW i \in DOMAIN stream'[r], NEW j \in DOMAIN channel'[r].buf
          PROVE Precedes(stream'[r][i], channel'[r].buf[j])
        OBVIOUS
      <3>1. j + 1 \in DOMAIN channel[r].buf /\ 1 < j + 1 /\ channel'[r].buf[j] = channel[r].buf[j + 1]
        BY <1>5
      <3>2. CASE i \in DOMAIN stream[r] /\ stream'[r][i] = stream[r][i]
        BY <3>1, <3>2 DEF OrderInv, InOrder
      <3>3. CASE stream'[r][i] = ev
        BY <3>1, <3>3, <1>3 DEF OrderInv, InOrder
      <3> QED
        BY <1>7, <3>2, <3>3
    <2>4. \A i, j \in DOMAIN channel'[r].buf :
            i < j => Precedes(channel'[r].buf[i], channel'[r].buf[j])
      <3> SUFFICES ASSUME NEW i \in DOMAIN channel'[r].buf, NEW j \in DOMAIN channel'[r].buf, i < j
          PROVE Precedes(channel'[r].buf[i], channel'[r].buf[j])
        OBVIOUS
      <3>1. /\ i + 1 \in DOMAIN channel[r].buf /\ j + 1 \in DOMAIN channel[r].buf /\ i + 1 < j + 1
            /\ channel'[r].buf[i] = channel[r].buf[i + 1]
            /\ channel'[r].buf[j] = channel[r].buf[j + 1]
        BY <1>5
      <3> QED
        BY <3>1 DEF OrderInv, InOrder
    <2> QED
      BY <2>1, <2>2, <2>3, <2>4 DEF InOrder
  <1>10. \A q \in Requests : Emitted(q)' \subseteq Emitted(q)
    <2>1. \A q \in Requests \ {r} : Emitted(q)' = Emitted(q)
      BY <1>4, <1>6 DEF Emitted
    <2>2. Emitted(r)' \subseteq Emitted(r)
      BY <1>3, <1>5, <1>7 DEF Emitted
    <2> QED
      BY <2>1, <2>2
  <1>11. TurnsGoOn
    <2>1. \A t \in Requests : Unsent(t)' => Unsent(t)
      BY DEF Forward, Goto, At, Unsent, IInv, RequestInv
    <2> QED
      BY <1>1, <2>1, ReachedNat DEF TurnsGoOn, Queued, InTurn, Turn
  <1>12. \A q \in Requests \ {r} : InOrder(q)'
    BY <1>4, <1>6 DEF OrderInv, InOrder
  <1>13. \A q \in Requests : \A x \in Emitted(q)' : Fits(x)'
    BY <1>10, <1>11, EmittedTypes, FitsOn DEF OrderInv
  <1> QED
    BY <1>9, <1>12, <1>13 DEF OrderInv

\* A loop publishes the next event of its turn.
LEMMA OrderPublish ==
  ASSUME IInv, OnceInv, OrderInv, NEW l \in Requests, PublishDeliver(l), TurnsGoOn,
         NEW step \in DOMAIN Published, step = loop[l].pc,
         NEW t \in Requests, t = Turn(l), NEW ev \in Events,
         ev = [kind |-> Published[step], turn |-> t]
  PROVE  OrderInv'
  <1>1. /\ PublishTo(loop[l].target, ev) /\ stream' = stream
        /\ loop' = [loop EXCEPT ![l].pc = NextStep[step], ![l].target = NoOne]
        /\ messageCh' = messageCh /\ request' = request
    BY DEF PublishDeliver, PublishTo
  <1>2. InTurn(l) /\ ev.turn = t /\ ev.kind = Published[step] /\ ev.kind \in EventKinds
    BY DEF Published, InTurn, Events
  <1>4. /\ loop'[l].pc = NextStep[step] /\ loop'[l].msg = loop[l].msg
        /\ \A k \in Requests \ {l} : loop'[k] = loop[k]
    BY <1>1 DEF IInv, LoopInv
  <1>5. /\ Reached(step) < Place[ev.kind] \/ (Place[ev.kind] = 3 /\ Reached(step) = 3)
        /\ Place[ev.kind] <= Reached(NextStep[step])
    BY <1>2 DEF Place, Published, NextStep, Reached
  <1>6. ~Unsent(t) /\ ~Queued(t) /\ \A k \in Requests : InTurn(k) /\ Turn(k) = t => k = l
    BY <1>2 DEF OnceInv, TurnRunsOnce, Queued
  <1>p. Place[ev.kind] \in Nat /\ Reached(step) \in {0, 1, 3, 4, 5}
    BY <1>2, PlaceNat, ReachedNat
  <1>7. \A r \in Requests : \A x \in Emitted(r) : Precedes(x, ev)
    <2> SUFFICES ASSUME NEW r \in Requests, NEW x \in Emitted(r), x.turn = t
        PROVE Place[x.kind] < Place[ev.kind] \/ (Place[x.kind] = 3 /\ Place[ev.kind] = 3)
      BY <1>2 DEF Precedes
    <2>1. Place[x.kind] <= Reached(step)
      BY <1>2 DEF OrderInv, Fits
    <2>2. x.kind \in EventKinds
      BY EmittedTypes DEF Events
    <2>3. Place[x.kind] \in Nat
      BY <2>2, PlaceNat
    <2> QED
      BY <1>5, <1>p, <2>1, <2>3
  <1>8. Fits(ev)'
    <2>1. \A k \in Requests : InTurn(k)' /\ Turn(k)' = t => k = l
      BY <1>4, <1>6 DEF InTurn, Turn
    <2>2. (Unsent(t)' <=> Unsent(t)) /\ (Queued(t)' <=> Queued(t))
      BY <1>1 DEF Unsent, Queued
    <2> QED
      BY <1>2, <1>4, <1>5, <1>6, <2>1, <2>2 DEF Fits
  <1>9. \A r \in Requests :
          \/ channel'[r].buf = channel[r].buf
          \/ channel'[r].buf = Append(channel[r].buf, ev)
    BY <1>1 DEF PublishTo, IInv, RegistryInv
  <1>10. ASSUME NEW r \in Requests PROVE InOrder(r)' /\ \A x \in Emitted(r)' : Fits(x)'
    <2>1. CASE channel'[r].buf = channel[r].buf
      <3>1. Emitted(r)' = Emitted(r) /\ InOrder(r)'
        BY <1>1, <2>1 DEF OrderInv, InOrder, Emitted
      <3> QED
        BY <3>1, EmittedTypes, FitsOn DEF OrderInv
    <2>2. CASE channel'[r].buf = Append(channel[r].buf, ev)
      <3>1. stream[r] \in Seq(Events) /\ channel[r].buf \in Seq(Events)
        BY EmittedTypes
      <3>2. \A i \in DOMAIN channel'[r].buf :
              \/ i \in DOMAIN channel[r].buf /\ channel'[r].buf[i] = channel[r].buf[i]
              \/ i = Len(channel[r].buf) + 1 /\ channel'[r].buf[i] = ev
        BY <2>2, <3>1
      <3>3. \A i \in DOMAIN channel[r].buf : i \in Nat /\ i < Len(channel[r].buf) + 1
        BY <3>1
      <3>4. Len(channel[r].buf) \in Nat
        BY <3>1
      <3>5. \A i \in DOMAIN stream[r] : Precedes(stream[r][i], ev)
        BY <1>7 DEF Emitted
      <3>6. \A i \in DOMAIN channel[r].buf : Precedes(channel[r].buf[i], ev)
        BY <1>7 DEF Emitted
      <3>7. \A i, j \in DOMAIN channel'[r].buf :
              i < j => Precedes(channel'[r].buf[i], channel'[r].buf[j])
        <4> SUFFICES ASSUME NEW i \in DOMAIN channel'[r].buf, NEW j \in DOMAIN channel'[r].buf, i < j
            PROVE Precedes(channel'[r].buf[i], channel'[r].buf[j])
          OBVIOUS
        <4>1. i \in DOMAIN channel[r].buf /\ channel'[r].buf[i] = channel[r].buf[i]
          BY <3>2, <3>3, <3>4
        <4>2. CASE j \in DOMAIN channel[r].buf /\ channel'[r].buf[j] = channel[r].buf[j]
          BY <4>1, <4>2 DEF OrderInv, InOrder
        <4>3. CASE channel'[r].buf[j] = ev
          BY <4>1, <4>3, <3>6
        <4> QED
          BY <3>2, <4>2, <4>3
      <3>8. \A i \in DOMAIN stream'[r], j \in DOMAIN channel'[r].buf :
              Precedes(stream'[r][i], channel'[r].buf[j])
        BY <1>1, <3>2, <3>5 DEF OrderInv, InOrder
      <3>9. InOrder(r)'
        BY <1>1, <3>7, <3>8 DEF OrderInv, InOrder
      <3>10. Emitted(r)' \subseteq Emitted(r) \cup {ev}
        BY <1>1, <3>2 DEF Emitted
      <3>11. \A x \in Emitted(r) : Fits(x)'
        BY EmittedTypes, FitsOn DEF OrderInv
      <3> QED
        BY <1>8, <3>9, <3>10, <3>11
    <2> QED
      BY <1>9, <2>1, <2>2
  <1> QED
    BY <1>10 DEF OrderInv

\* Requests only go on, and a message they send was unsent.
LEMMA RequestsGoOn ==
  ASSUME IInv, OnceInv, NEW r \in Requests, Arrive(r) \/ RequestStep(r)
  PROVE  TurnsGoOn
  <1>t. /\ request \in [Requests -> [pc : RequestSteps, sub : Maybe, target : Maybe]]
        /\ loop \in [Requests -> [pc : LoopSteps, src : Maybe, msg : Maybe, target : Maybe]]
        /\ messageCh \in [Requests -> Seq(Requests)]
    BY DEF IInv, RegistryInv, RequestInv, LoopInv
  <1>1. \A q \in Requests \ {r} : request'[q] = request[q]
    BY <1>t
    DEF RequestStep, Goto, Arrive, Create, SubscribeLookup, SubscribeInsert, EnqueueLookup,
        EnqueueSend, Refuse, StartProcessing, Forward, ChannelClosed, DeferUnsubscribe,
        StopProcessing, RemoveDetach, RemoveClose
  <1>2. Unsent(r)' => Unsent(r)
    BY <1>t
    DEF RequestStep, Goto, At, Unsent, Arrive, Create, SubscribeLookup, SubscribeInsert,
        EnqueueLookup, EnqueueSend, Refuse, StartProcessing, Forward, ChannelClosed,
        DeferUnsubscribe, StopProcessing, RemoveDetach, RemoveClose
  <1>3. \A t \in Requests : Unsent(t)' => Unsent(t)
    BY <1>1, <1>2 DEF Unsent
  <1>4. \A l \in Requests : InTurn(l)' => InTurn(l) /\ Turn(l)' = Turn(l) /\ loop'[l].pc = loop[l].pc
    <2>1. CASE StartProcessing(r)
      BY <1>t, <2>1 DEF StartProcessing, LoopGoto, InTurn, Turn
    <2>2. CASE ~StartProcessing(r)
      <3>1. loop' = loop
        BY <2>2
        DEF RequestStep, Arrive, Create, SubscribeLookup, SubscribeInsert, EnqueueLookup,
            EnqueueSend, Refuse, Forward, ChannelClosed, DeferUnsubscribe, StopProcessing,
            RemoveDetach, RemoveClose, processorVars
      <3> QED
        BY <3>1 DEF InTurn, Turn
    <2> QED
      BY <2>1, <2>2
  <1>5. \A t \in Requests : Queued(t)' => Queued(t) \/ Unsent(t)
    <2>1. CASE EnqueueSend(r)
      <3>1. CASE Offer(request[r].target, r)
        <4>1. request[r].target \in Requests /\ Unsent(r)
          BY <2>1 DEF EnqueueSend, At, Unsent, IInv, RequestInv, MateOrNone, Mates
        <4>2. PICK e \in Requests : e = request[r].target
          BY <4>1
        <4>3. /\ messageCh'[e] = Append(messageCh[e], r) /\ messageCh[e] \in Seq(Requests)
              /\ \A f \in Requests \ {e} : messageCh'[f] = messageCh[f]
          BY <1>t, <3>1, <4>2 DEF Offer
        <4>4. \A i \in DOMAIN messageCh'[e] :
                messageCh'[e][i] = r \/ (i \in DOMAIN messageCh[e] /\ messageCh'[e][i] = messageCh[e][i])
          BY <4>3
        <4> QED
          BY <4>1, <4>3, <4>4 DEF Queued
      <3>2. CASE messageCh' = messageCh
        BY <3>2 DEF Queued
      <3> QED
        BY <2>1, <3>1, <3>2 DEF EnqueueSend, registryVars
    <2>2. CASE ~EnqueueSend(r)
      <3>1. messageCh' = messageCh
        BY <2>2
        DEF RequestStep, Arrive, Create, SubscribeLookup, SubscribeInsert, EnqueueLookup,
            Refuse, StartProcessing, Forward, ChannelClosed, DeferUnsubscribe,
            StopProcessing, RemoveDetach, RemoveClose, CreateSession, SubscribeToMissing,
            AddSubscriber, Unsubscribe, TakeEvent, Detach, CloseEntry, registryVars
      <3> QED
        BY <3>1 DEF Queued
    <2> QED
      BY <2>1, <2>2
  <1> QED
    BY <1>3, <1>4, <1>5, ReachedNat DEF TurnsGoOn

\* Loops only go on with their turn, and begin one with a message of their queue.
LEMMA LoopsGoOn ==
  ASSUME IInv, NEW l \in Requests, LoopStep(l)
  PROVE  TurnsGoOn
  <1>t. /\ loop \in [Requests -> [pc : LoopSteps, src : Maybe, msg : Maybe, target : Maybe]]
        /\ messageCh \in [Requests -> Seq(Requests)]
    BY DEF IInv, RegistryInv, LoopInv
  <1>1. request' = request /\ \A k \in Requests \ {l} : loop'[k] = loop[k]
    BY <1>t
    DEF LoopStep, LoopGoto, OpenChannel, SelectDone, SelectMessage, SessionContext, MarkTurn,
        PublishLookup, PublishDeliver, CreateExecutor, RegisterWithPool, StoreCancel,
        EmitChunk, CallConfirmedTool, ReturnFromTurn, AskUser, ReceiveReply,
        ConfirmTimeout, Decide, Unregister, ClearCancel, DropPool, ClearTurn, Exit
  <1>2. \A t \in Requests : Unsent(t)' <=> Unsent(t)
    BY <1>1 DEF Unsent
  <1>3. \A k \in Requests \ {l} :
          (InTurn(k)' <=> InTurn(k)) /\ Turn(k)' = Turn(k) /\ loop'[k].pc = loop[k].pc
    BY <1>1 DEF InTurn, Turn
  <1>4. CASE SelectMessage(l)
    <2>1. PICK e \in Requests : e = loop[l].src /\ messageCh[e] # <<>> /\ Receive(e)
      BY <1>4 DEF SelectMessage, IInv, LoopInv, MateOrNone, Mates
    <2>2. /\ messageCh[e] \in Seq(Requests) /\ messageCh'[e] = Tail(messageCh[e])
          /\ \A f \in Requests \ {e} : messageCh'[f] = messageCh[f]
      BY <1>t, <2>1 DEF Receive
    <2>3. \A i \in DOMAIN messageCh'[e] :
            i + 1 \in DOMAIN messageCh[e] /\ messageCh'[e][i] = messageCh[e][i + 1]
      BY <2>1, <2>2
    <2>4. \A t \in Requests : Queued(t)' => Queued(t)
      BY <2>2, <2>3 DEF Queued
    <2>5. 1 \in DOMAIN messageCh[e] /\ Head(messageCh[e]) = messageCh[e][1]
      BY <2>1, <2>2
    <2>6. Turn(l)' = messageCh[e][1]
      BY <1>t, <1>4, <2>1, <2>5 DEF SelectMessage, Turn
    <2>7. Queued(Turn(l)')
      BY <2>5, <2>6 DEF Queued
    <2> QED
      BY <1>2, <1>3, <2>4, <2>7, ReachedNat DEF TurnsGoOn
  <1>5. CASE ~SelectMessage(l)
    <2>1. messageCh' = messageCh
      BY <1>5
      DEF LoopStep, OpenChannel, SelectDone, SessionContext, MarkTurn,
          PublishLookup, PublishDeliver, CreateExecutor, RegisterWithPool, StoreCancel,
          EmitChunk, CallConfirmedTool, ReturnFromTurn, AskUser, ReceiveReply,
          ConfirmTimeout, Decide, Unregister, ClearCancel, DropPool, ClearTurn, Exit,
          registryVars, PublishTo, StoreTurnCancel, RegisterAskUser, UnregisterAskUser
    <2>2. Turn(l)' = Turn(l)
      BY <1>t, <1>5
      DEF LoopStep, LoopGoto, Turn, OpenChannel, SelectDone, SessionContext, MarkTurn,
          PublishLookup, PublishDeliver, CreateExecutor, RegisterWithPool, StoreCancel,
          EmitChunk, CallConfirmedTool, ReturnFromTurn, AskUser, ReceiveReply,
          ConfirmTimeout, Decide, Unregister, ClearCancel, DropPool, ClearTurn, Exit
    <2>3. InTurn(l)' => InTurn(l) /\ Reached(loop[l].pc) <= Reached(loop'[l].pc)
      BY <1>t, <1>5
      DEF LoopStep, LoopGoto, LoopAt, InTurn, OpenChannel, SelectDone, SessionContext,
          MarkTurn, PublishLookup, PublishDeliver, CreateExecutor, RegisterWithPool,
          StoreCancel, EmitChunk, CallConfirmedTool, ReturnFromTurn, AskUser, ReceiveReply,
          ConfirmTimeout, Decide, Unregister, ClearCancel, DropPool, ClearTurn, Exit,
          Published, NextStep, Reached
    <2>4. \A t \in Requests : Queued(t)' => Queued(t)
      BY <2>1 DEF Queued
    <2> QED
      BY <1>2, <1>3, <2>2, <2>3, <2>4, ReachedNat DEF TurnsGoOn
  <1> QED
    BY <1>4, <1>5

\* What leaves requests, loops and messages alone.
LEMMA NothingGoesOn ==
  ASSUME UNCHANGED <<messageCh, loop, request>>
  PROVE  TurnsGoOn
  BY ReachedNat DEF TurnsGoOn, Unsent, Queued, InTurn, Turn

LEMMA OrderStep == IInv /\ OnceInv /\ OrderInv /\ [Next]_vars => OrderInv'
  <1> SUFFICES ASSUME IInv, OnceInv, OrderInv, [Next]_vars PROVE OrderInv'
    OBVIOUS
  <1>t. /\ channel \in [Requests -> [buf : Seq(Events), closed : BOOLEAN]]
        /\ \A r \in Requests : channel[r].buf \in Seq(EventsOf(SessionOf[r]))
    BY DEF IInv, RegistryInv
  <1>u. CASE UNCHANGED vars
    <2>1. UNCHANGED <<messageCh, loop, request, channel, stream>>
      BY <1>u DEF vars, registryVars, processorVars
    <2> QED
      BY <2>1, NothingGoesOn, OrderFrame
  <1>a. ASSUME NEW r \in Requests, Arrive(r) PROVE OrderInv'
    <2>1. UNCHANGED <<channel, stream>>
      BY <1>a DEF Arrive, registryVars
    <2> QED
      BY <1>a, <2>1, RequestsGoOn, OrderFrame
  <1>b. ASSUME NEW r \in Requests, RequestStep(r) PROVE OrderInv'
    <2>1. CASE Forward(r)
      BY <2>1, OrderForward
    <2>2. CASE ~Forward(r)
      <3>1. stream' = stream
        BY <1>b, <2>2
        DEF RequestStep, Create, SubscribeLookup, SubscribeInsert, EnqueueLookup, EnqueueSend,
            Refuse, StartProcessing, ChannelClosed, DeferUnsubscribe, StopProcessing,
            RemoveDetach, RemoveClose
      <3>2. \A q \in Requests : channel'[q].buf = channel[q].buf
        <4>1. CASE SubscribeLookup(r)
          <5>1. channel' = channel \/ channel' = [channel EXCEPT ![r].closed = TRUE]
            BY <4>1 DEF SubscribeLookup, SubscribeToMissing, registryVars
          <5> QED
            BY <1>t, <5>1
        <4>2. CASE RemoveClose(r)
          <5>1. \A q \in Requests :
                  channel'[q] = channel[q] \/ channel'[q] = [channel[q] EXCEPT !.closed = TRUE]
            BY <4>2 DEF RemoveClose, CloseEntry
          <5> QED
            BY <1>t, <5>1
        <4>3. CASE ~SubscribeLookup(r) /\ ~RemoveClose(r)
          <5>1. channel' = channel
            BY <1>b, <2>2, <4>3
            DEF RequestStep, Create, SubscribeInsert, EnqueueLookup, EnqueueSend,
                Refuse, StartProcessing, ChannelClosed, DeferUnsubscribe, StopProcessing,
                RemoveDetach, CreateSession, AddSubscriber, Offer, Unsubscribe, Detach,
                registryVars
          <5> QED
            BY <5>1
        <4> QED
          BY <4>1, <4>2, <4>3
      <3> QED
        BY <1>b, <3>1, <3>2, RequestsGoOn, OrderFrame
    <2> QED
      BY <2>1, <2>2
  <1>d. ASSUME NEW l \in Requests, LoopStep(l) PROVE OrderInv'
    <2>1. TurnsGoOn
      BY <1>d, LoopsGoOn
    <2>2. CASE PublishDeliver(l)
      <3>1. PICK step \in DOMAIN Published : step = loop[l].pc
        BY <2>2 DEF PublishDeliver
      <3>2. InTurn(l) /\ Turn(l) \in Requests
        BY <3>1 DEF Published, InTurn, Turn, IInv, LoopInv, MateOrNone, Mates
      <3>3. PICK t \in Requests : t = Turn(l)
        BY <3>2
      <3>4. [kind |-> Published[step], turn |-> t] \in Events
        BY <3>1 DEF Published, Events, EventKinds
      <3>5. PICK ev \in Events : ev = [kind |-> Published[step], turn |-> t]
        BY <3>4
      <3> QED
        BY <2>1, <2>2, <3>1, <3>3, <3>5, OrderPublish
    <2>3. CASE ~PublishDeliver(l)
      <3>1. UNCHANGED <<channel, stream>>
        BY <1>d, <2>3
        DEF LoopStep, OpenChannel, SelectDone, SelectMessage, SessionContext, MarkTurn,
            PublishLookup, CreateExecutor, RegisterWithPool, StoreCancel,
            EmitChunk, CallConfirmedTool, ReturnFromTurn, AskUser, ReceiveReply,
            ConfirmTimeout, Decide, Unregister, ClearCancel, DropPool, ClearTurn, Exit,
            registryVars, Receive, StoreTurnCancel, RegisterAskUser, UnregisterAskUser
      <3> QED
        BY <2>1, <3>1, OrderFrame
    <2> QED
      BY <2>2, <2>3
  <1>e. ASSUME \/ \E s \in Sessions : Cancel(s)
               \/ \E t \in Requests, reply \in {"yes", "no"} : Reply(t, reply)
        PROVE  OrderInv'
    <2>1. UNCHANGED <<messageCh, loop, request, channel, stream>>
      BY <1>e DEF Cancel, Reply, SendAskUserReply, registryVars
    <2> QED
      BY <2>1, NothingGoesOn, OrderFrame
  <1> QED
    BY <1>u, <1>a, <1>b, <1>d, <1>e DEF Next

\* In every stream the events of a turn come in the order processMessage emits them, whatever
\* other turns of the session send in between (processor.go: processMessage, PublishEvent; the
\* fan-out of chat_http_adapter.go).
THEOREM InOrderTurns == Spec => []TurnOrder
  <1>1. Init => OnceInv /\ OrderInv
    BY DEF Init, RegistryInit, OnceInv, TurnRunsOnce, InTurn, OrderInv, InOrder, Emitted
  <1>2. OrderInv => TurnOrder
    <2> SUFFICES ASSUME OrderInv, NEW r \in Requests,
                        NEW i \in DOMAIN stream[r], NEW j \in DOMAIN stream[r], i < j,
                        stream[r][i].turn = stream[r][j].turn
        PROVE LET first == Rank[stream[r][i].kind]
                  second == Rank[stream[r][j].kind] IN
              first < second \/ (first = 1 /\ second = 1)
      BY DEF TurnOrder
    <2>1. stream[r][i].kind \in Forwarded /\ stream[r][j].kind \in Forwarded
      BY DEF OrderInv, InOrder
    <2>2. Precedes(stream[r][i], stream[r][j])
      BY DEF OrderInv, InOrder
    <2> QED
      BY <2>1, <2>2 DEF Precedes, Place, Rank, Forwarded
  <1> QED
    BY <1>1, <1>2, OnceStep, OrderStep, Invariance, PTL DEF Spec

-----------------------------------------------------------------------------
(* Clients that wait for their response                                    *)

\* A client has one request in flight, and its message finds room in an empty queue.
ClientsWait == ~Overlap /\ MessageBuffer # 0

\* A request between its arrival and its end.
InFlight(r) == ~At(r, "new") /\ ~Over(r)

\* What a loop does before it has published the "done" of its turn.
BeforeDone == {"context", "mark", "executor", "register", "storeCancel", "execute", "ask",
               "waiting", "unregister"} \cup DOMAIN Published

\* The "done" of a request's turn is still to come, and a loop is to publish it.
Unfinished(r) == loop[r].msg = NoOne \/ loop[r].pc \in BeforeDone
Working(r) == ~LoopAt(r, "off") /\ Unfinished(r)

\* A request creates the entry of its session and holds it until it removes it; it is the
\* only subscriber, and its channel is never closed.
OwnEntry(r) ==
  /\ request[r].pc \notin {"refuse", "refused"}
  /\ sessions[SessionOf[r]] = r <=>
       request[r].pc \in {"subscribe", "insert", "enqueue", "offer", "start", "stream",
                          "unsubscribe", "stop", "remove"}
  /\ request[r].pc \notin {"new", "create", "subscribe"} => request[r].sub = r
  /\ At(r, "offer") \/ At(r, "close") => request[r].target = r
  /\ subscribers[r] =
       IF request[r].pc \in {"enqueue", "offer", "start", "stream", "unsubscribe"} THEN {r} ELSE {}
  /\ ~channel[r].closed
  /\ r \in stopped => request[r].pc \in {"remove", "close", "finished"}

\* The loop it starts reads its entry, where its message is the only one ever, and has
\* published "done" before the response ends.
OwnLoop(r) ==
  /\ LoopAt(r, "off") <=>
       request[r].pc \in {"new", "create", "subscribe", "insert", "enqueue", "offer", "start"}
  /\ loop[r].msg \in {NoOne, r} /\ loop[r].target \in {NoOne, r}
  /\ loop[r].pc \in {"off", "channel"} => loop[r].msg = NoOne
  /\ loop[r].pc \notin {"off", "channel"} => loop[r].src = r
  /\ loop[r].pc \notin {"off", "channel", "select"} => loop[r].msg = r
  /\ messageCh[r] = IF At(r, "start") \/ (~LoopAt(r, "off") /\ loop[r].msg = NoOne)
                      THEN <<r>> ELSE <<>>
  /\ Working(r) => At(r, "stream")

\* It has been sent events of its own turn, and no "done" while that is to come.
OwnEvents(r) ==
  /\ \A i \in DOMAIN stream[r] : stream[r][i].turn = r
  /\ \A i \in DOMAIN channel[r].buf :
       channel[r].buf[i].turn = r /\ (Unfinished(r) => channel[r].buf[i].kind # "done")

\* Its entry is asked for replies only while its loop asks, so never as it is closed.
OwnReply(r) ==
  /\ askReplies[r] \subseteq
       IF loop[r].pc \in {"question", "waiting", "unregister"} THEN {r} ELSE {}
  /\ replyCh[r] # "closed"
  /\ replyCh[r] = "yes" \/ decision[r] = "yes" => r \in answered

\* The active loop of a session is that of a request still to stop it.
ActiveFits(s) ==
  active[s] # NoOne =>
    /\ SessionOf[active[s]] = s
    /\ request[active[s]].pc \in {"stream", "unsubscribe", "stop"}

SoloInv ==
  /\ \A q, r \in Requests :
       SessionOf[q] = SessionOf[r] /\ InFlight(q) /\ InFlight(r) => q = r
  /\ \A s \in Sessions : ActiveFits(s)
  /\ \A r \in Requests : OwnEntry(r) /\ OwnLoop(r) /\ OwnEvents(r) /\ OwnReply(r)

\* A step that touches one request, its entry and its loop.
StepOf(r) ==
  /\ \A q \in Requests \ {r} :
       /\ request'[q] = request[q] /\ loop'[q] = loop[q] /\ stream'[q] = stream[q]
       /\ messageCh'[q] = messageCh[q] /\ subscribers'[q] = subscribers[q]
       /\ channel'[q] = channel[q] /\ askReplies'[q] = askReplies[q]
       /\ replyCh'[q] = replyCh[q] /\ decision'[q] = decision[q]
       /\ q \in stopped' => q \in stopped
  /\ answered \subseteq answered'

Own(r) == OwnEntry(r) /\ OwnLoop(r) /\ OwnEvents(r) /\ OwnReply(r)

\* The entry and the loop of a session change hands only with the request in flight.
LEMMA SoloFrame ==
  ASSUME IInv, SoloInv, NEW r \in Requests, StepOf(r), Own(r)',
         InFlight(r)' => \A q \in Requests :
           SessionOf[q] = SessionOf[r] /\ InFlight(q) => q = r,
         \A s \in Sessions : sessions'[s] = sessions[s] \/
           (s = SessionOf[r] /\ InFlight(r) /\ sessions'[s] \in {r, NoOne}),
         \A s \in Sessions :
           \/ active'[s] = NoOne
           \/ active'[s] = active[s] /\ (active[s] = r => InFlight(r) /\
                request'[r].pc \in {"stream", "unsubscribe", "stop"})
           \/ s = SessionOf[r] /\ active'[s] = r /\ request'[r].pc = "stream"
  PROVE  SoloInv'
  <1>1. \A q \in Requests \ {r} : InFlight(q)' <=> InFlight(q)
    BY DEF StepOf, InFlight, At, Over
  <1>2. \A p, q \in Requests :
          SessionOf[p] = SessionOf[q] /\ InFlight(p)' /\ InFlight(q)' => p = q
    BY <1>1 DEF SoloInv
  <1>3. ASSUME NEW s \in Sessions PROVE ActiveFits(s)'
    <2>1. active[s] # NoOne => active[s] \in Requests
      BY DEF IInv, OtherInv, Maybe
    <2>2. ActiveFits(s)
      BY DEF SoloInv
    <2>3. CASE active'[s] = NoOne
      BY <2>3 DEF ActiveFits
    <2>4. CASE s = SessionOf[r] /\ active'[s] = r /\ request'[r].pc = "stream"
      BY <2>4 DEF ActiveFits
    <2>5. CASE active'[s] = active[s] /\ active[s] # NoOne /\
               (active[s] = r => request'[r].pc \in {"stream", "unsubscribe", "stop"})
      <3>1. CASE active[s] = r
        BY <2>2, <2>5, <3>1 DEF ActiveFits
      <3>2. CASE active[s] # r
        <4>1. active[s] \in Requests \ {r}
          BY <2>1, <2>5, <3>2
        <4> DEFINE a == active[s]
        <4>2. request'[a] = request[a]
          BY <4>1 DEF StepOf
        <4>3. SessionOf[a] = s /\ request[a].pc \in {"stream", "unsubscribe", "stop"}
          BY <2>2, <2>5 DEF ActiveFits
        <4> QED
          BY <2>5, <4>2, <4>3 DEF ActiveFits
      <3> QED
        BY <3>1, <3>2
    <2> QED
      BY <2>3, <2>4, <2>5
  <1>4. ASSUME NEW q \in Requests, q # r PROVE Own(q)'
    <2>1. OwnEntry(q) /\ OwnLoop(q) /\ OwnEvents(q) /\ OwnReply(q)
      BY DEF SoloInv
    <2>2. /\ request'[q] = request[q] /\ loop'[q] = loop[q] /\ stream'[q] = stream[q]
          /\ messageCh'[q] = messageCh[q] /\ subscribers'[q] = subscribers[q]
          /\ channel'[q] = channel[q] /\ askReplies'[q] = askReplies[q]
          /\ replyCh'[q] = replyCh[q] /\ decision'[q] = decision[q]
          /\ q \in stopped' => q \in stopped
          /\ q \in answered => q \in answered'
      BY <1>4 DEF StepOf
    <2>3. sessions'[SessionOf[q]] = q <=> sessions[SessionOf[q]] = q
      <3>1. SessionOf[q] \in Sessions /\ NoOne \notin Requests
        BY MatesFacts
      <3>2. CASE sessions'[SessionOf[q]] = sessions[SessionOf[q]]
        BY <3>2
      <3>3. CASE /\ SessionOf[q] = SessionOf[r] /\ InFlight(r)
                 /\ sessions'[SessionOf[q]] \in {r, NoOne}
        <4>1. ~InFlight(q)
          BY <1>4, <3>3 DEF SoloInv
        <4>2. sessions[SessionOf[q]] # q
          BY <2>1, <4>1 DEF OwnEntry, InFlight, Over, At
        <4> QED
          BY <1>4, <3>1, <3>3, <4>2
      <3> QED
        BY <3>1, <3>2, <3>3
    <2>4. OwnEntry(q)'
      BY <2>1, <2>2, <2>3 DEF OwnEntry, At
    <2>5. OwnLoop(q)'
      BY <2>1, <2>2 DEF OwnLoop, Working, Unfinished, LoopAt, At
    <2>6. OwnEvents(q)'
      BY <2>1, <2>2 DEF OwnEvents, Working, Unfinished, LoopAt
    <2>7. OwnReply(q)'
      BY <2>1, <2>2 DEF OwnReply
    <2> QED
      BY <2>4, <2>5, <2>6, <2>7 DEF Own
  <1> QED
    BY <1>2, <1>3, <1>4 DEF SoloInv, Own

\* What SoloInv says of is left alone.
Quiet == UNCHANGED <<sessions, messageCh, subscribers, channel, request, stream, stopped, answered>>

Asking == {"question", "waiting", "unregister"}

\* A loop goes on in its turn or ends; it does not go back before its "done".
LEMMA LoopMoves ==
  ASSUME IInv, SoloInv, NEW l \in Requests, NEW p \in LoopSteps \ {"off", "channel"},
         NEW e \in {NoOne, l},
         Quiet, UNCHANGED <<askReplies, replyCh, decision>>,
         \A s \in Sessions : active'[s] \in {active[s], NoOne},
         loop' = [loop EXCEPT ![l].pc = p, ![l].target = e],
         loop[l].msg = l, ~LoopAt(l, "off"), ~LoopAt(l, "channel"),
         p \in BeforeDone => loop[l].pc \in BeforeDone,
         loop[l].pc \in Asking => p \in Asking
  PROVE  SoloInv' /\ StepOf(l)
  <1>1. OwnEntry(l) /\ OwnLoop(l) /\ OwnEvents(l) /\ OwnReply(l)
    BY DEF SoloInv
  <1>2. loop'[l] = [loop[l] EXCEPT !.pc = p, !.target = e] /\ loop[l] = [pc |-> loop[l].pc,
          src |-> loop[l].src, msg |-> loop[l].msg, target |-> loop[l].target]
    BY DEF IInv, LoopInv
  <1>3. /\ loop'[l].pc = p /\ loop'[l].target = e
        /\ loop'[l].msg = l /\ loop'[l].src = loop[l].src
    BY <1>2
  <1>4. l # NoOne
    BY MatesFacts
  <1>5. (Working(l)' => Working(l)) /\ (Unfinished(l)' => Unfinished(l))
    BY <1>3, <1>4 DEF Working, Unfinished, LoopAt
  <1>6. OwnEntry(l)'
    BY <1>1 DEF OwnEntry, Quiet, At
  <1>7. OwnLoop(l)'
    BY <1>1, <1>3, <1>4, <1>5 DEF OwnLoop, Quiet, LoopAt, At
  <1>8. OwnEvents(l)' /\ OwnReply(l)'
    BY <1>1, <1>3, <1>5 DEF OwnEvents, OwnReply, Quiet, Asking
  <1>9. StepOf(l)
    BY DEF StepOf, Quiet, IInv, LoopInv
  <1>10. \A s \in Sessions : active[s] = l => InFlight(l) /\
           request[l].pc \in {"stream", "unsubscribe", "stop"}
    BY <1>4 DEF SoloInv, ActiveFits, InFlight, Over, At
  <1>11. InFlight(l)' => InFlight(l)
    BY DEF InFlight, Over, At, Quiet
  <1>12. \A s \in Sessions :
           \/ active'[s] = NoOne
           \/ active'[s] = active[s] /\ (active[s] = l => InFlight(l) /\
                request'[l].pc \in {"stream", "unsubscribe", "stop"})
    BY <1>10 DEF Quiet
  <1>13. \A q \in Requests : SessionOf[q] = SessionOf[l] /\ InFlight(q) /\ InFlight(l) => q = l
    BY DEF SoloInv
  <1> QED
    BY <1>6, <1>7, <1>8, <1>9, <1>11, <1>12, <1>13, SoloFrame DEF Own, Quiet

LEMMA LoopStepSolo ==
  ASSUME IInv, SoloInv, NEW l \in Requests, LoopStep(l)
  PROVE  SoloInv' /\ StepOf(l)
  <1>o. OwnEntry(l) /\ OwnLoop(l) /\ OwnEvents(l) /\ OwnReply(l)
    BY DEF SoloInv
  <1>n. l # NoOne /\ SessionOf[l] \in Sessions
    BY MatesFacts
  <1>t. /\ loop \in [Requests -> [pc : LoopSteps, src : Maybe, msg : Maybe, target : Maybe]]
        /\ loop[l] = [pc |-> loop[l].pc, src |-> loop[l].src,
                      msg |-> loop[l].msg, target |-> loop[l].target]
    BY DEF IInv, LoopInv
  <1>m. loop[l].pc \notin {"off", "channel", "select"} => loop[l].msg = l
    BY <1>o DEF OwnLoop
  <1>s. Working(l) => sessions[SessionOf[l]] = l /\ subscribers[l] = {l} /\ InFlight(l)
    BY <1>o DEF OwnLoop, OwnEntry, At, InFlight, Over
  <1>q. \A q \in Requests : SessionOf[q] = SessionOf[l] /\ InFlight(q) /\ InFlight(l) => q = l
    BY DEF SoloInv
  <1>a. \A s \in Sessions : active[s] = l => InFlight(l) /\
           request[l].pc \in {"stream", "unsubscribe", "stop"}
    BY <1>n DEF SoloInv, ActiveFits, InFlight, Over, At
  <1>f. ASSUME StepOf(l), Own(l)', UNCHANGED <<active, sessions, request>>
        PROVE  SoloInv' /\ StepOf(l)
    <2>1. InFlight(l)' => InFlight(l)
      BY <1>f DEF InFlight, Over, At
    <2> QED
      BY <1>f, <1>q, <1>a, <2>1, SoloFrame
  <1>1. CASE OpenChannel(l)
    <2>1. Working(l) /\ loop[l].msg = NoOne
      BY <1>1, <1>o DEF OpenChannel, OwnLoop, Working, Unfinished, LoopAt
    <2>2. loop'[l].pc = "select" /\ loop'[l].src = l /\ loop'[l].msg = NoOne
          /\ loop'[l].target = loop[l].target
      BY <1>1, <1>n, <1>t, <1>s, <2>1 DEF OpenChannel
    <2>3. Working(l)'
      BY <2>2 DEF Working, Unfinished, LoopAt
    <2>4. OwnLoop(l)'
      BY <1>1, <1>o, <1>n, <2>1, <2>2, <2>3 DEF OpenChannel, OwnLoop, LoopAt, At, registryVars, Working, Unfinished
    <2>5. OwnEntry(l)'
      BY <1>1, <1>o DEF OpenChannel, OwnEntry, registryVars, At
    <2>6. OwnEvents(l)' /\ OwnReply(l)'
      BY <1>1, <1>o, <2>1, <2>2 DEF OpenChannel, OwnEvents, OwnReply, registryVars, LoopAt, Unfinished
    <2>7. StepOf(l)
      BY <1>1, <1>t DEF StepOf, OpenChannel, registryVars
    <2> QED
      BY <1>1, <1>f, <2>4, <2>5, <2>6, <2>7 DEF Own, OpenChannel, registryVars
  <1>2. CASE SelectDone(l)
    <2>1. ~Working(l)
      BY <1>2, <1>o DEF SelectDone, OwnEntry, OwnLoop, At
    <2>2. loop[l].msg = l
      BY <1>2, <1>o, <2>1 DEF SelectDone, OwnLoop, Working, Unfinished, LoopAt
    <2>3. loop' = [loop EXCEPT ![l].pc = "exit", ![l].target = loop[l].target]
      BY <1>2, <1>t DEF SelectDone, LoopGoto
    <2>4. loop[l].target \in {NoOne, l} /\ loop[l].pc = "select"
      BY <1>2, <1>o DEF OwnLoop, SelectDone, LoopAt
    <2> QED
      BY <1>2, <2>2, <2>3, <2>4, LoopMoves
      DEF SelectDone, Quiet, registryVars, LoopSteps, BeforeDone, Published, Asking, LoopAt
  <1>3. CASE SelectMessage(l)
    <2>1. loop[l].pc = "select" /\ loop[l].src = l
      BY <1>3, <1>o DEF SelectMessage, OwnLoop, LoopAt
    <2>2. messageCh[l] = <<l>> /\ loop[l].msg = NoOne /\ Working(l)
      BY <1>3, <1>o, <2>1 DEF SelectMessage, OwnLoop, LoopAt, Working, Unfinished, At
    <2>3. Head(messageCh[l]) = l /\ Tail(messageCh[l]) = <<>>
      BY <2>2
    <2>4. loop'[l].pc = "context" /\ loop'[l].src = l /\ loop'[l].msg = l
          /\ loop'[l].target = loop[l].target
      BY <1>3, <1>t, <2>1, <2>3 DEF SelectMessage
    <2>5. messageCh'[l] = <<>> /\ messageCh' = [messageCh EXCEPT ![l] = Tail(messageCh[l])]
      BY <1>3, <2>1, <2>3 DEF SelectMessage, Receive, IInv, RegistryInv
    <2>6. Working(l)'
      BY <2>4 DEF Working, Unfinished, LoopAt, BeforeDone
    <2>7. OwnLoop(l)'
      BY <1>3, <1>o, <1>n, <2>1, <2>2, <2>4, <2>5, <2>6
      DEF SelectMessage, Receive, OwnLoop, LoopAt, At, Working, Unfinished
    <2>8. OwnEntry(l)'
      BY <1>3, <1>o DEF SelectMessage, Receive, OwnEntry, At
    <2>9. OwnEvents(l)' /\ OwnReply(l)'
      BY <1>3, <1>o, <2>1, <2>2, <2>4 DEF SelectMessage, Receive, OwnEvents, OwnReply, Unfinished
    <2>10. StepOf(l)
      BY <1>3, <1>t, <2>1, <2>5 DEF StepOf, SelectMessage, Receive
    <2> QED
      BY <1>3, <1>f, <2>7, <2>8, <2>9, <2>10 DEF Own, SelectMessage, Receive
  <1>4. CASE SessionContext(l)
    <2>1. loop[l].pc = "context" /\ Working(l) /\ HasSession(SessionOf[l])
      BY <1>4, <1>n, <1>s DEF SessionContext, LoopAt, Working, Unfinished, BeforeDone, HasSession
    <2>2. loop' = [loop EXCEPT ![l].pc = "mark", ![l].target = loop[l].target]
      BY <1>4, <1>t, <2>1 DEF SessionContext, LoopGoto
    <2>3. loop[l].target \in {NoOne, l}
      BY <1>o DEF OwnLoop
    <2> QED
      BY <1>4, <1>m, <2>1, <2>2, <2>3, LoopMoves
      DEF SessionContext, Quiet, registryVars, LoopSteps, BeforeDone, Asking, LoopAt
  <1>5. CASE MarkTurn(l) \/ CreateExecutor(l) \/ RegisterWithPool(l) \/ StoreCancel(l)
             \/ EmitChunk(l) \/ CallConfirmedTool(l) \/ ReturnFromTurn(l)
    <2>1. PICK p \in {"started", "user", "register", "noModel", "storeCancel", "execute",
                      "chunk", "ask", "done", "error"} :
            loop' = [loop EXCEPT ![l].pc = p]
      BY <1>5 DEF MarkTurn, CreateExecutor, RegisterWithPool, StoreCancel, EmitChunk,
                  CallConfirmedTool, ReturnFromTurn, LoopGoto
    <2>2. loop[l].pc \in {"mark", "executor", "register", "storeCancel", "execute"}
      BY <1>5 DEF MarkTurn, CreateExecutor, RegisterWithPool, StoreCancel, EmitChunk,
                  CallConfirmedTool, ReturnFromTurn, LoopAt
    <2>3. loop' = [loop EXCEPT ![l].pc = p, ![l].target = loop[l].target]
      BY <1>t, <2>1
    <2>4. loop[l].target \in {NoOne, l}
      BY <1>o DEF OwnLoop
    <2>5. Quiet /\ UNCHANGED <<askReplies, replyCh, decision, active>>
      BY <1>5 DEF MarkTurn, CreateExecutor, RegisterWithPool, StoreCancel, EmitChunk,
                  CallConfirmedTool, ReturnFromTurn, Quiet, registryVars, StoreTurnCancel
    <2>6. p \in LoopSteps \ {"off", "channel"} /\ loop[l].pc \in BeforeDone /\ loop[l].msg = l
      BY <1>m, <2>2 DEF LoopSteps, BeforeDone, Published
    <2> QED
      BY <2>2, <2>3, <2>4, <2>5, <2>6, LoopMoves DEF Asking, LoopAt
  <1>6. CASE PublishLookup(l)
    <2>1. loop[l].pc \in DOMAIN Published /\ Working(l)
      BY <1>6 DEF PublishLookup, Working, Unfinished, BeforeDone, Published, LoopAt
    <2>2. loop' = [loop EXCEPT ![l].pc = loop[l].pc, ![l].target = l]
      BY <1>6, <1>n, <1>s, <2>1 DEF PublishLookup
    <2>3. loop[l].pc \in LoopSteps
      BY <1>t
    <2>4. loop[l].msg = l /\ loop[l].pc \notin {"off", "channel"}
      BY <1>m, <2>1 DEF Published
    <2> QED
      BY <1>6, <2>2, <2>3, <2>4, LoopMoves
      DEF PublishLookup, Quiet, registryVars, LoopAt, Asking
  <1>7. CASE PublishDeliver(l)
    <2> DEFINE step == loop[l].pc
               ev == [kind |-> Published[step], turn |-> l]
               next == NextStep[step]
    <2>1. step \in DOMAIN Published /\ loop[l].target = l /\ loop[l].msg = l /\ Working(l)
      BY <1>7, <1>m, <1>o DEF PublishDeliver, Working, Unfinished, BeforeDone, Published, LoopAt, OwnLoop
    <2>2. /\ PublishTo(l, ev) /\ loop' = [loop EXCEPT ![l].pc = next, ![l].target = NoOne]
          /\ UNCHANGED <<active, stopped, decision, answered, request, stream>>
      BY <1>7, <2>1 DEF PublishDeliver, Turn
    <2>3. /\ next \in LoopSteps \ {"off", "channel", "select"}
          /\ next \in BeforeDone => ev.kind # "done"
          /\ step \in Asking => next \in Asking
          /\ step \notin Asking => step # "question"
      BY <2>1 DEF Published, NextStep, LoopSteps, BeforeDone, Asking
    <2>4. /\ loop'[l].pc = next /\ loop'[l].src = loop[l].src /\ loop'[l].msg = l
          /\ loop'[l].target = NoOne
      BY <1>t, <2>1, <2>2
    <2> HIDE DEF next
    <2>5. Unfinished(l)' => ev.kind # "done"
      BY <1>n, <2>3, <2>4 DEF Unfinished
    <2>6. OwnLoop(l)'
      BY <1>o, <1>n, <2>1, <2>2, <2>3, <2>4 DEF OwnLoop, PublishTo, LoopAt, At, Working, Unfinished
    <2>7. /\ \A q \in Requests \ {l} : channel'[q] = channel[q]
          /\ channel'[l].closed = channel[l].closed
          /\ channel'[l].buf \in {channel[l].buf, Append(channel[l].buf, ev)}
          /\ channel[l].buf \in Seq(Events)
      BY <1>s, <2>1, <2>2 DEF PublishTo, IInv, RegistryInv
    <2>8. OwnEntry(l)'
      BY <1>o, <2>2, <2>7 DEF PublishTo, OwnEntry, At
    <2>9. ASSUME NEW i \in DOMAIN channel'[l].buf
          PROVE  channel'[l].buf[i].turn = l /\ (Unfinished(l)' => channel'[l].buf[i].kind # "done")
      <3>1. CASE channel'[l].buf = channel[l].buf
        BY <1>o, <2>1, <2>9, <3>1 DEF OwnEvents, Working
      <3>2. CASE channel'[l].buf = Append(channel[l].buf, ev)
        <4>1. \/ i \in DOMAIN channel[l].buf /\ channel'[l].buf[i] = channel[l].buf[i]
              \/ channel'[l].buf[i] = ev
          BY <2>7, <2>9, <3>2
        <4> QED
          BY <1>o, <2>1, <2>5, <4>1 DEF OwnEvents, Working
      <3> QED
        BY <2>7, <3>1, <3>2
    <2>10. OwnEvents(l)'
      BY <1>o, <2>2, <2>9 DEF OwnEvents
    <2>11. OwnReply(l)'
      BY <1>o, <2>2, <2>3, <2>4 DEF OwnReply, PublishTo, Asking
    <2>12. StepOf(l)
      BY <1>t, <2>2, <2>7 DEF StepOf, PublishTo
    <2> QED
      BY <1>f, <2>2, <2>6, <2>8, <2>10, <2>11, <2>12 DEF Own, PublishTo
  <1>8. CASE AskUser(l)
    <2>1. loop[l].pc = "ask" /\ loop[l].msg = l /\ Working(l)
      BY <1>8, <1>m DEF AskUser, LoopAt, Working, Unfinished, BeforeDone
    <2>2. /\ askReplies' = [e \in Requests |-> IF e = l THEN askReplies[e] \cup {l} ELSE askReplies[e]]
          /\ UNCHANGED <<sessions, messageCh, subscribers, channel, replyCh, active, stopped,
                         decision, answered, request, stream>>
      BY <1>8, <1>s, <2>1 DEF AskUser, RegisterAskUser, Turn
    <2>3. loop'[l].pc = "question" /\ loop'[l].src = loop[l].src /\ loop'[l].msg = l
          /\ loop'[l].target = loop[l].target
      BY <1>8, <1>t, <2>1 DEF AskUser, LoopGoto
    <2>4. Working(l)'
      BY <2>3 DEF Working, Unfinished, LoopAt, BeforeDone, Published
    <2>5. OwnLoop(l)'
      BY <1>o, <1>n, <2>1, <2>2, <2>3 DEF OwnLoop, LoopAt, At, Working, Unfinished
    <2>6. OwnEntry(l)' /\ OwnEvents(l)'
      BY <1>o, <2>1, <2>2 DEF OwnEntry, OwnEvents, At, Working
    <2>7. OwnReply(l)'
      BY <1>o, <2>1, <2>2, <2>3 DEF OwnReply
    <2>8. StepOf(l)
      BY <1>8, <1>t, <2>2 DEF StepOf, AskUser, LoopGoto
    <2> QED
      BY <1>f, <2>2, <2>5, <2>6, <2>7, <2>8 DEF Own
  <1>9. CASE ReceiveReply(l) \/ ConfirmTimeout(l)
    <2>1. loop[l].pc = "waiting" /\ loop[l].msg = l /\ Working(l)
      BY <1>9, <1>m DEF ReceiveReply, ConfirmTimeout, LoopAt, Working, Unfinished, BeforeDone
    <2>2. PICK verdict \in {"yes", "no"} : Decide(l, verdict) /\ (verdict = "yes" => replyCh[l] = "yes")
      BY <1>9, <1>o, <2>1 DEF ReceiveReply, ConfirmTimeout, Approves, Turn, OwnReply
    <2>3. /\ decision' = [decision EXCEPT ![l] = verdict] /\ decision'[l] = verdict
          /\ loop'[l].pc = "unregister" /\ loop'[l].src = loop[l].src /\ loop'[l].msg = l
          /\ loop'[l].target = loop[l].target
          /\ UNCHANGED <<sessions, messageCh, subscribers, channel, askReplies, replyCh, active,
                         stopped, answered, request, stream>>
      BY <1>t, <2>1, <2>2 DEF Decide, LoopGoto, Turn, registryVars, IInv, OtherInv
    <2>4. Working(l)'
      BY <2>3 DEF Working, Unfinished, LoopAt, BeforeDone
    <2>5. OwnLoop(l)'
      BY <1>o, <1>n, <2>1, <2>3 DEF OwnLoop, LoopAt, At, Working, Unfinished
    <2>6. OwnEntry(l)' /\ OwnEvents(l)'
      BY <1>o, <2>1, <2>3 DEF OwnEntry, OwnEvents, At, Working
    <2>7. OwnReply(l)'
      BY <1>o, <2>1, <2>2, <2>3 DEF OwnReply
    <2>8. StepOf(l)
      BY <1>t, <2>2, <2>3 DEF StepOf, Decide, LoopGoto, IInv, OtherInv
    <2> QED
      BY <1>f, <2>3, <2>5, <2>6, <2>7, <2>8 DEF Own
  <1>10. CASE Unregister(l)
    <2>1. loop[l].pc = "unregister" /\ loop[l].msg = l /\ Working(l)
      BY <1>10, <1>m DEF Unregister, LoopAt, Working, Unfinished, BeforeDone
    <2>2. /\ askReplies' = [e \in Requests |-> IF e = l THEN askReplies[e] \ {l} ELSE askReplies[e]]
          /\ UNCHANGED <<sessions, messageCh, subscribers, channel, replyCh, active, stopped,
                         decision, answered, request, stream>>
      BY <1>10, <1>s, <2>1 DEF Unregister, UnregisterAskUser, Turn
    <2>3. loop'[l].pc = "execute" /\ loop'[l].src = loop[l].src /\ loop'[l].msg = l
          /\ loop'[l].target = loop[l].target
      BY <1>10, <1>t, <2>1 DEF Unregister, LoopGoto
    <2>4. Working(l)'
      BY <2>3 DEF Working, Unfinished, LoopAt, BeforeDone
    <2>5. OwnLoop(l)'
      BY <1>o, <1>n, <2>1, <2>2, <2>3 DEF OwnLoop, LoopAt, At, Working, Unfinished
    <2>6. OwnEntry(l)' /\ OwnEvents(l)'
      BY <1>o, <2>1, <2>2 DEF OwnEntry, OwnEvents, At, Working
    <2>7. OwnReply(l)'
      BY <1>o, <2>1, <2>2, <2>3 DEF OwnReply
    <2>8. StepOf(l)
      BY <1>10, <1>t, <2>2 DEF StepOf, Unregister, LoopGoto
    <2> QED
      BY <1>f, <2>2, <2>5, <2>6, <2>7, <2>8 DEF Own
  <1>11. CASE ClearCancel(l) \/ DropPool(l) \/ ClearTurn(l) \/ Exit(l)
    <2>1. PICK p \in {"dropPool", "clearTurn", "select", "gone"} : loop' = [loop EXCEPT ![l].pc = p]
      BY <1>11 DEF ClearCancel, DropPool, ClearTurn, Exit, LoopGoto
    <2>2. loop[l].pc \in {"clearCancel", "dropPool", "clearTurn", "exit"}
      BY <1>11 DEF ClearCancel, DropPool, ClearTurn, Exit, LoopAt
    <2>3. loop' = [loop EXCEPT ![l].pc = p, ![l].target = loop[l].target]
      BY <1>t, <2>1
    <2>4. loop[l].target \in {NoOne, l}
      BY <1>o DEF OwnLoop
    <2>5. Quiet /\ UNCHANGED <<askReplies, replyCh, decision>>
      BY <1>11 DEF ClearCancel, DropPool, ClearTurn, Exit, Quiet, registryVars, StoreTurnCancel
    <2>6. \A s \in Sessions : active'[s] \in {active[s], NoOne}
      BY <1>11 DEF ClearCancel, DropPool, ClearTurn, Exit, IInv, OtherInv
    <2>7. p \in LoopSteps \ {"off", "channel"} /\ p \notin BeforeDone /\ loop[l].msg = l
      BY <1>m, <2>2 DEF LoopSteps, BeforeDone, Published
    <2> QED
      BY <2>2, <2>3, <2>4, <2>5, <2>6, <2>7, LoopMoves DEF Asking, LoopAt
  <1> QED
    BY <1>1, <1>2, <1>3, <1>4, <1>5, <1>6, <1>7, <1>8, <1>9, <1>10, <1>11 DEF LoopStep

LEMMA RequestStepSolo ==
  ASSUME IInv, SoloInv, ClientsWait, NEW r \in Requests, RequestStep(r)
  PROVE  SoloInv' /\ StepOf(r)
  <1>o. OwnEntry(r) /\ OwnLoop(r) /\ OwnEvents(r) /\ OwnReply(r)
    BY DEF SoloInv
  <1>n. r # NoOne /\ SessionOf[r] \in Sessions /\ NoOne \notin Requests
    BY MatesFacts
  <1>t. /\ request \in [Requests -> [pc : RequestSteps, sub : Maybe, target : Maybe]]
        /\ request[r] = [pc |-> request[r].pc, sub |-> request[r].sub, target |-> request[r].target]
        /\ sessions \in [Sessions -> Maybe]
        /\ active \in [Sessions -> Maybe]
    BY DEF IInv, RequestInv, RegistryInv, OtherInv
  <1>q. \A q \in Requests : SessionOf[q] = SessionOf[r] /\ InFlight(q) /\ InFlight(r) => q = r
    BY DEF SoloInv
  <1>i. InFlight(r)
    BY DEF RequestStep, Create, SubscribeLookup, SubscribeInsert, EnqueueLookup, EnqueueSend,
           Refuse, StartProcessing, Forward, ChannelClosed, DeferUnsubscribe, StopProcessing,
           RemoveDetach, RemoveClose, InFlight, At, Over
  <1>a. ASSUME NEW s \in Sessions, active[s] = r
        PROVE  s = SessionOf[r] /\ request[r].pc \in {"stream", "unsubscribe", "stop"}
    BY <1>a, <1>n DEF SoloInv, ActiveFits
  <1>f. ASSUME StepOf(r), Own(r)', active' = active,
               request[r].pc \in {"stream", "unsubscribe"} =>
                 request'[r].pc \in {"stream", "unsubscribe", "stop"},
               ~At(r, "stop"),
               \A s \in Sessions : sessions'[s] = sessions[s] \/
                 (s = SessionOf[r] /\ sessions'[s] \in {r, NoOne})
        PROVE  SoloInv' /\ StepOf(r)
    <2>1. \A s \in Sessions : active'[s] = active[s] /\ (active[s] = r =>
            request'[r].pc \in {"stream", "unsubscribe", "stop"})
      BY <1>a, <1>f DEF At
    <2> QED
      BY <1>f, <1>i, <1>q, <2>1, SoloFrame
  <1>1. CASE Create(r)
    <2>1. request'[r].pc = "subscribe" /\ request[r].pc = "create"
          /\ sessions'[SessionOf[r]] = r /\ request'[r].sub = request[r].sub
      BY <1>1, <1>t, <1>n DEF Create, CreateSession, At, Goto
    <2>2. Own(r)'
      BY <1>1, <1>o, <2>1
      DEF Create, CreateSession, processorVars, Own, OwnEntry, OwnLoop, OwnEvents, OwnReply,
          At, LoopAt, Working, Unfinished
    <2>3. StepOf(r)
      BY <1>1, <1>t DEF Create, CreateSession, processorVars, StepOf, Goto
    <2> QED
      BY <1>1, <1>f, <1>t, <2>1, <2>2, <2>3 DEF Create, CreateSession, processorVars, At
  <1>2. CASE SubscribeLookup(r)
    <2>1. sessions[SessionOf[r]] = r /\ request[r].pc = "subscribe"
      BY <1>2, <1>o DEF SubscribeLookup, OwnEntry, At
    <2>2. /\ request' = [request EXCEPT ![r].pc = "insert", ![r].sub = r]
          /\ UNCHANGED <<registryVars, processorVars, stream>>
      BY <1>2, <1>n, <2>1 DEF SubscribeLookup
    <2>3. request'[r].pc = "insert" /\ request'[r].sub = r /\ request'[r].target = request[r].target
      BY <1>t, <2>2
    <2>4. Own(r)'
      BY <1>o, <2>1, <2>2, <2>3
      DEF registryVars, processorVars, Own, OwnEntry, OwnLoop, OwnEvents, OwnReply,
          At, LoopAt, Working, Unfinished
    <2>5. StepOf(r)
      BY <1>t, <2>2 DEF registryVars, processorVars, StepOf
    <2> QED
      BY <1>f, <2>1, <2>2, <2>3, <2>4, <2>5 DEF registryVars, processorVars, At
  <1>3. CASE SubscribeInsert(r)
    <2>1. request[r].sub = r /\ request[r].pc = "insert"
      BY <1>3, <1>o DEF SubscribeInsert, OwnEntry, At
    <2>2. /\ subscribers' = [subscribers EXCEPT ![r] = subscribers[r] \cup {r}]
          /\ subscribers[r] = {}
          /\ UNCHANGED <<sessions, messageCh, channel, askReplies, replyCh, turnCancelFn,
                         processorVars, stream>>
      BY <1>3, <1>o, <2>1 DEF SubscribeInsert, AddSubscriber, OwnEntry
    <2>3. request'[r].pc = "enqueue" /\ request'[r].sub = r /\ request'[r].target = request[r].target
      BY <1>3, <1>t, <2>1 DEF SubscribeInsert, Goto
    <2>4. subscribers'[r] = {r}
      BY <2>2 DEF IInv, RegistryInv
    <2>5. Own(r)'
      BY <1>o, <2>1, <2>2, <2>3, <2>4
      DEF processorVars, Own, OwnEntry, OwnLoop, OwnEvents, OwnReply, At, LoopAt, Working, Unfinished
    <2>6. StepOf(r)
      BY <1>3, <1>t, <2>2 DEF SubscribeInsert, Goto, processorVars, StepOf
    <2> QED
      BY <1>f, <2>1, <2>2, <2>3, <2>5, <2>6 DEF processorVars, At
  <1>4. CASE EnqueueLookup(r)
    <2>1. sessions[SessionOf[r]] = r /\ request[r].pc = "enqueue"
      BY <1>4, <1>o DEF EnqueueLookup, OwnEntry, At
    <2>2. /\ request' = [request EXCEPT ![r].pc = "offer", ![r].target = r]
          /\ UNCHANGED <<registryVars, processorVars, stream>>
      BY <1>4, <1>n, <2>1 DEF EnqueueLookup
    <2>3. request'[r].pc = "offer" /\ request'[r].target = r /\ request'[r].sub = request[r].sub
      BY <1>t, <2>2
    <2>4. Own(r)'
      BY <1>o, <2>1, <2>2, <2>3
      DEF registryVars, processorVars, Own, OwnEntry, OwnLoop, OwnEvents, OwnReply,
          At, LoopAt, Working, Unfinished
    <2>5. StepOf(r)
      BY <1>t, <2>2 DEF registryVars, processorVars, StepOf
    <2> QED
      BY <1>f, <2>1, <2>2, <2>3, <2>4, <2>5 DEF registryVars, processorVars, At
  <1>5. CASE EnqueueSend(r)
    <2>1. /\ request[r].target = r /\ request[r].pc = "offer" /\ messageCh[r] = <<>>
          /\ loop[r].pc = "off"
      BY <1>5, <1>o DEF EnqueueSend, OwnEntry, OwnLoop, At, LoopAt
    <2>2. Len(messageCh[r]) = 0 /\ MessageBuffer \in Nat \ {0}
      BY <2>1, RegistryAssumption DEF ClientsWait
    <2>3. /\ messageCh' = [messageCh EXCEPT ![r] = Append(messageCh[r], r)]
          /\ Goto(r, "start")
          /\ UNCHANGED <<sessions, subscribers, channel, askReplies, replyCh, turnCancelFn,
                         processorVars, stream>>
      BY <1>5, <2>1, <2>2 DEF EnqueueSend, Offer
    <2>4. messageCh'[r] = <<r>>
      BY <2>1, <2>3 DEF IInv, RegistryInv
    <2>5. request'[r].pc = "start" /\ request'[r].sub = request[r].sub
      BY <1>t, <2>1, <2>3 DEF Goto
    <2>6. Own(r)'
      BY <1>o, <2>1, <2>3, <2>4, <2>5
      DEF processorVars, Own, OwnEntry, OwnLoop, OwnEvents, OwnReply, At, LoopAt, Working, Unfinished
    <2>7. StepOf(r)
      BY <1>t, <2>3 DEF Goto, processorVars, StepOf
    <2> QED
      BY <1>f, <2>1, <2>3, <2>5, <2>6, <2>7 DEF processorVars, At
  <1>6. ~Refuse(r) /\ ~ChannelClosed(r)
    BY <1>o DEF Refuse, ChannelClosed, OwnEntry, At
  <1>7. CASE StartProcessing(r)
    <2>1. request[r].pc = "start" /\ loop[r].pc = "off" /\ loop[r].msg = NoOne
      BY <1>7, <1>o DEF StartProcessing, At, OwnLoop, LoopAt
    <2>2. active[SessionOf[r]] = NoOne
      <3> SUFFICES ASSUME active[SessionOf[r]] # NoOne PROVE FALSE
        OBVIOUS
      <3> DEFINE a == active[SessionOf[r]]
      <3>1. a \in Requests /\ SessionOf[a] = SessionOf[r]
            /\ request[a].pc \in {"stream", "unsubscribe", "stop"}
        BY <1>n, <1>t DEF SoloInv, ActiveFits, Maybe
      <3>2. InFlight(a)
        BY <3>1 DEF InFlight, At, Over
      <3> QED
        BY <1>i, <1>q, <2>1, <3>1, <3>2
    <2>3. /\ active' = [active EXCEPT ![SessionOf[r]] = r]
          /\ loop' = [loop EXCEPT ![r].pc = "channel"] /\ Goto(r, "stream")
          /\ UNCHANGED <<registryVars, stopped, decision, answered, stream>>
      BY <1>7, <2>2 DEF StartProcessing, LoopGoto
    <2>4. /\ loop'[r].pc = "channel" /\ loop'[r].msg = NoOne /\ loop'[r].target = loop[r].target
          /\ request'[r].pc = "stream" /\ request'[r].sub = request[r].sub
      BY <1>t, <2>1, <2>3 DEF Goto, IInv, LoopInv
    <2>5. Own(r)'
      <3>1. OwnEntry(r)'
        BY <1>o, <2>1, <2>3, <2>4 DEF registryVars, OwnEntry, At
      <3>2. OwnLoop(r)'
        BY <1>o, <2>1, <2>3, <2>4 DEF registryVars, OwnLoop, At, LoopAt, Working, Unfinished
      <3>3. OwnEvents(r)' /\ OwnReply(r)'
        BY <1>o, <2>1, <2>3, <2>4 DEF registryVars, OwnEvents, OwnReply, Unfinished
      <3> QED
        BY <3>1, <3>2, <3>3 DEF Own
    <2>6. StepOf(r)
      BY <1>t, <2>3 DEF Goto, registryVars, StepOf, IInv, LoopInv
    <2>7. \A s \in Sessions : \/ active'[s] = active[s] /\ active[s] # r
                              \/ s = SessionOf[r] /\ active'[s] = r
      BY <1>a, <1>t, <2>1, <2>3
    <2> QED
      BY <1>i, <1>q, <2>3, <2>4, <2>5, <2>6, <2>7, SoloFrame DEF registryVars
  <1>8. CASE Forward(r)
    <2> DEFINE ev == Head(channel[r].buf)
    <2>1. /\ channel[r].buf # <<>> /\ channel[r].buf \in Seq(Events)
          /\ channel \in [Requests -> [buf : Seq(Events), closed : BOOLEAN]]
          /\ stream \in [Requests -> Seq(Events)] /\ request[r].pc = "stream"
      BY <1>8 DEF Forward, IInv, RegistryInv, OtherInv, At
    <2>2. 1 \in DOMAIN channel[r].buf /\ ev = channel[r].buf[1] /\ ev \in Events
      BY <2>1
    <2>3. ev.turn = r /\ (Working(r) => ev.kind # "done")
      BY <1>o, <2>2 DEF OwnEvents, Working
    <2> HIDE DEF ev
    <2>4. /\ channel' = [channel EXCEPT ![r].buf = Tail(channel[r].buf)]
          /\ stream' = IF ev.kind \in Forwarded THEN [stream EXCEPT ![r] = Append(stream[r], ev)]
                                                ELSE stream
          /\ Goto(r, IF ev.kind = "done" THEN "unsubscribe" ELSE "stream")
          /\ UNCHANGED <<sessions, messageCh, subscribers, askReplies, replyCh, processorVars>>
      BY <1>8 DEF Forward, TakeEvent, ev
    <2>5. channel'[r].buf = Tail(channel[r].buf) /\ channel'[r].closed = channel[r].closed
      BY <2>1, <2>4
    <2>6. stream'[r] \in {stream[r], Append(stream[r], ev)} /\ stream[r] \in Seq(Events)
      BY <2>1, <2>4
    <2>7. /\ request'[r].pc = IF ev.kind = "done" THEN "unsubscribe" ELSE "stream"
          /\ request'[r].sub = request[r].sub
      BY <1>t, <2>4 DEF Goto
    <2>8. (Working(r)' <=> Working(r)) /\ (Unfinished(r)' <=> Unfinished(r))
      BY <2>4 DEF Working, Unfinished, LoopAt, processorVars
    <2>9. OwnEntry(r)'
      BY <1>o, <2>1, <2>4, <2>5, <2>7 DEF OwnEntry, At, processorVars
    <2>10. OwnLoop(r)'
      BY <1>o, <2>1, <2>3, <2>4, <2>7, <2>8 DEF OwnLoop, At, LoopAt, processorVars
    <2>11. ASSUME NEW i \in DOMAIN stream'[r] PROVE stream'[r][i].turn = r
      <3>1. \/ i \in DOMAIN stream[r] /\ stream'[r][i] = stream[r][i]
            \/ stream'[r][i] = ev
        BY <2>6
      <3> QED
        BY <1>o, <2>3, <3>1 DEF OwnEvents
    <2>12. ASSUME NEW i \in DOMAIN channel'[r].buf
           PROVE  channel'[r].buf[i].turn = r /\ (Unfinished(r) => channel'[r].buf[i].kind # "done")
      <3>1. i + 1 \in DOMAIN channel[r].buf /\ channel'[r].buf[i] = channel[r].buf[i + 1]
        BY <2>1, <2>5
      <3> QED
        BY <1>o, <3>1 DEF OwnEvents
    <2>13. OwnEvents(r)'
      BY <2>8, <2>11, <2>12 DEF OwnEvents
    <2>14. OwnReply(r)'
      BY <1>o, <2>4 DEF OwnReply, processorVars
    <2>15. StepOf(r)
      BY <1>t, <2>1, <2>4 DEF StepOf, Goto, processorVars
    <2> QED
      BY <1>f, <2>1, <2>4, <2>7, <2>9, <2>10, <2>13, <2>14, <2>15 DEF Own, processorVars, At
  <1>9. CASE DeferUnsubscribe(r)
    <2>1. request[r].pc = "unsubscribe" /\ request[r].sub = r /\ subscribers[r] = {r}
      BY <1>9, <1>o DEF DeferUnsubscribe, OwnEntry, At
    <2>2. /\ subscribers' = [f \in Requests |-> IF f = r THEN subscribers[f] \ {r} ELSE subscribers[f]]
          /\ UNCHANGED <<sessions, messageCh, channel, askReplies, replyCh, processorVars, stream>>
      BY <1>9, <2>1 DEF DeferUnsubscribe, Unsubscribe
    <2>3. request'[r].pc = "stop" /\ request'[r].sub = r
      BY <1>9, <1>t, <2>1 DEF DeferUnsubscribe, Goto
    <2>4. ~Working(r) /\ subscribers'[r] = {}
      BY <1>o, <2>1, <2>2 DEF OwnLoop, At
    <2>5. Own(r)'
      BY <1>o, <2>1, <2>2, <2>3, <2>4
      DEF processorVars, Own, OwnEntry, OwnLoop, OwnEvents, OwnReply, At, LoopAt, Working, Unfinished
    <2>6. StepOf(r)
      BY <1>9, <1>t, <2>2 DEF DeferUnsubscribe, Goto, processorVars, StepOf
    <2> QED
      BY <1>f, <2>1, <2>2, <2>3, <2>5, <2>6 DEF processorVars, At
  <1>10. CASE StopProcessing(r)
    <2>1. /\ request[r].pc = "stop" /\ ~Working(r)
          /\ stopped' = stopped \cup ({active[SessionOf[r]]} \ {NoOne})
          /\ active' = [active EXCEPT ![SessionOf[r]] = NoOne] /\ Goto(r, "remove")
          /\ UNCHANGED <<registryVars, loop, decision, answered, stream>>
      BY <1>10, <1>o DEF StopProcessing, At, OwnLoop
    <2>2. active[SessionOf[r]] \in {r, NoOne}
      <3> DEFINE a == active[SessionOf[r]]
      <3>1. a # NoOne => a \in Requests /\ SessionOf[a] = SessionOf[r]
                         /\ request[a].pc \in {"stream", "unsubscribe", "stop"}
        BY <1>n, <1>t DEF SoloInv, ActiveFits, Maybe
      <3>2. a # NoOne => InFlight(a)
        BY <3>1 DEF InFlight, At, Over
      <3> QED
        BY <1>i, <1>q, <3>1, <3>2
    <2>3. request'[r].pc = "remove" /\ request'[r].sub = request[r].sub
      BY <1>t, <2>1 DEF Goto
    <2>4. Own(r)'
      BY <1>o, <2>1, <2>3
      DEF registryVars, Own, OwnEntry, OwnLoop, OwnEvents, OwnReply, At, LoopAt, Working, Unfinished
    <2>5. StepOf(r)
      BY <1>t, <2>1, <2>2 DEF Goto, registryVars, StepOf
    <2>6. \A s \in Sessions : active'[s] = NoOne \/ (active'[s] = active[s] /\ active[s] # r)
      BY <1>a, <1>t, <2>1
    <2> QED
      BY <1>i, <1>q, <2>1, <2>4, <2>5, <2>6, SoloFrame DEF registryVars
  <1>11. CASE RemoveDetach(r)
    <2>1. request[r].pc = "remove" /\ sessions[SessionOf[r]] = r /\ ~Working(r)
      BY <1>11, <1>o DEF RemoveDetach, OwnEntry, OwnLoop, At
    <2>2. /\ request' = [request EXCEPT ![r].pc = "close", ![r].target = r]
          /\ sessions' = [sessions EXCEPT ![SessionOf[r]] = NoOne]
          /\ UNCHANGED <<messageCh, subscribers, channel, askReplies, replyCh, processorVars, stream>>
      BY <1>11, <1>n, <2>1 DEF RemoveDetach, Detach
    <2>3. /\ request'[r].pc = "close" /\ request'[r].target = r /\ request'[r].sub = request[r].sub
          /\ sessions'[SessionOf[r]] = NoOne
      BY <1>n, <1>t, <2>2
    <2>4. Own(r)'
      BY <1>n, <1>o, <2>1, <2>2, <2>3
      DEF processorVars, Own, OwnEntry, OwnLoop, OwnEvents, OwnReply, At, LoopAt, Working, Unfinished
    <2>5. StepOf(r)
      BY <1>t, <2>2 DEF processorVars, StepOf
    <2> QED
      BY <1>f, <1>t, <2>1, <2>2, <2>3, <2>4, <2>5 DEF processorVars, At
  <1>12. CASE RemoveClose(r)
    <2>1. request[r].pc = "close" /\ request[r].target = r /\ ~Working(r) /\ subscribers[r] = {}
      BY <1>12, <1>o DEF RemoveClose, OwnEntry, OwnLoop, At
    <2>2. askReplies[r] = {}
      BY <1>o, <2>1 DEF OwnReply, OwnLoop, Working, Unfinished, LoopAt, BeforeDone, Published, At
    <2>3. /\ channel' = channel /\ replyCh' = replyCh /\ subscribers' = subscribers
          /\ askReplies' = askReplies
      BY <1>12, <2>1, <2>2 DEF RemoveClose, CloseEntry, IInv, RegistryInv
    <2>4. UNCHANGED <<sessions, messageCh, processorVars, stream>>
      BY <1>12 DEF RemoveClose, CloseEntry
    <2>5. request'[r].pc = "finished" /\ request'[r].sub = request[r].sub
      BY <1>12, <1>t DEF RemoveClose, Goto
    <2>6. Own(r)'
      BY <1>o, <2>1, <2>3, <2>4, <2>5
      DEF processorVars, Own, OwnEntry, OwnLoop, OwnEvents, OwnReply, At, LoopAt, Working, Unfinished
    <2>7. StepOf(r)
      BY <1>12, <1>t, <2>3, <2>4 DEF RemoveClose, Goto, processorVars, StepOf
    <2> QED
      BY <1>f, <2>1, <2>3, <2>4, <2>6, <2>7 DEF processorVars, At
  <1> QED
    BY <1>1, <1>2, <1>3, <1>4, <1>5, <1>6, <1>7, <1>8, <1>9, <1>10, <1>11, <1>12 DEF RequestStep

LEMMA SoloUnchanged ==
  ASSUME SoloInv,
         UNCHANGED <<sessions, messageCh, subscribers, channel, askReplies, replyCh, active,
                     loop, stopped, decision, answered, request, stream>>
  PROVE  SoloInv'
  <1>1. ASSUME NEW r \in Requests PROVE (InFlight(r)' <=> InFlight(r)) /\ Own(r)'
    <2>1. OwnEntry(r) /\ OwnLoop(r) /\ OwnEvents(r) /\ OwnReply(r)
      BY DEF SoloInv
    <2>2. OwnEntry(r)' /\ (InFlight(r)' <=> InFlight(r))
      BY <2>1 DEF OwnEntry, InFlight, Over, At
    <2>3. OwnLoop(r)' /\ OwnEvents(r)'
      BY <2>1 DEF OwnLoop, OwnEvents, Working, Unfinished, LoopAt, At
    <2>4. OwnReply(r)'
      BY <2>1 DEF OwnReply
    <2> QED
      BY <2>2, <2>3, <2>4 DEF Own
  <1>2. \A s \in Sessions : ActiveFits(s)'
    BY DEF SoloInv, ActiveFits
  <1> QED
    BY <1>1, <1>2 DEF SoloInv, Own

LEMMA SoloStep == ClientsWait /\ IInv /\ SoloInv /\ [Next]_vars => SoloInv'
  <1> SUFFICES ASSUME ClientsWait, IInv, SoloInv, [Next]_vars PROVE SoloInv'
    OBVIOUS
  <1>u. CASE UNCHANGED vars
    BY <1>u, SoloUnchanged DEF vars, registryVars, processorVars
  <1>a. ASSUME NEW r \in Requests, Arrive(r) PROVE SoloInv'
    <2>1. /\ request[r].pc = "new" /\ request' = [request EXCEPT ![r].pc =
               IF HasSession(SessionOf[r]) THEN "subscribe" ELSE "create"]
          /\ UNCHANGED <<registryVars, processorVars, stream>>
          /\ \A q \in Requests : SessionOf[q] = SessionOf[r] => ~InFlight(q)
      BY <1>a DEF Arrive, ClientsWait, At, Goto, InFlight
    <2>2. OwnEntry(r) /\ OwnLoop(r) /\ OwnEvents(r) /\ OwnReply(r)
      BY DEF SoloInv
    <2>3. sessions[SessionOf[r]] = NoOne
      <3> SUFFICES ASSUME sessions[SessionOf[r]] # NoOne PROVE FALSE
        OBVIOUS
      <3> DEFINE e == sessions[SessionOf[r]]
      <3>1. e \in Requests /\ SessionOf[e] = SessionOf[r]
        BY MatesFacts DEF IInv, RegistryInv, MateOrNone, Mates
      <3>2. InFlight(e)
        BY <3>1 DEF SoloInv, OwnEntry, InFlight, At, Over
      <3> QED
        BY <2>1, <3>1, <3>2
    <2>4. request'[r].pc = "create" /\ \A q \in Requests \ {r} : request'[q] = request[q]
      BY <2>1, <2>3 DEF IInv, RequestInv, HasSession
    <2>5. Own(r)'
      BY <2>1, <2>2, <2>4
      DEF registryVars, processorVars, Own, OwnEntry, OwnLoop, OwnEvents, OwnReply,
          At, LoopAt, Working, Unfinished
    <2>6. StepOf(r)
      BY <2>1, <2>4 DEF StepOf, registryVars, processorVars
    <2>7. \A q \in Requests : SessionOf[q] = SessionOf[r] /\ InFlight(q) => q = r
      BY <2>1
    <2>8. \A s \in Sessions : active[s] # r
      BY <2>1, MatesFacts DEF SoloInv, ActiveFits
    <2> QED
      BY <2>1, <2>5, <2>6, <2>7, <2>8, SoloFrame DEF registryVars, processorVars
  <1>b. ASSUME NEW s \in Sessions, Cancel(s) PROVE SoloInv'
    BY <1>b, SoloUnchanged DEF Cancel, registryVars
  <1>c. ASSUME NEW t \in Requests, NEW reply \in {"yes", "no"}, Reply(t, reply) PROVE SoloInv'
    <2>1. OwnEntry(t) /\ OwnLoop(t) /\ OwnEvents(t) /\ OwnReply(t)
      BY DEF SoloInv
    <2>2. /\ replyCh' = [replyCh EXCEPT ![t] = reply]
          /\ answered' = IF reply = "yes" THEN answered \cup {t} ELSE answered
          /\ UNCHANGED <<sessions, messageCh, subscribers, channel, askReplies, active, loop,
                         stopped, decision, request, stream>>
      BY <1>c DEF Reply, SendAskUserReply
    <2>3. replyCh'[t] = reply
      BY <2>2 DEF IInv, RegistryInv
    <2>4. OwnReply(t)'
      BY <2>1, <2>2, <2>3 DEF OwnReply
    <2>5. OwnEntry(t)' /\ OwnLoop(t)' /\ OwnEvents(t)'
      BY <2>1, <2>2 DEF OwnEntry, OwnLoop, OwnEvents, At, LoopAt, Working, Unfinished
    <2>6. StepOf(t)
      BY <2>2 DEF StepOf, IInv, RegistryInv
    <2>7. /\ InFlight(t)' => \A q \in Requests :
               SessionOf[q] = SessionOf[t] /\ InFlight(q) => q = t
          /\ \A s \in Sessions : active[s] = t => InFlight(t) /\
               request'[t].pc \in {"stream", "unsubscribe", "stop"}
      BY <2>2, MatesFacts DEF SoloInv, InFlight, At, Over, ActiveFits
    <2> QED
      BY <2>2, <2>4, <2>5, <2>6, <2>7, SoloFrame DEF Own
  <1> QED
    BY <1>u, <1>a, <1>b, <1>c, RequestStepSolo, LoopStepSolo DEF Next

LEMMA InitSolo == Init => SoloInv
  BY RegistryAssumption
  DEF Init, RegistryInit, SoloInv, OwnEntry, OwnLoop, OwnEvents, OwnReply, ActiveFits,
      InFlight, Working, Unfinished, At, LoopAt, Over, BeforeDone, Published

LEMMA SoloInvariance == ClientsWait => (Spec => [](IInv /\ SoloInv))
  <1> SUFFICES ASSUME ClientsWait PROVE Spec => [](IInv /\ SoloInv)
    OBVIOUS
  <1>1. IInv /\ SoloInv /\ [Next]_vars => SoloInv'
    BY SoloStep
  <1> QED
    BY <1>1, InitSolo, Invariance, PTL DEF Spec

\* A client that waits for its response receives the events of its own turn only, although
\* the loop of its last request may still run its deferred calls (processor.go: processMessage).
THEOREM OwnTurns == ClientsWait => (Spec => []OwnTurnOnly)
  <1>1. SoloInv => OwnTurnOnly
    BY DEF SoloInv, OwnEvents, OwnTurnOnly
  <1> QED
    BY <1>1, SoloInvariance, PTL

\* A tool that asks for confirmation runs only if the user said yes: no session is removed
\* while its turn waits, which would read as consent (RequestConfirmation, RemoveSession).
THEOREM AsksFirst == ClientsWait => (Spec => []ConfirmedByUser)
  <1>1. SoloInv => ConfirmedByUser
    BY DEF SoloInv, OwnReply, ConfirmedByUser
  <1> QED
    BY <1>1, SoloInvariance, PTL

-----------------------------------------------------------------------------
(* A response that ended carries the whole turn                            *)

Kinds(events, kind) == {i \in DOMAIN events : events[i].kind = kind}
CountIn(events, kind) == Cardinality(Kinds(events, kind))

\* Events of a kind that were published for a request: none is lost.
Sent(r, kind) == CountIn(stream[r], kind) + CountIn(channel[r].buf, kind)

\* The chunk that is about to be published.
NextChunk(t) == IF LoopAt(t, "chunk") THEN 1 ELSE 0
\* Whether the user was asked, and how many events that are no chunks were published by now.
Asked(t) == IF LoopAt(t, "waiting") \/ decision[t] # "none" THEN 1 ELSE 0
Others(t) ==
  IF loop[t].pc \in {"off", "channel", "select", "context", "mark", "user"} THEN 0
  ELSE IF LoopAt(t, "started") THEN 1
  ELSE IF loop[t].pc \in {"done", "noModelDone"} THEN 3 + Asked(t)
  ELSE 2 + Asked(t)

\* A client's channel holds the events of a turn: its chunks, "user", "started", one
\* question, "error" and "done".
TurnFits == SubscriberBuffer >= MaxChunks + 5

Leaving == {"unsubscribe", "stop", "remove", "close", "finished"}

\* The chunks of a turn are all sent or the next to be; its "done" is sent once, and last;
\* and what is in the channel leaves room for the rest.
Whole(r) ==
  /\ Sent(r, "chunk") + NextChunk(r) = chunks[r]
  /\ Sent(r, "done") = IF Unfinished(r) THEN 0 ELSE 1
  /\ \A i \in DOMAIN channel[r].buf :
       channel[r].buf[i].kind = "done" => i = Len(channel[r].buf)
  /\ request[r].pc \in Leaving => channel[r].buf = <<>>
  /\ loop[r].pc \in {"ask", "question", "waiting"} => decision[r] = "none"
  /\ Unfinished(r) => Len(channel[r].buf) + NextChunk(r) <= chunks[r] + Others(r)

WholeInv == \A r \in Requests : Whole(r)

LEMMA CountFacts ==
  ASSUME NEW q \in Seq(Events), NEW kind
  PROVE  /\ CountIn(q, kind) \in Nat /\ IsFiniteSet(Kinds(q, kind))
         /\ Kinds(q, kind) \subseteq 1..Len(q)
  <1>1. Kinds(q, kind) \in SUBSET (1..Len(q)) /\ Len(q) \in Nat
    BY DEF Kinds
  <1>2. IsFiniteSet(1..Len(q))
    BY <1>1, FS_Interval
  <1>3. IsFiniteSet(Kinds(q, kind))
    BY <1>1, <1>2, FS_Subset
  <1> QED
    BY <1>1, <1>3, FS_CardinalityType DEF CountIn

LEMMA CountEmpty == \A kind : CountIn(<<>>, kind) = 0
  <1> SUFFICES ASSUME NEW kind PROVE CountIn(<<>>, kind) = 0
    OBVIOUS
  <1>1. Kinds(<<>>, kind) = {}
    BY DEF Kinds
  <1> QED
    BY <1>1, FS_EmptySet DEF CountIn

LEMMA CountAppend ==
  ASSUME NEW q \in Seq(Events), NEW ev \in Events, NEW kind
  PROVE  CountIn(Append(q, ev), kind) = CountIn(q, kind) + IF ev.kind = kind THEN 1 ELSE 0
  <1> DEFINE n == Len(q) + 1
  <1>1. IsFiniteSet(Kinds(q, kind)) /\ n \notin Kinds(q, kind) /\ CountIn(q, kind) \in Nat
    BY CountFacts
  <1>2. CASE ev.kind = kind
    <2>1. Kinds(Append(q, ev), kind) = Kinds(q, kind) \cup {n}
      BY <1>2 DEF Kinds
    <2> QED
      BY <1>1, <1>2, <2>1, FS_AddElement DEF CountIn
  <1>3. CASE ev.kind # kind
    <2>1. Kinds(Append(q, ev), kind) = Kinds(q, kind)
      BY <1>3 DEF Kinds
    <2> QED
      BY <1>1, <1>3, <2>1 DEF CountIn
  <1> QED
    BY <1>2, <1>3

LEMMA CountTail ==
  ASSUME NEW q \in Seq(Events), q # <<>>, NEW kind
  PROVE  CountIn(q, kind) = CountIn(Tail(q), kind) + IF Head(q).kind = kind THEN 1 ELSE 0
  <1> DEFINE S == Kinds(Tail(q), kind)
             T == Kinds(q, kind) \ {1}
             f == [i \in S |-> i + 1]
  <1>1. /\ Tail(q) \in Seq(Events) /\ Len(Tail(q)) = Len(q) - 1 /\ Len(q) \in Nat \ {0}
        /\ \A i \in 1..Len(q) - 1 : Tail(q)[i] = q[i + 1]
        /\ Head(q) = q[1]
    OBVIOUS
  <1>2. \A i \in S : i \in Nat /\ i + 1 \in T
    BY <1>1 DEF Kinds
  <1>3. \A j \in T : j - 1 \in S /\ (j - 1) + 1 = j
    <2> SUFFICES ASSUME NEW j \in T PROVE j - 1 \in S /\ (j - 1) + 1 = j
      OBVIOUS
    <2>1. j \in 2..Len(q) /\ q[j].kind = kind
      BY <1>1 DEF Kinds
    <2>2. j - 1 \in 1..Len(q) - 1 /\ (j - 1) + 1 = j
      BY <1>1, <2>1
    <2>3. Tail(q)[j - 1] = q[j] /\ DOMAIN Tail(q) = 1..Len(q) - 1
      BY <1>1, <2>2
    <2> QED
      BY <2>1, <2>2, <2>3 DEF Kinds
  <1>4. f \in [S -> T]
    BY <1>2
  <1>5. \A a, b \in S : f[a] = f[b] => a = b
    BY <1>2
  <1>6. \A j \in T : \E i \in S : f[i] = j
    BY <1>3
  <1>7. ExistsBijection(S, T)
    BY <1>4, <1>5, <1>6, Fun_IsBij, Fun_ExistsBij
  <1>8. IsFiniteSet(S) /\ Cardinality(S) \in Nat
    BY <1>1, CountFacts DEF CountIn
  <1>9. IsFiniteSet(T) /\ Cardinality(T) = Cardinality(S)
    BY <1>7, <1>8, FS_Bijection
  <1> HIDE DEF f
  <1>10. CASE Head(q).kind = kind
    <2>1. Kinds(q, kind) = T \cup {1} /\ 1 \notin T
      BY <1>1, <1>10 DEF Kinds
    <2>2. Cardinality(T \cup {1}) = Cardinality(T) + 1
      BY <1>9, <2>1, FS_AddElement
    <2> QED
      BY <1>8, <1>9, <1>10, <2>1, <2>2 DEF CountIn
  <1>11. CASE Head(q).kind # kind
    <2>1. Kinds(q, kind) = T
      BY <1>1, <1>11 DEF Kinds
    <2>2. CountIn(q, kind) = Cardinality(T) /\ CountIn(Tail(q), kind) = Cardinality(S)
      BY <2>1 DEF CountIn
    <2> HIDE DEF S, T
    <2> QED
      BY <1>8, <1>9, <1>11, <2>2
  <1> QED
    BY <1>10, <1>11

LEMMA SentNat ==
  ASSUME IInv, NEW r \in Requests, NEW kind
  PROVE  /\ CountIn(stream[r], kind) \in Nat /\ CountIn(channel[r].buf, kind) \in Nat
         /\ Sent(r, kind) \in Nat /\ chunks[r] \in 0..MaxChunks /\ Len(channel[r].buf) \in Nat
  <1>1. stream[r] \in Seq(Events) /\ channel[r].buf \in Seq(Events) /\ chunks[r] \in 0..MaxChunks
    BY DEF IInv, RegistryInv, OtherInv
  <1> QED
    BY <1>1, CountFacts DEF Sent

\* A step that is not this request's, or that publishes and forwards nothing.
LEMMA WholeKept ==
  ASSUME IInv, NEW r \in Requests, Whole(r),
         stream'[r] = stream[r], channel'[r] = channel[r], chunks'[r] = chunks[r],
         request'[r].pc \in Leaving => request[r].pc \in Leaving,
         loop'[r].pc = "chunk" <=> loop[r].pc = "chunk",
         Unfinished(r)' <=> Unfinished(r),
         loop'[r].pc \in {"ask", "question", "waiting"} => decision'[r] = "none",
         Unfinished(r) => Others(r) <= Others(r)'
  PROVE  Whole(r)'
  <1>1. Sent(r, "chunk")' = Sent(r, "chunk") /\ Sent(r, "done")' = Sent(r, "done")
    BY DEF Sent
  <1>2. NextChunk(r)' = NextChunk(r) /\ NextChunk(r) \in {0, 1}
    BY DEF NextChunk, LoopAt
  <1>3. Others(r) \in Nat /\ Others(r)' \in Nat
    BY DEF Others, Asked
  <1>4. Unfinished(r) => Len(channel[r].buf) + NextChunk(r) <= chunks[r] + Others(r)'
    <2>1. Len(channel[r].buf) \in Nat /\ chunks[r] \in Nat
      BY SentNat, ChatAssumption
    <2>2. Unfinished(r) => Len(channel[r].buf) + NextChunk(r) <= chunks[r] + Others(r)
      BY DEF Whole
    <2> QED
      BY <1>2, <1>3, <2>1, <2>2
  <1> QED
    BY <1>1, <1>2, <1>4 DEF Whole

\* The steps of a request: only its fan-out moves events, one at a time to its client.
LEMMA WholeForward ==
  ASSUME IInv, SoloInv, NEW r \in Requests, Whole(r), Forward(r)
  PROVE  Whole(r)'
  <1> DEFINE ev == Head(channel[r].buf)
  <1>1. /\ channel[r].buf # <<>> /\ channel[r].buf \in Seq(Events) /\ stream[r] \in Seq(Events)
        /\ channel \in [Requests -> [buf : Seq(Events), closed : BOOLEAN]]
        /\ stream \in [Requests -> Seq(Events)]
    BY DEF Forward, IInv, RegistryInv, OtherInv
  <1>2. ev \in Events /\ Len(channel[r].buf) \in Nat \ {0} /\ ev = channel[r].buf[1]
    BY <1>1
  <1>3. channel'[r].buf = Tail(channel[r].buf)
    BY <1>1 DEF Forward, TakeEvent
  <1>4. /\ stream'[r] = IF ev.kind \in Forwarded THEN Append(stream[r], ev) ELSE stream[r]
        /\ loop' = loop /\ chunks' = chunks /\ decision' = decision
        /\ request'[r].pc = IF ev.kind = "done" THEN "unsubscribe" ELSE "stream"
    BY <1>1 DEF Forward, processorVars, Goto, IInv, RequestInv
  <1>5. /\ Unfinished(r)' = Unfinished(r) /\ NextChunk(r)' = NextChunk(r)
        /\ Others(r)' = Others(r)
    BY <1>4 DEF Unfinished, NextChunk, Others, Asked, LoopAt
  <1>6. ASSUME NEW kind \in {"chunk", "done"} PROVE Sent(r, kind)' = Sent(r, kind)
    <2>1. CountIn(channel[r].buf, kind)
            = CountIn(channel'[r].buf, kind) + IF ev.kind = kind THEN 1 ELSE 0
      BY <1>1, <1>3, CountTail
    <2>2. CountIn(stream'[r], kind) = CountIn(stream[r], kind) + IF ev.kind = kind THEN 1 ELSE 0
      <3>1. CASE ev.kind \in Forwarded
        BY <1>1, <1>2, <1>4, <3>1, CountAppend
      <3>2. CASE ev.kind \notin Forwarded
        <4>1. ev.kind # kind
          BY <1>6, <3>2 DEF Forwarded
        <4> QED
          BY <1>4, <3>2, <4>1, SentNat
      <3> QED
        BY <3>1, <3>2
    <2>3. channel'[r].buf \in Seq(Events)
      BY <1>1, <1>3
    <2>4. CountIn(channel'[r].buf, kind) \in Nat /\ CountIn(stream[r], kind) \in Nat
      BY <2>3, <1>1, CountFacts
    <2> QED
      BY <2>1, <2>2, <2>4 DEF Sent
  <1>7. Len(channel'[r].buf) = Len(channel[r].buf) - 1
    BY <1>1, <1>3
  <1>8. \A i \in DOMAIN channel'[r].buf :
          channel'[r].buf[i].kind = "done" => i = Len(channel'[r].buf)
    <2> SUFFICES ASSUME NEW i \in DOMAIN channel'[r].buf, channel'[r].buf[i].kind = "done"
        PROVE i = Len(channel'[r].buf)
      OBVIOUS
    <2>1. /\ i \in Nat /\ i + 1 \in DOMAIN channel[r].buf
          /\ channel'[r].buf[i] = channel[r].buf[i + 1]
      BY <1>1, <1>3
    <2>2. i + 1 = Len(channel[r].buf)
      BY <2>1 DEF Whole
    <2> QED
      BY <1>2, <1>7, <2>1, <2>2
  <1>9. request'[r].pc \in Leaving => channel'[r].buf = <<>>
    <2> SUFFICES ASSUME request'[r].pc \in Leaving PROVE channel'[r].buf = <<>>
      OBVIOUS
    <2>1. ev.kind = "done"
      BY <1>4 DEF Leaving
    <2>2. 1 \in DOMAIN channel[r].buf /\ channel[r].buf[1].kind = "done"
      BY <1>1, <1>2, <2>1
    <2>3. Len(channel[r].buf) = 1
      BY <2>2 DEF Whole
    <2>4. channel'[r].buf \in Seq(Events) /\ Len(channel'[r].buf) = 0
      BY <1>1, <1>3, <1>7, <2>3
    <2> QED
      BY <2>4
  <1>10. Unfinished(r) => Len(channel'[r].buf) + NextChunk(r) <= chunks[r] + Others(r)
    <2>1. Others(r) \in Nat /\ NextChunk(r) \in Nat /\ chunks[r] \in Nat
      BY SentNat, ChatAssumption DEF Others, Asked, NextChunk
    <2>2. Unfinished(r) => Len(channel[r].buf) + NextChunk(r) <= chunks[r] + Others(r)
      BY DEF Whole
    <2> QED
      BY <1>2, <1>7, <2>1, <2>2
  <1> HIDE DEF ev
  <1> QED
    BY <1>4, <1>5, <1>6, <1>8, <1>9, <1>10 DEF Whole

\* What a loop publishes finds room in the channel of its request.
LEMMA WholePublish ==
  ASSUME TurnFits, IInv, SoloInv, NEW l \in Requests, Whole(l), PublishDeliver(l)
  PROVE  Whole(l)'
  <1> DEFINE step == loop[l].pc
             ev == [kind |-> Published[step], turn |-> l]
  <1>o. OwnEntry(l) /\ OwnLoop(l) /\ OwnEvents(l)
    BY DEF SoloInv
  <1>1. /\ step \in DOMAIN Published /\ loop[l].target = l /\ loop[l].msg = l
        /\ Unfinished(l) /\ Working(l)
    BY <1>o DEF PublishDeliver, Working, Unfinished, BeforeDone, Published, LoopAt, OwnLoop
  <1>2. subscribers[l] = {l} /\ request[l].pc = "stream"
    BY <1>o, <1>1 DEF OwnEntry, OwnLoop, At
  <1>3. /\ PublishTo(l, ev) /\ loop'[l].pc = NextStep[step] /\ loop'[l].msg = l
        /\ UNCHANGED <<chunks, decision, request, stream>>
    BY <1>1 DEF PublishDeliver, Turn, IInv, LoopInv
  <1>4. ev \in Events
    BY <1>1 DEF Events, EventKinds, Published
  <1>5. /\ channel[l].buf \in Seq(Events) /\ stream[l] \in Seq(Events)
        /\ chunks[l] \in 0..MaxChunks /\ Len(channel[l].buf) \in Nat
        /\ SubscriberBuffer \in Nat /\ MaxChunks \in Nat
    BY SentNat, RegistryAssumption, ChatAssumption DEF IInv, RegistryInv, OtherInv
  <1>6. Others(l) \in 0..4 /\ NextChunk(l) \in {0, 1}
    BY DEF Others, Asked, NextChunk
  <1>7. Len(channel[l].buf) < SubscriberBuffer
    BY <1>1, <1>5, <1>6 DEF Whole, TurnFits
  <1>8. channel'[l].buf = Append(channel[l].buf, ev)
    BY <1>2, <1>3, <1>7 DEF PublishTo, IInv, RegistryInv
  <1>9. /\ NextChunk(l) = IF ev.kind = "chunk" THEN 1 ELSE 0
        /\ NextChunk(l)' = 0
    BY <1>1, <1>3 DEF NextChunk, LoopAt, Published, NextStep
  <1>10. l # NoOne
    BY MatesFacts
  <1>11. Unfinished(l)' <=> ev.kind # "done"
    BY <1>1, <1>3, <1>10 DEF Unfinished, BeforeDone, Published, NextStep
  <1>12. Sent(l, "chunk")' = Sent(l, "chunk") + NextChunk(l)
    BY <1>3, <1>4, <1>5, <1>8, <1>9, CountAppend, CountFacts DEF Sent
  <1>13. Sent(l, "done")' = Sent(l, "done") + IF ev.kind = "done" THEN 1 ELSE 0
    BY <1>3, <1>4, <1>5, <1>8, CountAppend, CountFacts DEF Sent
  <1>14. Others(l)' \in Nat /\ (step # "chunk" => Others(l) + 1 <= Others(l)' \/ ev.kind = "done")
         /\ (step = "chunk" => Others(l)' = Others(l))
    BY <1>1, <1>3 DEF Others, Asked, LoopAt, NextStep, Published, Whole
  <1>15. Unfinished(l)' => Len(channel'[l].buf) + NextChunk(l)' <= chunks'[l] + Others(l)'
    <2>1. Len(channel'[l].buf) = Len(channel[l].buf) + 1
      BY <1>5, <1>8
    <2>2. ev.kind = "chunk" <=> step = "chunk"
      BY <1>1 DEF Published
    <2>3. Len(channel[l].buf) + NextChunk(l) <= chunks[l] + Others(l)
      BY <1>1 DEF Whole
    <2>4. chunks'[l] = chunks[l] /\ chunks[l] \in Nat /\ Others(l) \in Nat
      BY <1>3, <1>5, <1>6
    <2>5. Unfinished(l)' => NextChunk(l)' = 0 /\ Others(l) + 1 <= Others(l)' + NextChunk(l)
      BY <1>6, <1>9, <1>11, <1>14, <2>2
    <2>6. Others(l)' \in Nat /\ Len(channel[l].buf) \in Nat /\ NextChunk(l) \in {0, 1}
      BY <1>5, <1>6, <1>14
    <2> QED
      BY <2>1, <2>3, <2>4, <2>5, <2>6
  <1>16. \A i \in DOMAIN channel'[l].buf :
           channel'[l].buf[i].kind = "done" => i = Len(channel'[l].buf)
    <2> SUFFICES ASSUME NEW i \in DOMAIN channel'[l].buf, channel'[l].buf[i].kind = "done"
        PROVE i = Len(channel'[l].buf)
      OBVIOUS
    <2>1. i = Len(channel'[l].buf) \/ (i \in DOMAIN channel[l].buf /\ channel[l].buf[i].kind = "done")
      BY <1>5, <1>8
    <2> QED
      BY <1>o, <1>1, <2>1 DEF OwnEvents
  <1>17. loop'[l].pc \in {"ask", "question", "waiting"} => decision'[l] = "none"
    BY <1>1, <1>3 DEF NextStep, Published, Whole
  <1>18. Sent(l, "chunk")' + NextChunk(l)' = chunks'[l]
    BY <1>3, <1>9, <1>12, SentNat DEF Whole
  <1>19. Sent(l, "done")' = IF Unfinished(l)' THEN 0 ELSE 1
    BY <1>1, <1>11, <1>13 DEF Whole
  <1>20. request'[l].pc \notin Leaving
    BY <1>2, <1>3 DEF Leaving
  <1> QED
    BY <1>15, <1>16, <1>17, <1>18, <1>19, <1>20 DEF Whole

\* The other steps of a loop publish nothing.
LEMMA WholeLoop ==
  ASSUME TurnFits, IInv, SoloInv, NEW l \in Requests, Whole(l), LoopStep(l)
  PROVE  Whole(l)' /\ \A q \in Requests \ {l} : chunks'[q] = chunks[q]
  <1>o. OwnEntry(l) /\ OwnLoop(l)
    BY DEF SoloInv
  <1>n. l # NoOne
    BY MatesFacts
  <1>t. /\ loop \in [Requests -> [pc : LoopSteps, src : Maybe, msg : Maybe, target : Maybe]]
        /\ chunks \in [Requests -> 0..MaxChunks] /\ decision \in [Requests -> {"none", "yes", "no"}]
    BY DEF IInv, LoopInv, OtherInv
  <1>m. loop[l].pc \notin {"off", "channel", "select"} => loop[l].msg = l
    BY <1>o DEF OwnLoop
  <1>s. Working(l) => sessions[SessionOf[l]] = l
    BY <1>o DEF OwnLoop, OwnEntry, At
  <1>k. ASSUME UNCHANGED <<stream, channel, chunks, request>>,
               loop'[l].pc = "chunk" <=> loop[l].pc = "chunk",
               Unfinished(l)' <=> Unfinished(l),
               loop'[l].pc \in {"ask", "question", "waiting"} => decision'[l] = "none",
               Unfinished(l) => Others(l) <= Others(l)'
        PROVE  Whole(l)'
    BY <1>k, WholeKept
  <1>1. CASE OpenChannel(l) \/ SelectDone(l)
    <2>1. /\ UNCHANGED <<stream, channel, chunks, request>>
          /\ loop[l].pc \in {"channel", "select"} /\ loop'[l].pc \in {"select", "exit"}
          /\ loop'[l].msg = loop[l].msg
      BY <1>1, <1>t DEF OpenChannel, SelectDone, LoopGoto, LoopAt, registryVars
    <2>2. Unfinished(l)' <=> Unfinished(l)
      BY <1>o, <1>n, <2>1 DEF Unfinished, BeforeDone, Published, OwnLoop
    <2>3. Others(l) = 0 /\ Others(l)' \in Nat
      BY <2>1 DEF Others, Asked
    <2> QED
      BY <1>k, <2>1, <2>2, <2>3
  <1>2. CASE SelectMessage(l)
    <2>1. /\ UNCHANGED <<stream, channel, chunks, request>> /\ loop[l].pc = "select"
          /\ loop'[l].pc = "context" /\ messageCh[loop[l].src] # <<>>
      BY <1>2, <1>t DEF SelectMessage, Receive, LoopAt
    <2>2. loop[l].msg = NoOne
      BY <1>o, <2>1 DEF OwnLoop, At, LoopAt
    <2>3. Unfinished(l)' <=> Unfinished(l)
      BY <2>1, <2>2 DEF Unfinished, BeforeDone
    <2>4. Others(l) = 0 /\ Others(l)' \in Nat
      BY <2>1 DEF Others, Asked
    <2> QED
      BY <1>k, <2>1, <2>3, <2>4
  <1>3. CASE SessionContext(l) \/ PublishLookup(l)
    <2>1. loop[l].pc \in {"context"} \cup DOMAIN Published
      BY <1>3 DEF SessionContext, PublishLookup, LoopAt
    <2>2. Unfinished(l) /\ Working(l)
      BY <2>1 DEF Unfinished, Working, LoopAt, BeforeDone, Published
    <2>3. sessions[SessionOf[l]] = l
      BY <1>s, <2>2
    <2>4. /\ UNCHANGED <<stream, channel, chunks, request, decision>>
          /\ loop'[l].pc = IF loop[l].pc = "context" THEN "mark" ELSE loop[l].pc
      BY <1>3, <1>n, <1>t, <2>1, <2>3
      DEF SessionContext, PublishLookup, LoopGoto, LoopAt, HasSession, registryVars, Published
    <2>5. Unfinished(l)'
      BY <2>1, <2>4 DEF Unfinished, BeforeDone
    <2>6. Others(l)' = Others(l) /\ Others(l) \in Nat
      BY <2>1, <2>4 DEF Others, Asked, LoopAt
    <2>7. loop'[l].pc \in {"ask", "question", "waiting"} => decision'[l] = "none"
      BY <2>4 DEF Whole
    <2> QED
      BY <1>k, <2>1, <2>2, <2>4, <2>5, <2>6, <2>7
  <1>4. CASE MarkTurn(l) \/ CreateExecutor(l) \/ RegisterWithPool(l) \/ StoreCancel(l)
             \/ CallConfirmedTool(l) \/ ReturnFromTurn(l) \/ AskUser(l) \/ Unregister(l)
    <2>1. /\ UNCHANGED <<stream, channel, chunks, request, decision>>
          /\ \/ loop[l].pc = "mark" /\ loop'[l].pc \in {"started", "user"}
             \/ loop[l].pc = "executor" /\ loop'[l].pc \in {"register", "noModel"}
             \/ loop[l].pc = "register" /\ loop'[l].pc = "storeCancel"
             \/ loop[l].pc = "storeCancel" /\ loop'[l].pc = "execute"
             \/ loop[l].pc = "execute" /\ loop'[l].pc = "ask" /\ decision[l] = "none"
             \/ loop[l].pc = "execute" /\ loop'[l].pc \in {"done", "error"}
             \/ loop[l].pc = "ask" /\ loop'[l].pc = "question"
             \/ loop[l].pc = "unregister" /\ loop'[l].pc = "execute"
      BY <1>4, <1>m, <1>t
      DEF MarkTurn, CreateExecutor, RegisterWithPool, StoreCancel, CallConfirmedTool,
          ReturnFromTurn, AskUser, Unregister, LoopGoto, LoopAt, Turn, registryVars,
          StoreTurnCancel, RegisterAskUser, UnregisterAskUser
    <2>2. Unfinished(l) /\ Unfinished(l)'
      BY <2>1 DEF Unfinished, BeforeDone, Published
    <2>3. Others(l) \in Nat /\ Others(l)' \in Nat /\ Others(l) <= Others(l)'
      BY <2>1 DEF Others, Asked, LoopAt
    <2>4. loop'[l].pc \in {"ask", "question", "waiting"} => decision'[l] = "none"
      BY <2>1 DEF Whole
    <2> QED
      BY <1>k, <2>1, <2>2, <2>3, <2>4
  <1>5. CASE ReceiveReply(l) \/ ConfirmTimeout(l)
    <2>1. PICK verdict \in {"yes", "no"} : Decide(l, verdict) /\ loop[l].pc = "waiting"
      BY <1>5 DEF ReceiveReply, ConfirmTimeout, LoopAt
    <2>2. /\ UNCHANGED <<stream, channel, chunks, request>>
          /\ loop'[l].pc = "unregister" /\ decision'[l] = verdict
      BY <1>m, <1>t, <2>1 DEF Decide, LoopGoto, Turn, registryVars
    <2>3. Unfinished(l) /\ Unfinished(l)'
      BY <2>1, <2>2 DEF Unfinished, BeforeDone
    <2>4. Others(l) = 3 /\ Others(l)' = 3
      BY <2>1, <2>2 DEF Others, Asked, LoopAt
    <2> QED
      BY <1>k, <2>1, <2>2, <2>3, <2>4
  <1>6. CASE ClearCancel(l) \/ DropPool(l) \/ ClearTurn(l) \/ Exit(l)
    <2>1. /\ UNCHANGED <<stream, channel, chunks, request>>
          /\ loop[l].pc \in {"clearCancel", "dropPool", "clearTurn", "exit"}
          /\ loop'[l].pc \in {"dropPool", "clearTurn", "select", "gone"}
          /\ loop'[l].msg = loop[l].msg
      BY <1>6, <1>t DEF ClearCancel, DropPool, ClearTurn, Exit, LoopGoto, LoopAt,
                        registryVars, StoreTurnCancel
    <2>2. ~Unfinished(l) /\ ~Unfinished(l)'
      BY <1>n, <1>m, <2>1 DEF Unfinished, BeforeDone, Published
    <2> QED
      BY <1>k, <2>1, <2>2
  <1>7. CASE EmitChunk(l)
    <2>1. /\ loop[l].pc = "execute" /\ loop'[l].pc = "chunk"
          /\ chunks' = [chunks EXCEPT ![l] = chunks[l] + 1]
          /\ UNCHANGED <<stream, channel, request, decision>>
      BY <1>7, <1>m, <1>t DEF EmitChunk, LoopGoto, LoopAt, Turn, registryVars
    <2>2. chunks'[l] = chunks[l] + 1 /\ chunks[l] \in Nat
      BY <1>t, <2>1, ChatAssumption
    <2>3. /\ Unfinished(l) /\ Unfinished(l)' /\ NextChunk(l) = 0 /\ NextChunk(l)' = 1
          /\ Others(l)' = Others(l) /\ Others(l) \in Nat
      BY <2>1 DEF Unfinished, BeforeDone, Published, NextChunk, LoopAt, Others, Asked
    <2>4. Sent(l, "chunk")' = Sent(l, "chunk") /\ Sent(l, "done")' = Sent(l, "done")
      BY <2>1 DEF Sent
    <2>5. Sent(l, "chunk") \in Nat /\ Len(channel[l].buf) \in Nat
      BY SentNat
    <2>6. Sent(l, "chunk")' + NextChunk(l)' = chunks'[l]
      BY <2>2, <2>3, <2>4, <2>5 DEF Whole
    <2>7. Len(channel'[l].buf) + NextChunk(l)' <= chunks'[l] + Others(l)'
      <3>1. Len(channel[l].buf) + NextChunk(l) <= chunks[l] + Others(l)
        BY <2>3 DEF Whole
      <3> QED
        BY <2>1, <2>2, <2>3, <2>5, <3>1
    <2>8. Whole(l)'
      BY <2>1, <2>3, <2>4, <2>6, <2>7 DEF Whole
    <2> QED
      BY <2>1, <2>8
  <1>8. CASE PublishDeliver(l)
    BY <1>8, WholePublish DEF PublishDeliver
  <1>9. ~EmitChunk(l) => chunks' = chunks
    BY DEF LoopStep, OpenChannel, SelectDone, SelectMessage, SessionContext, MarkTurn,
           PublishLookup, PublishDeliver, CreateExecutor, RegisterWithPool, StoreCancel,
           CallConfirmedTool, ReturnFromTurn, AskUser, ReceiveReply, ConfirmTimeout, Decide,
           Unregister, ClearCancel, DropPool, ClearTurn, Exit
  <1> QED
    BY <1>1, <1>2, <1>3, <1>4, <1>5, <1>6, <1>7, <1>8, <1>9 DEF LoopStep

LEMMA WholeRequest ==
  ASSUME IInv, SoloInv, ClientsWait, NEW r \in Requests, Whole(r), RequestStep(r)
  PROVE  Whole(r)' /\ chunks' = chunks
  <1>o. OwnEntry(r) /\ OwnLoop(r) /\ OwnEvents(r)
    BY DEF SoloInv
  <1>t. /\ request \in [Requests -> [pc : RequestSteps, sub : Maybe, target : Maybe]]
        /\ loop \in [Requests -> [pc : LoopSteps, src : Maybe, msg : Maybe, target : Maybe]]
        /\ channel \in [Requests -> [buf : Seq(Events), closed : BOOLEAN]]
    BY DEF IInv, RequestInv, LoopInv, RegistryInv
  <1>1. ~Refuse(r) /\ ~ChannelClosed(r)
    BY <1>o DEF Refuse, ChannelClosed, OwnEntry, At
  <1>2. ~(At(r, "subscribe") /\ sessions[SessionOf[r]] = NoOne)
    BY <1>o, MatesFacts DEF OwnEntry, At
  <1>3. Others(r) \in Nat
    BY DEF Others, Asked
  <1>k. ASSUME UNCHANGED <<stream, chunks, decision>>, channel'[r] = channel[r],
               request'[r].pc \in Leaving => request[r].pc \in Leaving, loop'[r] = loop[r]
        PROVE  Whole(r)'
    <2>1. (Unfinished(r)' <=> Unfinished(r)) /\ Others(r)' = Others(r)
      BY <1>k DEF Unfinished, Others, Asked, LoopAt
    <2> QED
      BY <1>k, <1>3, <2>1, WholeKept DEF Whole
  <1>4. CASE Create(r) \/ SubscribeLookup(r) \/ SubscribeInsert(r) \/ EnqueueLookup(r) \/ EnqueueSend(r)
    <2>1. /\ UNCHANGED <<stream, chunks, decision, loop, channel>>
          /\ request'[r].pc \notin Leaving
      BY <1>2, <1>4, <1>t
      DEF Create, SubscribeLookup, SubscribeInsert, EnqueueLookup, EnqueueSend, CreateSession,
          AddSubscriber, Offer, registryVars, processorVars, Goto, At, Leaving
    <2> QED
      BY <1>k, <2>1
  <1>5. CASE DeferUnsubscribe(r) \/ StopProcessing(r) \/ RemoveDetach(r)
    <2>1. /\ UNCHANGED <<stream, chunks, decision, loop, channel>>
          /\ request[r].pc \in Leaving
      BY <1>5
      DEF DeferUnsubscribe, StopProcessing, RemoveDetach, Unsubscribe, Detach,
          registryVars, processorVars, At, Leaving
    <2> QED
      BY <1>k, <2>1
  <1>6. CASE RemoveClose(r)
    <2>1. request[r].target = r /\ subscribers[r] = {} /\ request[r].pc \in Leaving
      BY <1>6, <1>o DEF RemoveClose, OwnEntry, At, Leaving
    <2>2. UNCHANGED <<stream, chunks, decision, loop>> /\ channel'[r] = channel[r]
      BY <1>6, <2>1 DEF RemoveClose, CloseEntry, processorVars
    <2> QED
      BY <1>k, <2>1, <2>2
  <1>7. CASE StartProcessing(r)
    <2>1. /\ loop[r].pc = "off" /\ loop[r].msg = NoOne /\ loop'[r].msg = NoOne
          /\ loop'[r].pc \in {"off", "channel"} /\ request'[r].pc \notin Leaving
          /\ UNCHANGED <<stream, chunks, decision, channel>>
      BY <1>7, <1>o, <1>t DEF StartProcessing, LoopGoto, Goto, At, OwnLoop, LoopAt, Leaving, registryVars
    <2>2. Unfinished(r) /\ Unfinished(r)' /\ Others(r) = 0 /\ Others(r)' = 0
      BY <2>1 DEF Unfinished, Others
    <2> QED
      BY <2>1, <2>2, WholeKept
  <1>8. CASE Forward(r)
    BY <1>8, WholeForward DEF Forward, processorVars
  <1>9. chunks' = chunks
    BY DEF RequestStep, Create, SubscribeLookup, SubscribeInsert, EnqueueLookup, EnqueueSend,
           Refuse, StartProcessing, Forward, ChannelClosed, DeferUnsubscribe, StopProcessing,
           RemoveDetach, RemoveClose, processorVars
  <1> QED
    BY <1>1, <1>4, <1>5, <1>6, <1>7, <1>8, <1>9 DEF RequestStep

LEMMA WholeUntouched ==
  ASSUME IInv, NEW q \in Requests, Whole(q),
         stream'[q] = stream[q], channel'[q] = channel[q], chunks'[q] = chunks[q],
         request'[q].pc = request[q].pc \/ request'[q].pc = "create" \/ request'[q].pc = "subscribe",
         loop'[q] = loop[q], decision'[q] = decision[q]
  PROVE  Whole(q)'
  <1>1. /\ Unfinished(q)' <=> Unfinished(q)
        /\ Others(q)' = Others(q) /\ Others(q) \in Nat
    BY DEF Unfinished, Others, Asked, LoopAt
  <1> QED
    BY <1>1, WholeKept DEF Whole, Leaving

LEMMA WholeStep ==
  ClientsWait /\ TurnFits /\ IInv /\ SoloInv /\ WholeInv /\ [Next]_vars => WholeInv'
  <1> SUFFICES ASSUME ClientsWait, TurnFits, IInv, SoloInv, WholeInv, [Next]_vars,
                      NEW q \in Requests
      PROVE Whole(q)'
    BY DEF WholeInv
  <1>w. Whole(q)
    BY DEF WholeInv
  <1>u. CASE UNCHANGED vars
    BY <1>u, <1>w, WholeUntouched DEF vars, registryVars, processorVars
  <1>a. ASSUME NEW r \in Requests, Arrive(r) PROVE Whole(q)'
    <2>1. /\ UNCHANGED <<stream, channel, chunks, loop, decision>>
          /\ request'[q].pc = request[q].pc \/ request'[q].pc \in {"create", "subscribe"}
      BY <1>a DEF Arrive, Goto, registryVars, processorVars, IInv, RequestInv
    <2> QED
      BY <1>w, <2>1, WholeUntouched
  <1>b. ASSUME NEW r \in Requests, RequestStep(r) PROVE Whole(q)'
    <2>1. CASE q = r
      BY <1>b, <1>w, <2>1, WholeRequest
    <2>2. CASE q # r
      <3>1. StepOf(r) /\ chunks' = chunks
        BY <1>b, RequestStepSolo, WholeRequest DEF WholeInv
      <3> QED
        BY <1>w, <2>2, <3>1, WholeUntouched DEF StepOf
    <2> QED
      BY <2>1, <2>2
  <1>c. ASSUME NEW l \in Requests, LoopStep(l) PROVE Whole(q)'
    <2>1. CASE q = l
      BY <1>c, <1>w, <2>1, WholeLoop
    <2>2. CASE q # l
      <3>1. StepOf(l) /\ chunks'[q] = chunks[q]
        BY <1>c, <2>2, LoopStepSolo, WholeLoop DEF WholeInv
      <3> QED
        BY <1>w, <2>2, <3>1, WholeUntouched DEF StepOf
    <2> QED
      BY <2>1, <2>2
  <1>d. ASSUME \/ \E s \in Sessions : Cancel(s)
               \/ \E t \in Requests, reply \in {"yes", "no"} : Reply(t, reply)
        PROVE  Whole(q)'
    <2>1. UNCHANGED <<stream, channel, chunks, loop, decision, request>>
      BY <1>d DEF Cancel, Reply, SendAskUserReply, registryVars
    <2> QED
      BY <1>w, <2>1, WholeUntouched
  <1> QED
    BY <1>u, <1>a, <1>b, <1>c, <1>d DEF Next

\* A response that ended carries all the chunks of its turn and one "done", because the
\* channel has room for a turn and a client reads its own turn only (chat_http_adapter.go: Chat).
THEOREM NothingLost == ClientsWait /\ TurnFits => (Spec => []WholeTurn)
  <1> SUFFICES ASSUME ClientsWait, TurnFits PROVE Spec => []WholeTurn
    OBVIOUS
  <1>1. Init => WholeInv
    <2> SUFFICES ASSUME Init, NEW r \in Requests PROVE Whole(r)
      BY DEF WholeInv
    <2>1. /\ stream[r] = <<>> /\ channel[r].buf = <<>> /\ chunks[r] = 0 /\ decision[r] = "none"
          /\ loop[r].pc = "off" /\ loop[r].msg = NoOne /\ request[r].pc = "new"
      BY DEF Init, RegistryInit
    <2>2. Sent(r, "chunk") = 0 /\ Sent(r, "done") = 0
      BY <2>1, CountEmpty DEF Sent
    <2>3. NextChunk(r) = 0 /\ Unfinished(r) /\ Others(r) = 0
      BY <2>1 DEF NextChunk, LoopAt, Unfinished, Others
    <2> QED
      BY <2>1, <2>2, <2>3 DEF Whole
  <1>2. IInv /\ SoloInv /\ WholeInv => WholeTurn
    <2> SUFFICES ASSUME IInv, SoloInv, WholeInv, NEW r \in Requests, Over(r)
        PROVE  CountOf(r, "done") = 1 /\ CountOf(r, "chunk") = chunks[r]
      BY DEF WholeTurn
    <2>1. OwnEntry(r) /\ OwnLoop(r) /\ Whole(r)
      BY DEF SoloInv, WholeInv
    <2>2. At(r, "finished")
      BY <2>1 DEF Over, OwnEntry, At
    <2>3. ~Unfinished(r) /\ channel[r].buf = <<>>
      BY <2>1, <2>2 DEF OwnLoop, Whole, Working, At, LoopAt, Leaving
    <2>4. NextChunk(r) = 0
      BY <2>3 DEF NextChunk, LoopAt, Unfinished, BeforeDone, Published
    <2>5. Sent(r, "done") = 1 /\ Sent(r, "chunk") = chunks[r]
      BY <2>1, <2>3, <2>4, SentNat DEF Whole
    <2>6. \A kind : Sent(r, kind) = CountOf(r, kind)
      <3>1. \A kind : CountIn(stream[r], kind) = CountOf(r, kind)
        BY DEF CountIn, Kinds, CountOf
      <3>2. \A kind : CountIn(stream[r], kind) \in Nat
        BY SentNat
      <3> QED
        BY <2>3, <3>1, <3>2, CountEmpty DEF Sent
    <2> QED
      BY <2>5, <2>6
  <1>3. IInv /\ SoloInv /\ WholeInv /\ [Next]_vars => WholeInv'
    BY WholeStep
  <1> QED
    BY <1>1, <1>2, <1>3, SoloInvariance, PTL DEF Spec
=============================================================================
