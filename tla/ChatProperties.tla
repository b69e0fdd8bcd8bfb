------------------------- MODULE ChatProperties --------------------------
(***************************************************************************)
(* What the chat path promises its clients, and what the sources say of it *)
(* that does not hold.                                                     *)
(***************************************************************************)
EXTENDS ChatSession

\* The panics of Go channels: PublishEvent sends to every channel in
\* entry.subscribers and RemoveSession closes every one of them, so a channel
\* still registered anywhere must be open, however requests and loops interleave.
RegisteredChannelsOpen ==
  \A e \in Requests : \A r \in subscribers[e] : ~channel[r].closed

\* Sessions do not leak into one another: entries, queued messages, running
\* turns, buffered and delivered events all stay within the session of the
\* request they belong to, although everything is keyed by session id in shared
\* maps and entries outlive their place in the map.
SessionIsolation ==
  /\ \A s \in Sessions : sessions[s] # NoOne => SessionOf[sessions[s]] = s
  /\ \A e \in Requests : \A i \in DOMAIN messageCh[e] :
       SessionOf[messageCh[e][i]] = SessionOf[e]
  /\ \A e \in Requests :
       turnCancelFn[e] # NoOne => SessionOf[turnCancelFn[e]] = SessionOf[e]
  /\ \A l \in Requests : Turn(l) # NoOne => SessionOf[Turn(l)] = SessionOf[l]
  /\ \A r \in Requests :
       /\ \A i \in DOMAIN channel[r].buf : SessionOf[channel[r].buf[i].turn] = SessionOf[r]
       /\ \A i \in DOMAIN stream[r] : SessionOf[stream[r][i].turn] = SessionOf[r]

\* A message is handled by one loop, even when several loops of a session read
\* the same messageCh: no two loops are in the turn of one message and a message
\* being handled is in no queue.
TurnRunsOnce ==
  \A l \in Requests : InTurn(l) =>
    /\ \A k \in Requests \ {l} : InTurn(k) => Turn(k) # Turn(l)
    /\ \A e \in Requests : \A i \in DOMAIN messageCh[e] : messageCh[e][i] # Turn(l)

\* In any stream the events of one turn come in the order processMessage emits
\* them, even with other turns' events in between and events dropped: nothing of
\* a turn after its "done", and no more output after its "error".
Rank == [chunk |-> 1, question |-> 1, error |-> 2, done |-> 3]
TurnOrder ==
  \A r \in Requests : \A i, j \in DOMAIN stream[r] :
    i < j /\ stream[r][i].turn = stream[r][j].turn =>
      LET first == Rank[stream[r][i].kind]
          second == Rank[stream[r][j].kind] IN
      first < second \/ (first = 1 /\ second = 1)

-----------------------------------------------------------------------------
(* Promises to a client that has one request in flight (Overlap = FALSE)   *)

\* Such a client only ever receives the events of its own turn, although the
\* loop of its previous request may still be running its deferred calls.
OwnTurnOnly ==
  \A r \in Requests : \A i \in DOMAIN stream[r] : stream[r][i].turn = r

CountOf(r, kind) == Cardinality({i \in DOMAIN stream[r] : stream[r][i].kind = kind})

\* A response that ended carries the whole turn: every chunk that was published
\* and exactly one "done"; in particular the message was accepted and handled.
WholeTurn ==
  \A r \in Requests : Over(r) =>
    /\ CountOf(r, "done") = 1
    /\ CountOf(r, "chunk") = chunks[r]

\* sseConfirmationRequester, processor.go:258: "It sends a confirmation event to
\* the client and waits for user response": a tool that needs confirmation runs
\* only if the user confirmed.
ConfirmedByUser == \A t \in Requests : decision[t] = "yes" => t \in answered

\* Chat, chat_http_adapter.go:159-161: it "returns an SSEEvent channel that closes
\* when processing stops": every accepted request gets its response closed.
StreamCloses == \A r \in Requests : At(r, "stream") ~> Over(r)

=============================================================================
