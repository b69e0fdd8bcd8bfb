---------------------------- MODULE McpStream ----------------------------
(***************************************************************************)
(* The SSE transport of an MCP client (infrastructure/mcp/sse_transport.go *)
(* with client.go): answers come on a stream that a goroutine reads, each  *)
(* handed to the Send that waits for its id; requests are posted to the    *)
(* endpoint the stream announced.  A stream that drops is replaced by its  *)
(* reader, one whose session the server no longer knows by the Send that   *)
(* was told so: reconnectMu admits one of them at a time.  Close may come  *)
(* at any moment.  The server (external) may drop a stream, refuse a       *)
(* connection, announce nothing, lose a request or answer it on the stream *)
(* or in the body, each at most once.                                      *)
(***************************************************************************)
EXTENDS Nil, Naturals, FiniteSets

CONSTANTS
  Senders,     \* callers of Send; each sends a request with a new id when one is over
  Streams,     \* connections that may exist at once
  MaxAttempts  \* sseMaxReconnectAttempts (5 in the code)

ASSUME StreamAssumption ==
  /\ None \notin Senders \cup Streams /\ Senders \cap Streams = {}
  /\ Streams # {}
  /\ MaxAttempts \in Nat \ {0}

VARIABLES
  closed,      \* t.closed
  endpoint,    \* t.messageURL: the stream that announced it, or None
  ready,       \* whether t.endpointReady is closed
  cancelOf,    \* the stream that t.cancel cancels
  reader,      \* per stream, where its goroutine is; none when nothing refers to it
  cancelled,   \* streams whose context is cancelled
  line,        \* per stream, the line its goroutine has read and not handled yet
  alive,       \* streams that the server still serves (external)
  wire,        \* per stream, the answers the server has yet to send on it (external)
  sender,      \* per caller of Send, where it is
  registered,  \* the callers whose request is in t.pending
  answerTo,    \* per caller, what is in the channel it waits on
  reconnector, \* who holds reconnectMu, at which step of which attempt
  gaveUp,      \* whether the last reconnect failed (history)
  silent       \* whether a Send has returned neither an answer nor an error (history)

streamVars == <<closed, endpoint, ready, cancelOf, reader, cancelled, line, alive, wire,
                sender, registered, answerTo, reconnector, gaveUp, silent>>
serverSide == <<alive, wire>>
sends == <<sender, registered, answerTo, silent>>
connection == <<endpoint, ready, cancelOf, reader, cancelled, line>>

Actors == Senders \cup Streams
Nobody == [actor |-> None, step |-> "none", attempt |-> 0, stream |-> None]
NewSend == [pc |-> "idle", retried |-> FALSE, url |-> None]

StreamTypeOK ==
  /\ closed \in BOOLEAN /\ ready \in BOOLEAN /\ gaveUp \in BOOLEAN /\ silent \in BOOLEAN
  /\ endpoint \in Streams \cup {None} /\ cancelOf \in Streams \cup {None}
  /\ reader \in [Streams -> {"none", "reading", "reconnect"}]
  /\ cancelled \subseteq Streams /\ alive \subseteq Streams
  /\ line \in [Streams -> Senders \cup {None, "endpoint"}]
  /\ wire \in [Streams -> SUBSET (Senders \cup {"endpoint"})]
  /\ sender \in [Senders -> [pc : {"idle", "url", "post", "await", "reconnect"},
                             retried : BOOLEAN, url : Streams \cup {None}]]
  /\ registered \subseteq Senders
  /\ answerTo \in [Senders -> {"nothing", "answer", "closed"}]
  /\ reconnector \in [actor : Actors \cup {None}, step : {"none", "attempt", "dial", "endpoint"},
                      attempt : 0..MaxAttempts, stream : Streams \cup {None}]

\* Start succeeded: one stream, whose endpoint is known.
StreamInit ==
  LET g == CHOOSE g \in Streams : TRUE IN
    /\ closed = FALSE /\ endpoint = g /\ ready = TRUE /\ cancelOf = g
    /\ reader = [h \in Streams |-> IF h = g THEN "reading" ELSE "none"]
    /\ cancelled = {} /\ alive = {g}
    /\ line = [h \in Streams |-> None]
    /\ wire = [h \in Streams |-> {}]
    /\ sender = [s \in Senders |-> NewSend]
    /\ registered = {}
    /\ answerTo = [s \in Senders |-> "nothing"]
    /\ reconnector = Nobody
    /\ gaveUp = FALSE
    /\ silent = FALSE

-----------------------------------------------------------------------------
(* Send                                                                    *)

SendGoto(s, step) == sender' = [sender EXCEPT ![s].pc = step]

\* The deferred removal from t.pending goes with every return of doSend.
Return(s, result) ==
  /\ sender' = [sender EXCEPT ![s] = NewSend]
  /\ registered' = registered \ {s}
  /\ silent' = (silent \/ result = "nil")

\* A closed transport refuses; otherwise the request gets a channel of its own.
Register(s) ==
  /\ IF closed THEN Return(s, "error") /\ UNCHANGED answerTo
     ELSE /\ SendGoto(s, "url")
          /\ registered' = registered \cup {s}
          /\ answerTo' = [answerTo EXCEPT ![s] = "nothing"]
          /\ UNCHANGED silent

\* Its id is new: what the server still sends for the last one is for nobody.
Send(s) ==
  /\ sender[s].pc = "idle"
  /\ Register(s)
  /\ wire' = [g \in Streams |-> wire[g] \ {s}]
  /\ line' = [g \in Streams |-> IF line[g] = s THEN None ELSE line[g]]
  /\ UNCHANGED <<closed, endpoint, ready, cancelOf, reader, cancelled, alive, reconnector, gaveUp>>

ReadURL(s) ==
  /\ sender[s].pc = "url"
  /\ IF endpoint = None THEN Return(s, "error")
     ELSE /\ sender' = [sender EXCEPT ![s].pc = "post", ![s].url = endpoint]
          /\ UNCHANGED <<registered, silent>>
  /\ UNCHANGED <<closed, connection, serverSide, answerTo, reconnector, gaveUp>>

\* A server that does not serve the stream any more answers with a session error, which
\* makes the first attempt reconnect.
SessionError(s) ==
  /\ sender[s].pc = "post" /\ sender[s].url \notin alive
  /\ IF sender[s].retried THEN Return(s, "error")
     ELSE /\ SendGoto(s, "reconnect")
          /\ registered' = registered \ {s}
          /\ UNCHANGED silent
  /\ UNCHANGED <<closed, connection, serverSide, answerTo, reconnector, gaveUp>>

\* The request is lost, answered in the body or, sooner or later, on the stream.
Post(s) ==
  /\ sender[s].pc = "post"
  /\ \/ Return(s, "error") /\ UNCHANGED wire
     \/ sender[s].url \in alive /\ Return(s, "answer") /\ UNCHANGED wire
     \/ /\ sender[s].url \in alive
        /\ wire' = [wire EXCEPT ![sender[s].url] = @ \cup {s}]
        /\ SendGoto(s, "await")
        /\ UNCHANGED <<registered, silent>>
  /\ UNCHANGED <<closed, connection, alive, answerTo, reconnector, gaveUp>>

\* Variant: nothing ends the wait but the answer and Close.
AwaitForever(s) ==
  /\ sender[s].pc = "await"
  /\ \/ answerTo[s] = "answer" /\ Return(s, "answer")
     \/ answerTo[s] = "closed" /\ Return(s, "nil")
  /\ UNCHANGED <<closed, connection, serverSide, answerTo, reconnector, gaveUp>>

\* A channel that Close has closed yields nil, and doSend no error with it.
Await(s) ==
  /\ sender[s].pc = "await"
  /\ \/ answerTo[s] = "answer" /\ Return(s, "answer")
     \/ answerTo[s] = "closed" /\ Return(s, "nil")
     \/ Return(s, "error")  \* the context is over, or 30 seconds are
  /\ UNCHANGED <<closed, connection, serverSide, answerTo, reconnector, gaveUp>>

-----------------------------------------------------------------------------
(* The goroutine of a stream (readSSE)                                     *)

\* Variant: the stream is left to the next Send.
LeaveDropped(g) ==
  /\ reader[g] = "reading" /\ line[g] = None
  /\ g \in cancelled \/ g \notin alive
  /\ reader' = [reader EXCEPT ![g] = "none"]
  /\ UNCHANGED <<closed, endpoint, ready, cancelOf, cancelled, line, serverSide, sends,
                 reconnector, gaveUp>>

\* The stream has ended: with its context active the server dropped it.
StreamEnds(g) ==
  /\ reader[g] = "reading" /\ line[g] = None
  /\ g \in cancelled \/ g \notin alive
  /\ reader' = [reader EXCEPT ![g] = IF g \in cancelled THEN "none" ELSE "reconnect"]
  /\ UNCHANGED <<closed, endpoint, ready, cancelOf, cancelled, line, serverSide, sends,
                 reconnector, gaveUp>>

\* The context is looked at when a line is read, not when it is handled.
ReadLine(g) ==
  /\ reader[g] = "reading" /\ line[g] = None /\ g \notin cancelled
  /\ \E what \in wire[g] :
       /\ line' = [line EXCEPT ![g] = what]
       /\ wire' = [wire EXCEPT ![g] = @ \ {what}]
  /\ UNCHANGED <<closed, endpoint, ready, cancelOf, reader, cancelled, alive, sends,
                 reconnector, gaveUp>>

\* handleSSEData, under t.mu: the channel has room for the one answer there can be.
HandleLine(g) ==
  /\ line[g] # None
  /\ line' = [line EXCEPT ![g] = None]
  /\ IF line[g] = "endpoint"
       THEN endpoint' = g /\ ready' = TRUE /\ UNCHANGED answerTo
       ELSE /\ answerTo' = IF line[g] \in registered THEN [answerTo EXCEPT ![line[g]] = "answer"]
                                                      ELSE answerTo
            /\ UNCHANGED <<endpoint, ready>>
  /\ UNCHANGED <<closed, cancelOf, reader, cancelled, serverSide, sender, registered, silent,
                 reconnector, gaveUp>>

-----------------------------------------------------------------------------
(* reconnect                                                               *)

AtReconnect(a) == IF a \in Senders THEN sender[a].pc = "reconnect" ELSE reader[a] = "reconnect"

\* reconnect returns: a Send tries once more or fails, a goroutine ends.
ReconnectReturns(a, ok) ==
  /\ reconnector' = Nobody
  /\ IF a \in Streams
       THEN reader' = [reader EXCEPT ![a] = "none"] /\ UNCHANGED sends
       ELSE /\ UNCHANGED reader
            /\ IF ok /\ ~closed
                 THEN /\ sender' = [sender EXCEPT ![a] = [pc |-> "url", retried |-> TRUE, url |-> None]]
                      /\ registered' = registered \cup {a}
                      /\ answerTo' = [answerTo EXCEPT ![a] = "nothing"]
                      /\ UNCHANGED silent
                 ELSE Return(a, "error") /\ UNCHANGED answerTo

\* Variant: the stream there was is not cancelled.
LockReconnectKeeping(a) ==
  /\ AtReconnect(a) /\ reconnector.actor = None
  /\ IF closed THEN ReconnectReturns(a, FALSE)
     ELSE /\ reconnector' = [actor |-> a, step |-> "attempt", attempt |-> 1, stream |-> None]
          /\ UNCHANGED <<reader, sends>>
  /\ UNCHANGED <<closed, endpoint, ready, cancelOf, cancelled, line, serverSide, gaveUp>>

\* Under reconnectMu: a closed transport stays closed, otherwise the old stream is cancelled.
LockReconnect(a) ==
  /\ AtReconnect(a) /\ reconnector.actor = None
  /\ IF closed THEN ReconnectReturns(a, FALSE) /\ UNCHANGED cancelled
     ELSE /\ reconnector' = [actor |-> a, step |-> "attempt", attempt |-> 1, stream |-> None]
          /\ cancelled' = cancelled \cup ({cancelOf} \ {None})
          /\ UNCHANGED <<reader, sends>>
  /\ UNCHANGED <<closed, endpoint, ready, cancelOf, line, serverSide, gaveUp>>

\* Connections nothing refers to any more.
FreeStreams ==
  {g \in Streams : /\ reader[g] = "none" /\ line[g] = None
                   /\ g \notin {endpoint, cancelOf, reconnector.stream}
                   /\ \A s \in Senders : sender[s].url # g}

\* An attempt is over without a stream: the next one, or the error.
AttemptFails ==
  IF reconnector.attempt < MaxAttempts
    THEN /\ reconnector' = [reconnector EXCEPT !.step = "attempt", !.attempt = @ + 1, !.stream = None]
         /\ UNCHANGED <<reader, sends, gaveUp>>
    ELSE ReconnectReturns(reconnector.actor, FALSE) /\ gaveUp' = TRUE

\* A fresh context for an attempt; Close may cancel it before there is a connection.
\* The bound on the connections makes an attempt fail that there is none left for.
Attempt ==
  /\ reconnector.step = "attempt"
  /\ IF FreeStreams = {}
       THEN AttemptFails /\ cancelOf' = None /\ UNCHANGED <<cancelled, serverSide>>
       ELSE LET g == CHOOSE g \in FreeStreams : TRUE
            IN  /\ reconnector' = [reconnector EXCEPT !.step = "dial", !.stream = g]
                /\ cancelOf' = g
                /\ cancelled' = cancelled \ {g}
                /\ alive' = alive \ {g}
                /\ wire' = [wire EXCEPT ![g] = {}]
                /\ UNCHANGED <<reader, sends, gaveUp>>
  /\ UNCHANGED <<closed, endpoint, ready, line>>

\* connectSSE: a connection has no endpoint yet, and a goroutine reads it.
Connect ==
  /\ reconnector.step = "dial" /\ reconnector.stream \notin cancelled
  /\ endpoint' = None /\ ready' = FALSE
  /\ reader' = [reader EXCEPT ![reconnector.stream] = "reading"]
  /\ alive' = alive \cup {reconnector.stream}
  /\ wire' = [wire EXCEPT ![reconnector.stream] = {"endpoint"}]
  /\ reconnector' = [reconnector EXCEPT !.step = "endpoint"]
  /\ UNCHANGED <<closed, cancelOf, cancelled, line, sends, gaveUp>>

ConnectFails ==
  /\ reconnector.step = "dial"
  /\ cancelled' = cancelled \cup {reconnector.stream}
  /\ AttemptFails
  /\ UNCHANGED <<closed, endpoint, ready, cancelOf, line, serverSide>>

EndpointReady ==
  /\ reconnector.step = "endpoint" /\ ready
  /\ ReconnectReturns(reconnector.actor, TRUE)
  /\ gaveUp' = FALSE
  /\ UNCHANGED <<closed, endpoint, ready, cancelOf, cancelled, line, serverSide>>

\* Variant: after five seconds without it the connection is left open.
EndpointTimeoutKeeping ==
  /\ reconnector.step = "endpoint"
  /\ AttemptFails
  /\ UNCHANGED <<closed, endpoint, ready, cancelOf, cancelled, line, serverSide>>

EndpointTimeout ==
  /\ reconnector.step = "endpoint"
  /\ cancelled' = cancelled \cup {reconnector.stream}
  /\ AttemptFails
  /\ UNCHANGED <<closed, endpoint, ready, cancelOf, line, serverSide>>

-----------------------------------------------------------------------------
(* Close, and the server                                                   *)

Close ==
  /\ ~closed
  /\ closed' = TRUE
  /\ cancelled' = cancelled \cup ({cancelOf} \ {None})
  /\ answerTo' = [s \in Senders |-> IF s \in registered /\ answerTo[s] = "nothing"
                                      THEN "closed" ELSE answerTo[s]]
  /\ registered' = {}
  /\ UNCHANGED <<endpoint, ready, cancelOf, reader, line, serverSide, sender, silent,
                 reconnector, gaveUp>>

ServerDrops(g) ==
  /\ g \in alive
  /\ alive' = alive \ {g}
  /\ wire' = [wire EXCEPT ![g] = {}]
  /\ UNCHANGED <<closed, connection, sends, reconnector, gaveUp>>

-----------------------------------------------------------------------------
SenderStep(s) == ReadURL(s) \/ SessionError(s) \/ Post(s) \/ Await(s)
ReaderStep(g) == StreamEnds(g) \/ ReadLine(g) \/ HandleLine(g)
ReconnectStep == Attempt \/ Connect \/ ConnectFails \/ EndpointReady \/ EndpointTimeout

StreamNext ==
  \/ \E s \in Senders : Send(s) \/ SenderStep(s)
  \/ \E g \in Streams : ReaderStep(g) \/ ServerDrops(g)
  \/ \E a \in Actors : LockReconnect(a)
  \/ ReconnectStep
  \/ Close

\* A dial nobody has cancelled yet: it has no timeout, the server answers it when it likes.
Dialling == reconnector.step = "dial" /\ reconnector.stream \notin cancelled

\* What a reconnect does of its own accord: all but the end of such a dial.
ReconnectGoesOn == ReconnectStep /\ ~Dialling

\* A Send goes on or its timer fires, so does a reconnect unless it waits for the server,
\* and a mutex that is released again and again starves nobody.  The server and the
\* readers of the streams need not do anything.
StreamFairness ==
  /\ \A s \in Senders : WF_streamVars(SenderStep(s)) /\ SF_streamVars(LockReconnect(s))
  /\ WF_streamVars(ReconnectGoesOn)

StreamSpec == StreamInit /\ [][StreamNext]_streamVars /\ StreamFairness

-----------------------------------------------------------------------------
(* Properties                                                              *)

Live(g) == reader[g] = "reading" /\ g \notin cancelled
Reconnecting == reconnector.actor # None \/ \E a \in Actors : AtReconnect(a)

(* A transport that was not closed has a stream, or is getting one, unless the last        *)
(* attempts to get one all failed; it never has two, whoever reconnected and however many  *)
(* attempts it took (SSETransport.reconnect, readSSE).                                     *)
StreamKept ==
  /\ \A g, h \in Streams : Live(g) /\ Live(h) => g = h
  /\ ~closed /\ ~Reconnecting /\ ~gaveUp => \E g \in Streams : Live(g)

(* Every Send returns: no lost answer, dropped stream, reconnect of another or close keeps *)
(* it for ever.  One thing may: a server that accepts the connection of a reconnect and    *)
(* never answers, for that dial has no timeout and reconnectMu is held meanwhile.  Even    *)
(* then only the Sends wait that a session error has made reconnect (SSETransport.doSend,  *)
(* reconnect, connectSSE, Close).                                                          *)
SendsReturn ==
  \A s \in Senders :
    /\ []<>(sender[s].pc \in {"idle", "reconnect"})
    /\ []<>(sender[s].pc = "idle") \/ <>[]Dialling

(* "Transport-level failure [...] should bubble up as Go errors" (tool_adapter.go:43-46):  *)
(* a Send returns an answer or an error.                                                   *)
FailuresAreErrors == ~silent
=============================================================================
