---------------------------- MODULE Transcripts ----------------------------
(***************************************************************************)
(* What an agent remembers of a session.  During a turn the loop keeps a   *)
(* live transcript and the message collector of service/engine rebuilds    *)
(* one from the tool events; at the end of the turn the collector's is     *)
(* appended to the snapshot, compressed to max_context_size and stored,    *)
(* and the next turn starts from it.  The live transcript is compressed    *)
(* before every model call, by the same rewriter (ContextRewriter).        *)
(***************************************************************************)
EXTENDS Nil, ContextRewriter

CONSTANTS
    RoundsOfCalls,  \* the tool calls of one reply: sequences of tools
    Sizes,          \* the sizes of a user message or a tool result
    LiveBudget,     \* what the conversation may use of a request
    StoredBudget,   \* what the stored snapshot may use
    Modes,          \* the flow's tool_execution: "sequential", "parallel"
    MaxTurns,       \* bound: turns of the session
    MaxRounds       \* bound: tool rounds of a turn

\* What a call is named after in the collector.
ToolsCalled == UNION {Range(tools) : tools \in RoundsOfCalls}

\* A reply without calls is an answer and ends the turn.
ASSUME TranscriptAssumption ==
    /\ Sizes \subseteq Nat \ {0} /\ {LiveBudget, StoredBudget, MaxTurns, MaxRounds} \subseteq Nat
    /\ Modes \subseteq {"sequential", "parallel"}
    /\ \A tools \in RoundsOfCalls : tools \in Seq(Range(tools)) /\ tools # <<>>
    /\ None \notin ToolsCalled \X Nat

VARIABLES
    mode,        \* how this session's agent runs the calls of a round
    phase,       \* where the turn is
    turn,        \* turns begun
    round,       \* tool rounds of this turn
    history,     \* the stored snapshot
    live,        \* ownedState.Messages
    collected,   \* MessageCollector.messages
    pendingCall, \* MessageCollector.pendingToolCall
    results,     \* MessageCollector.stepCount
    counter,     \* callbacks.StepCounter.step
    calls,       \* the calls of the running round: which, and how far
    shrunk       \* the compression of the last step: what it was given, its budget and
                 \* the indices it kept (history)

transcriptVars == <<mode, phase, turn, round, history, live, collected, pendingCall,
                    results, counter, calls, shrunk>>

Message(role, ids, size) == [role |-> role, ids |-> ids, size |-> size]
NotShrunk == [given |-> <<>>, budget |-> 0, kept |-> {}]
Shrink(ms, budget) == [given |-> ms, budget |-> budget, kept |-> Survivors(ms, budget)]
Result(shrinking) == Only(shrinking.given, shrinking.kept)

TranscriptTypeOK ==
    /\ mode \in Modes /\ phase \in {"idle", "model", "tools"}
    /\ turn \in 0..MaxTurns /\ round \in 0..MaxRounds
    /\ phase = "tools" <=> calls # <<>>
    /\ phase = "idle" <=> collected = <<>>
    /\ \A ms \in {history, live, collected} : \A i \in 1..Len(ms) :
         /\ ms[i].role = "user" => ms[i].ids = <<>>
         /\ ms[i].role = "tool" => Len(ms[i].ids) = 1
    /\ results = Cardinality(Indices(collected, "tool")) \/ phase = "idle"

TranscriptInit ==
    /\ mode \in Modes /\ phase = "idle" /\ turn = 0 /\ round = 0
    /\ history = <<>> /\ live = <<>> /\ collected = <<>> /\ calls = <<>>
    /\ pendingCall = None /\ results = 0 /\ counter = 0 /\ shrunk = NotShrunk

-----------------------------------------------------------------------------
\* The engine loads the snapshot, the loop and the collector take the message.
StartTurn(size) ==
    LET message == Message("user", <<>>, size)
    IN  /\ phase = "idle" /\ turn < MaxTurns
        /\ turn' = turn + 1 /\ round' = 0 /\ phase' = "model"
        /\ collected' = <<message>> /\ live' = Append(history, message)
        /\ pendingCall' = None /\ results' = 0 /\ counter' = 0
        /\ shrunk' = NotShrunk
        /\ UNCHANGED <<mode, history, calls>>

\* The model reads the transcript as chatPreHandle leaves it, and asks for a round
\* of tool calls.  Their ids are the provider's, or backfilled: unique in the session either way.
AskForTools(tools) ==
    LET ids == [i \in 1..Len(tools) |-> <<"live", turn, round, i>>]
    IN  /\ phase = "model" /\ round < MaxRounds
        /\ round' = round + 1 /\ phase' = "tools"
        /\ calls' = [i \in 1..Len(tools) |->
                        [tool |-> tools[i], live |-> ids[i], at |-> "waiting", size |-> 0]]
        /\ shrunk' = Shrink(live, LiveBudget)
        /\ live' = Append(Result(shrunk'), Message("assistant", ids, 1))
        /\ UNCHANGED <<mode, turn, history, collected, pendingCall, results, counter>>

InOrder(i) == mode = "sequential" => \A k \in 1..(i - 1) : calls[k].at = "done"

\* OnToolStart: the collector hears of the call under an id made of the tool and
\* the step, and takes it for the pending one.
ToolStarts(i) ==
    LET id == <<calls[i].tool, counter>>
    IN  /\ phase = "tools" /\ calls[i].at = "waiting" /\ InOrder(i)
        /\ calls' = [calls EXCEPT ![i].at = "running"]
        /\ collected' = Append(collected, Message("assistant", <<id>>, 1))
        /\ pendingCall' = id
        /\ shrunk' = NotShrunk
        /\ UNCHANGED <<mode, phase, turn, round, history, live, results, counter>>

\* Variant: a result is filed under the step it ends in.
ResultIdByStep(tool) == <<tool, counter + 1>>

\* handleToolResult: the pending call if it is of this tool, else a made-up id.
ResultId(tool) ==
    IF pendingCall # None /\ pendingCall[1] = tool THEN pendingCall ELSE <<tool, results>>

\* OnToolEnd or OnToolError.
ToolEnds(i, size) ==
    LET id == ResultId(calls[i].tool)
    IN  /\ phase = "tools" /\ calls[i].at = "running"
        /\ calls' = [calls EXCEPT ![i].at = "done", ![i].size = size]
        /\ collected' = Append(collected, Message("tool", <<id>>, size))
        /\ pendingCall' = IF id = pendingCall THEN None ELSE pendingCall
        /\ results' = results + 1
        /\ counter' = counter + 1
        /\ shrunk' = NotShrunk
        /\ UNCHANGED <<mode, phase, turn, round, history, live>>

\* The tools node returns: the results join the live transcript in call order.
ToolsReturn ==
    /\ phase = "tools" /\ \A i \in 1..Len(calls) : calls[i].at = "done"
    /\ phase' = "model" /\ calls' = <<>>
    /\ live' = live \o [i \in 1..Len(calls) |-> Message("tool", <<calls[i].live>>, calls[i].size)]
    /\ shrunk' = NotShrunk
    /\ UNCHANGED <<mode, turn, round, history, collected, pendingCall, results, counter>>

\* saveSnapshot, whatever the outcome: an answer, or the turn failed at the model.
EndTurn(answered) ==
    LET answer == IF answered THEN <<Message("assistant", <<>>, 1)>> ELSE <<>>
        all == history \o collected \o answer
    IN  /\ phase = "model"
        /\ phase' = "idle" /\ collected' = <<>> /\ live' = <<>>
        /\ pendingCall' = None /\ results' = 0 /\ counter' = 0
        /\ shrunk' = Shrink(all, StoredBudget)
        /\ history' = Result(shrunk')
        /\ UNCHANGED <<mode, turn, round, calls>>

\* The process dies: what was collected since the last snapshot is gone.
LoseTurn ==
    /\ phase # "idle"
    /\ phase' = "idle" /\ collected' = <<>> /\ live' = <<>> /\ calls' = <<>>
    /\ pendingCall' = None /\ results' = 0 /\ counter' = 0 /\ shrunk' = NotShrunk
    /\ UNCHANGED <<mode, turn, round, history>>

TranscriptNext ==
    \/ \E size \in Sizes : StartTurn(size)
    \/ \E tools \in RoundsOfCalls : AskForTools(tools)
    \/ \E i \in 1..Len(calls) : ToolStarts(i) \/ \E size \in Sizes : ToolEnds(i, size)
    \/ ToolsReturn \/ \E answered \in BOOLEAN : EndTurn(answered) \/ LoseTurn

TranscriptSpec == TranscriptInit /\ [][TranscriptNext]_transcriptVars

-----------------------------------------------------------------------------
\* Properties.

Kept == shrunk.kept

\* What is sent or stored fits the budget; only the user's last message may exceed
\* it, and then it is alone (compressMessages).
ContextFits ==
    \/ Weight(shrunk.given, Kept) <= shrunk.budget
    \/ Kept = {Max(UserMessages(shrunk.given))}

\* The question being answered is never lost, no user message is dropped while an
\* older one stays, and none is dropped that fits together with the newer ones,
\* however much the tools have returned since (truncateToUserBudget).
RecentQuestionsKept ==
    LET users == UserMessages(shrunk.given)
        newest(i) == {j \in users : j >= i}
    IN  \A i \in users :
          /\ i = Max(users) => i \in Kept
          /\ i \in Kept => newest(i) \subseteq Kept
          /\ i \notin Kept => Weight(shrunk.given, newest(i)) > shrunk.budget

Calling(id) == {i \in 1..Len(shrunk.given) :
                  shrunk.given[i].role = "assistant" /\ id \in IdsOf(shrunk.given[i])}
Answering(id) == {i \in Indices(shrunk.given, "tool") : id \in IdsOf(shrunk.given[i])}

\* The calls of message i have names no other call of the conversation has, and
\* one result each.
OwnNames(i) ==
    \A id \in IdsOf(shrunk.given[i]) : Calling(id) = {i} /\ Cardinality(Answering(id)) = 1

\* The newest exchange is the last to go: if it fits next to the user messages that
\* are kept, it is kept, so that the model sees the results it just asked for
\* (fitNonUserMessages walks backwards).
NewestExchangeKept ==
    LET ms == shrunk.given
        caller == Max({0} \cup {i \in Indices(ms, "assistant") : ms[i].ids # <<>>})
        exchange == caller..Len(ms)
    IN  /\ caller > 0 /\ OwnNames(caller)
        /\ \A i \in (caller + 1)..Len(ms) :
             ms[i].role = "tool" /\ IdsOf(ms[i]) \subseteq IdsOf(ms[caller])
        /\ Weight(ms, exchange \cup (Kept \cap UserMessages(ms))) <= shrunk.budget
        => exchange \subseteq Kept

\* A call and each of its results are kept or dropped together, if their id names one
\* call of the conversation (messageFitter).  They are of one turn: the collector's ids
\* start anew with every turn, and a result filed under a made-up id may happen to
\* have the id of an earlier turn's call.
ExchangesStayWhole ==
    \A i \in 1..Len(shrunk.given), j \in Indices(shrunk.given, "tool") :
        /\ Calling(shrunk.given[j].ids[1]) = {i}
        /\ \A k \in UserMessages(shrunk.given) : k <= i <=> k <= j
        => (i \in Kept <=> j \in Kept)

\* An agent that runs its tools one by one remembers every result under the id of
\* the call it answers, right after it (handleToolCall, handleToolResult).
ResultsFollowCalls ==
    mode = "sequential" =>
        \A j \in Indices(collected, "tool") : j > 1 /\ collected[j - 1].ids = collected[j].ids

\* The claim of context_rewriter.go and of its messageFitter: what is stored has
\* every call with its result and every result with its call, in one turn.
PairingPreserved ==
    \A i \in 1..Len(history) :
        /\ history[i].role = "tool" =>
             i > 1 /\ history[i].ids = history[i - 1].ids
        /\ history[i].ids # <<>> /\ history[i].role = "assistant" =>
             i < Len(history) /\ history[i].ids = history[i + 1].ids

\* Results follow their calls, and compression fits the budget and keeps the questions,
\* the newest exchange and exchanges whole (message_collector.go, context_rewriter.go).
CompactionKeeps ==
    /\ ResultsFollowCalls
    /\ ContextFits /\ RecentQuestionsKept /\ NewestExchangeKept /\ ExchangesStayWhole
=============================================================================
