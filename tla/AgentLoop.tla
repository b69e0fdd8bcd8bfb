------------------------------ MODULE AgentLoop ------------------------------
(***************************************************************************)
(* One turn of the ReAct loop an agent runs: the graph                     *)
(*                                                                         *)
(*     chat --calls--> tools --> chat | direct_return | finalize           *)
(*     chat --answer-> END                                                 *)
(*     chat --calls, wall reached--> chat_to_finalize --> finalize --> END *)
(*                                                                         *)
(* of infrastructure/agents/react, its budget walls, its loop breakers and *)
(* what the turn finally hands to the client.  The model (the language     *)
(* model, that is) may ask for any of Rounds at any time and every tool    *)
(* result may be an error: nothing is assumed of either.                   *)
(***************************************************************************)
EXTENDS Nil, Naturals, Sequences, FiniteSets

CONSTANTS
    Rounds,             \* the tool calls one reply may carry: sequences of [tool, args]
    ReturnDirectly,     \* the tools whose result ends the turn (widgets, config, MCP _meta)
    Widgets,            \* those of them that wait for the user (domain.HITLToolNames)
    StepLimits,         \* the agent's max_steps, tool rounds per turn; 0 is no limit
    UnlimitedBackstop,  \* eino's wall when there is no limit (10000 in the code)
    ErrLoopThreshold,   \* errLoopThresholdOr()
    SameArgsThreshold,  \* sameArgsThresholdOr()
    CorrectionBudget,   \* correctionBudgetOr()
    TightWindow,        \* identicalTightWindowOr(), in clock units
    MaxTurnDuration,    \* max_turn_duration, in clock units
    Delays              \* how long the model and the tools of a round may take

ToolsOf(round) == {round[i].tool : i \in 1..Len(round)}
LoopTools == UNION {ToolsOf(r) : r \in Rounds}

\* The thresholds are positive by construction (0 selects the default).
ASSUME LoopAssumption ==
    /\ Rounds \subseteq Seq([tool : LoopTools, args : {r[1].args : r \in Rounds}])
    /\ <<>> \notin Rounds
    /\ None \notin Nat \cup {"same_args", "tool_errors", "time", "steps", "nothing"}
    /\ \A r \in Rounds : r[1] # None
    /\ Widgets \subseteq ReturnDirectly
    /\ StepLimits \subseteq Nat
    /\ {UnlimitedBackstop, ErrLoopThreshold, SameArgsThreshold, CorrectionBudget}
         \subseteq Nat \ {0}
    /\ TightWindow \in Nat /\ MaxTurnDuration \in Nat \ {0} /\ Delays \subseteq Nat

VARIABLES
    maxSteps,    \* the configured max_steps of the agent
    node,        \* the node that runs next, or how the graph ended
    transcript,  \* ownedState.Messages: calls and results, in order
    output,      \* what the previous node hands to the next one, not yet recorded
    step,        \* ownedState.step: tool rounds begun
    visits,      \* node executions, which eino counts against WithMaxRunSteps
    now,         \* time since turnStart
    terminal,    \* ownedState.terminalReason, also what onTerminal told the caller
    breaker,     \* the loop breaker's counters
    softNoted,   \* ownedState.softLandingNoted
    delivered    \* what streamOwned gave the client at the end

loopVars == <<maxSteps, node, transcript, output, step, visits, now, terminal, breaker,
              softNoted, delivered>>

LoopReasons == {"same_args", "tool_errors"}
Walls == {"time", "steps"}
Ended == {"answered", "direct", "finalized", "silent", "backstop", "deadline", "failed"}

\* eino's wall, above the budget so that the routing below reaches finalize first.
BackstopSteps == IF maxSteps = 0 THEN UnlimitedBackstop ELSE maxSteps * 3 + 10

LoopTypeOK ==
    /\ node \in {"chat", "tools", "finalize", "direct_return", "chat_to_finalize"} \cup Ended
    /\ maxSteps \in StepLimits /\ step \in Nat /\ visits \in 0..BackstopSteps
    /\ Len(transcript) \in {2 * step, 2 * step - 1} /\ Len(output) <= 1
    /\ terminal \in {None} \cup LoopReasons \cup Walls
    /\ breaker.sameArgs \in 0..step /\ breaker.corrections \in 0..CorrectionBudget
    /\ \A t \in LoopTools : breaker.errors[t] \in Nat
    /\ softNoted \in BOOLEAN
    /\ delivered \in {None, "answer", "fallback", "tool", "nothing", "error"}

LoopInit ==
    /\ maxSteps \in StepLimits
    /\ node = "chat" /\ transcript = <<>> /\ output = <<>>
    /\ step = 0 /\ visits = 0 /\ now = 0 /\ terminal = None
    /\ breaker = [errors |-> [t \in LoopTools |-> 0], lastKey |-> None, sameArgs |-> 0,
                  lastAt |-> None, corrections |-> 0]
    /\ softNoted = FALSE /\ delivered = None

-----------------------------------------------------------------------------
\* Budgets.

\* Variant: the wall one round too late.
StepWallPassed == maxSteps > 0 /\ step > maxSteps

StepWall == maxSteps > 0 /\ step >= maxSteps

BudgetWallReason ==
    CASE terminal # None -> terminal
      [] terminal = None /\ now >= MaxTurnDuration -> "time"
      [] terminal = None /\ now < MaxTurnDuration /\ StepWall -> "steps"
      [] OTHER -> None

\* 90% of the time, or one round before the step wall.
NearBudgetWall ==
    \/ now >= (MaxTurnDuration * 9) \div 10
    \/ maxSteps > 0 /\ step + 1 >= maxSteps

-----------------------------------------------------------------------------
\* Loop breakers.  A breaker is a record of the counters; the three operators
\* below are the steps of detectLoop.

\* Variant: a poll that waits between calls counts as a loop.
SameArgsIgnoringTime(b, round) ==
    IF Len(round) # 1 THEN [b EXCEPT !.lastKey = None, !.sameArgs = 0]
    ELSE [b EXCEPT !.sameArgs = IF b.lastKey = round[1] THEN @ + 1 ELSE 1,
                   !.lastKey = round[1], !.lastAt = now']

\* Variant: the timestamp is only taken when the streak starts.
SameArgsFromFirst(b, round) ==
    IF Len(round) # 1 THEN [b EXCEPT !.lastKey = None, !.sameArgs = 0]
    ELSE LET same == b.lastKey = round[1] /\ b.lastAt # None
             tight == IF same THEN now' - b.lastAt <= TightWindow ELSE FALSE
         IN  [b EXCEPT !.sameArgs = IF tight THEN @ + 1 ELSE 1, !.lastKey = round[1],
                       !.lastAt = IF tight THEN @ ELSE now']

CountSameArgs(b, round) ==
    IF Len(round) # 1 THEN [b EXCEPT !.lastKey = None, !.sameArgs = 0]
    ELSE LET same == b.lastKey = round[1] /\ b.lastAt # None
             tight == IF same THEN now' - b.lastAt <= TightWindow ELSE FALSE
         IN  [b EXCEPT !.sameArgs = IF tight THEN @ + 1 ELSE 1,
                       !.lastKey = round[1], !.lastAt = now']

\* The errors tool t has in a row once the first k results are read.
ErrorsInARow(b, round, errs, t, k) ==
    LET mine == {i \in 1..k : round[i].tool = t}
        good == {i \in mine : ~errs[i]}
    IN  (IF good = {} THEN b.errors[t] ELSE 0)
          + Cardinality({i \in mine : \A j \in good : j < i})

\* Results are read in order; the first tool over the threshold ends the pass.
CountErrors(b, round, errs) ==
    LET over == {i \in 1..Len(round) :
                   ErrorsInARow(b, round, errs, round[i].tool, i) >= ErrLoopThreshold}
        read == Cardinality({i \in 1..Len(round) : \A j \in over : i <= j})
    IN  [counters |-> [b EXCEPT !.errors =
                         [t \in LoopTools |-> ErrorsInARow(b, round, errs, t, read)]],
         reason |-> IF over = {} THEN None ELSE "tool_errors"]

DetectLoop(round, errs) ==
    LET b == CountSameArgs(breaker, round)
    IN  IF Len(round) = 1 /\ b.sameArgs >= SameArgsThreshold
        THEN [counters |-> b, reason |-> "same_args"]
        ELSE CountErrors(b, round, errs)

\* Correct first, and end the turn only when the corrections are used up.
LoopPolicy(round, errs) ==
    LET found == DetectLoop(round, errs)
        nudge == found.reason # None /\ breaker.corrections < CorrectionBudget
    IN  [counters |-> IF nudge THEN [found.counters EXCEPT !.corrections = @ + 1]
                      ELSE found.counters,
         nudge |-> nudge,
         terminal |-> IF found.reason # None /\ ~nudge /\ terminal = None
                      THEN found.reason ELSE terminal]

-----------------------------------------------------------------------------
\* The graph.  Running a node appends what it was handed to the transcript and
\* costs one visit; the step in which eino finds its wall reached runs nothing.

Runs(n) ==
    /\ node = n /\ visits < BackstopSteps
    /\ visits' = visits + 1
    /\ UNCHANGED <<maxSteps, delivered>>

\* chat: the model answers, and the graph is at END.
ModelAnswers ==
    /\ Runs("chat")
    /\ \E end \in {"answered", "silent"} : node' = end
    /\ transcript' = transcript \o output /\ output' = <<>>
    /\ UNCHANGED <<step, now, terminal, breaker, softNoted>>

\* chat: the model asks for tools.  At a wall the request is not executed.
ModelCalls(round) ==
    /\ Runs("chat")
    /\ transcript' = transcript \o output
    /\ terminal' = BudgetWallReason
    /\ node' = IF BudgetWallReason = None THEN "tools" ELSE "chat_to_finalize"
    /\ output' = <<[kind |-> "calls", calls |-> round]>>
    /\ UNCHANGED <<step, now, breaker, softNoted>>

\* Variant: the request that was not executed stays in what the finalizer reads.
ChatToFinalizeKeeping ==
    /\ Runs("chat_to_finalize")
    /\ node' = "finalize"
    /\ UNCHANGED <<transcript, output, step, now, terminal, breaker, softNoted>>

\* chat_to_finalize: the request that was not executed is dropped.
ChatToFinalize ==
    /\ Runs("chat_to_finalize")
    /\ node' = "finalize" /\ output' = <<>>
    /\ UNCHANGED <<transcript, step, now, terminal, breaker, softNoted>>

\* Variant: an escalated loop is looked at before the return-directly call.
AfterToolsTerminalFirst(round) ==
    IF terminal' # None THEN "finalize"
    ELSE IF ToolsOf(round) \cap ReturnDirectly # {} THEN "direct_return"
    ELSE "chat"

AfterTools(round) ==
    IF ToolsOf(round) \cap ReturnDirectly # {} THEN "direct_return"
    ELSE IF terminal' # None THEN "finalize"
    ELSE "chat"

\* Variant: the note is given again at every round near the wall.
SoftNoteAgain == NearBudgetWall'

SoftNote == NearBudgetWall' /\ ~softNoted

\* tools: record the request, run it, judge it, fold the engine's notes into the
\* results (a return-directly round is left as it is) and choose the next node.
RunTools ==
    /\ Runs("tools")
    /\ \E d \in Delays : now' = now + d
    /\ step' = step + 1
    /\ transcript' = transcript \o output
    /\ LET round == output[1].calls
       IN  \E errs \in [1..Len(round) -> BOOLEAN] :
             LET policy == LoopPolicy(round, errs)
                 notes == (IF policy.nudge THEN {"correction"} ELSE {})
                            \cup (IF SoftNote THEN {"wrap_up"} ELSE {})
                 direct == ToolsOf(round) \cap ReturnDirectly # {}
             IN  /\ breaker' = policy.counters
                 /\ terminal' = policy.terminal
                 /\ softNoted' = (softNoted \/ "wrap_up" \in notes)
                 /\ output' = <<[kind |-> "results", errs |-> errs, at |-> now',
                                 notes |-> IF direct THEN {} ELSE notes]>>
                 /\ node' = AfterTools(round)

\* direct_return: the result of the return-directly call is the turn's output.
DirectReturn ==
    /\ Runs("direct_return")
    /\ node' = "direct"
    /\ transcript' = transcript \o output /\ output' = <<>>
    /\ UNCHANGED <<step, now, terminal, breaker, softNoted>>

\* finalize: one call without tools, which may still produce nothing.
Finalize ==
    /\ Runs("finalize")
    /\ transcript' = transcript \o output /\ output' = <<>>
    /\ \E end \in {"finalized", "silent"} : node' = end
    /\ UNCHANGED <<step, now, terminal, breaker, softNoted>>

\* eino's own wall, the turn's deadline (a call that hangs), any other failure.
HitBackstop ==
    /\ node \notin Ended /\ visits >= BackstopSteps
    /\ node' = "backstop"
    /\ UNCHANGED <<maxSteps, transcript, output, step, visits, now, terminal, breaker, softNoted, delivered>>

DeadlinePasses ==
    /\ node \notin Ended
    /\ node' = "deadline" /\ now' = IF now < MaxTurnDuration THEN MaxTurnDuration ELSE now
    /\ UNCHANGED <<maxSteps, transcript, output, step, visits, terminal, breaker, softNoted, delivered>>

NodeFails ==
    /\ node \notin Ended
    /\ node' = "failed"
    /\ UNCHANGED <<maxSteps, transcript, output, step, visits, now, terminal, breaker, softNoted, delivered>>

\* Variant: only an escalated loop is excused by a fallback, never a wall.
FallbackForLoops ==
    IF terminal \in LoopReasons \/ node \in {"backstop", "deadline"} THEN "fallback" ELSE "nothing"

\* A turn that produced no text owes one if something ended it by force.
Fallback == IF terminal # None \/ node \in {"backstop", "deadline"} THEN "fallback" ELSE "nothing"

\* HITLSeen: the widget itself is the message.
WidgetShown ==
    \E i \in 1..Len(transcript) :
        transcript[i].kind = "calls" /\ ToolsOf(transcript[i].calls) \cap Widgets # {}

\* streamOwned after the graph: an answer, the fallback, or the error.
Deliver ==
    /\ node \in Ended /\ delivered = None
    /\ delivered' = CASE node \in {"answered", "finalized"} -> "answer"
                      [] node = "failed" -> "error"
                      [] node = "direct" /\ (WidgetShown \/ Fallback = "nothing") -> "tool"
                      [] OTHER -> Fallback
    /\ UNCHANGED <<maxSteps, node, transcript, output, step, visits, now, terminal, breaker, softNoted>>

LoopNext ==
    \/ ModelAnswers \/ \E r \in Rounds : ModelCalls(r)
    \/ ChatToFinalize \/ RunTools \/ DirectReturn \/ Finalize
    \/ HitBackstop \/ DeadlinePasses \/ NodeFails \/ Deliver

LoopSpec == LoopInit /\ [][LoopNext]_loopVars

-----------------------------------------------------------------------------
\* Properties.

CallsAt(i) == transcript[i].kind = "calls"
ToolRounds == {i \in 1..Len(transcript) : CallsAt(i)}
ResultsAt(i) == transcript[i].kind = "results"

\* The turn's tool rounds never exceed max_steps, and the routing of
\* owned_loop.go always ends the turn before eino's own wall does: a budget that
\* runs out gives the model its tool-less last word, not an error.
TurnWithinBudget == maxSteps > 0 => step <= maxSteps /\ node # "backstop"

\* Whatever a model is given to read is well formed: every recorded request is
\* followed by its results, and nothing else (chat_to_finalize drops the request
\* that was not executed; both pre-handlers append the results they are handed).
TranscriptClosed ==
    node \in {"chat", "finalize", "answered", "finalized", "silent", "direct"} =>
        LET t == transcript \o output
        IN  /\ Len(t) % 2 = 0
            /\ \A i \in 1..Len(t) : t[i].kind = IF i % 2 = 1 THEN "calls" ELSE "results"

\* The round of the call at i, and the time its results came back.
ResultOf(i) == (transcript \o output)[i + 1]
Answered(i) == i + 1 <= Len(transcript \o output)

\* The calls at i and at the round before it are the same single call, close in
\* time.
TightRepeat(i) ==
    /\ i > 2 /\ Answered(i)
    /\ Len(transcript[i].calls) = 1 /\ transcript[i].calls = transcript[i - 2].calls
    /\ ResultOf(i).at - ResultOf(i - 2).at <= TightWindow

TightRun(i, n) == \A k \in 0..(n - 2) : i - 2 * k > 0 /\ TightRepeat(i - 2 * k)

\* The results of tool t that were errors.
ErrorsOf(t) ==
    UNION {{<<i, j>> : j \in {k \in 1..Len(transcript[i].calls) :
                                 transcript[i].calls[k].tool = t /\ ResultOf(i).errs[k]}} :
           i \in {k \in ToolRounds : Answered(k)}}

Nudges == {i \in 1..Len(transcript) : ResultsAt(i) /\ "correction" \in transcript[i].notes}

\* A turn is cut short for looping only when it loops: after CorrectionBudget
\* nudges, and with SameArgsThreshold identical calls in quick succession, or
\* ErrLoopThreshold errors of one tool, in the transcript.  A poll that
\* waits between its calls is never one (detectLoop, identicalTightWindow).
LoopsOnlyWhenLooping ==
    terminal \in LoopReasons =>
        /\ breaker.corrections = CorrectionBudget
        /\ Cardinality(Nudges) >= CorrectionBudget
        /\ terminal = "same_args" => \E i \in ToolRounds : TightRun(i, SameArgsThreshold)
        /\ terminal = "tool_errors" => \E t \in LoopTools : Cardinality(ErrorsOf(t)) >= ErrLoopThreshold

\* And a turn that does loop is cut short: the same call cannot come back in quick
\* succession more than SameArgsThreshold + CorrectionBudget times (applyLoopPolicy).
TightLoopsEnd ==
    \A i \in ToolRounds : ~TightRun(i, SameArgsThreshold + CorrectionBudget + 1)

\* The model is told once to wrap up, and told before the step wall refuses a
\* request: the results of an earlier round than the last carry the note.
WarnedBeforeWall ==
    LET warned == {i \in 1..Len(transcript) : ResultsAt(i) /\ "wrap_up" \in transcript[i].notes}
    IN  /\ \A i, j \in warned : i = j
        /\ terminal = "steps" /\ maxSteps > 1 => \E i \in warned : i < 2 * maxSteps

\* A return-directly call ends the turn whatever else the round did: no model is
\* called after it (the tools branch looks at it before the terminal reason).
DirectReturnEnds ==
    \A i \in ToolRounds :
        ToolsOf(transcript[i].calls) \cap ReturnDirectly # {} =>
            /\ i >= Len(transcript) - 1
            /\ node \in {"direct_return", "direct", "backstop", "deadline", "failed"}

\* A turn ended by force always says so: the finalizer's text or the fallback.
ForcedTurnSpeaks ==
    delivered = "nothing" => terminal = None /\ node \notin {"backstop", "deadline"}

\* However a turn ends, it is within its budget, its transcript has a result for each
\* call, a loop or a direct return ends it exactly when it should, and it has something
\* to say (owned_loop.go).
TurnsEndWell ==
    /\ TurnWithinBudget /\ TranscriptClosed /\ LoopsOnlyWhenLooping /\ TightLoopsEnd
    /\ WarnedBeforeWall /\ DirectReturnEnds /\ ForcedTurnSpeaks
=============================================================================
