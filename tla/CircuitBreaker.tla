-------------------------- MODULE CircuitBreaker --------------------------
(***************************************************************************)
(* The circuit breakers of one MCP server (service/resilience) and the     *)
(* agents whose tools are wrapped with them (CircuitBreakerToolWrapper).   *)
(*                                                                         *)
(* An agent binds the breaker it gets when its tools are resolved, asks it *)
(* before each call and reports the outcome afterwards, however long the   *)
(* call took and whatever the breaker became meanwhile.  An administrator  *)
(* may reset the registry at any time.  Time is kept as ages, each up to   *)
(* the interval it is compared with.                                       *)
(***************************************************************************)
EXTENDS Naturals, Sequences, FiniteSets

CONSTANTS
  ToolUsers,         \* concurrent users of the server's tools
  Breakers,       \* CircuitBreaker objects; bounds the number of resets
  NoBreaker,      \* the registry has no entry
  Threshold,      \* FailureThreshold, 3 by default
  Window,         \* FailureWindow, 60 s by default, in ticks
  ResetInterval   \* 120 s by default, in ticks

ASSUME BreakerAssumption ==
  /\ NoBreaker \notin Breakers
  /\ Threshold \in Nat \ {0} /\ Window \in Nat \ {0} /\ ResetInterval \in Nat \ {0}

VARIABLES
  registered,  \* breakers[serverName]
  breaker,     \* the breakers' fields; openedAt and failures as ages
  agent,       \* per agent: what it does and the breaker it is bound to
  removed,     \* history: breakers the administrator removed
  streak       \* history: ages of the failures since the last success, oldest first

breakerVars == <<registered, breaker, agent, removed, streak>>

BreakerStates == {"unused", "closed", "open", "half_open"}

BreakerTypeOK ==
  /\ registered \in Breakers \cup {NoBreaker}
  /\ \A b \in Breakers :
       /\ breaker[b].state \in BreakerStates
       /\ breaker[b].failures \in Seq(0..Window) /\ Len(breaker[b].failures) < Threshold
       /\ breaker[b].openAge \in 0..ResetInterval
       /\ streak[b] \in Seq(0..Window) /\ Len(streak[b]) <= Threshold
  /\ agent \in [ToolUsers -> [pc : {"new", "missed", "bound", "calling"},
                           breaker : Breakers \cup {NoBreaker}]]
  /\ removed \subseteq Breakers

BreakerInit ==
  /\ registered = NoBreaker
  /\ breaker = [b \in Breakers |->
                 [state |-> "unused", failures |-> <<>>, openAge |-> ResetInterval]]
  /\ agent = [a \in ToolUsers |-> [pc |-> "new", breaker |-> NoBreaker]]
  /\ removed = {}
  /\ streak = [b \in Breakers |-> <<>>]

-----------------------------------------------------------------------------
(* Registry                                                                *)

Bind(a, b) == agent' = [agent EXCEPT ![a] = [pc |-> "bound", breaker |-> b]]

\* The agent's tools are resolved, at each of its turns: the lookup under RLock.
GetLookup(a) ==
  /\ agent[a].pc \in {"new", "bound"}
  /\ IF registered # NoBreaker
       THEN Bind(a, registered)
       ELSE agent' = [agent EXCEPT ![a] = [pc |-> "missed", breaker |-> NoBreaker]]
  /\ UNCHANGED <<registered, breaker, removed, streak>>

Create(a) ==
  \E b \in Breakers :
    /\ breaker[b].state = "unused"
    /\ breaker' = [breaker EXCEPT ![b].state = "closed"]
    /\ registered' = b
    /\ Bind(a, b)

\* Variant: no second look under the write lock.
GetCreateUnchecked(a) ==
  /\ agent[a].pc = "missed"
  /\ Create(a)
  /\ UNCHANGED <<removed, streak>>

\* The second look under Lock, and the creation.
GetCreate(a) ==
  /\ agent[a].pc = "missed"
  /\ \/ /\ registered # NoBreaker
        /\ Bind(a, registered)
        /\ UNCHANGED <<registered, breaker>>
     \/ registered = NoBreaker /\ Create(a)
  /\ UNCHANGED <<removed, streak>>

Reset ==
  /\ registered # NoBreaker
  /\ removed' = removed \cup {registered}
  /\ registered' = NoBreaker
  /\ UNCHANGED <<breaker, agent, streak>>

-----------------------------------------------------------------------------
(* One breaker                                                             *)

\* currentState: an open breaker turns half-open when somebody looks late enough.
CurrentState(k) ==
  IF k.state = "open" /\ k.openAge >= ResetInterval
    THEN [k EXCEPT !.state = "half_open"]
    ELSE k

\* Failures are kept in the order of time, so those before the window come first.
InWindow(ages) ==
  SubSeq(ages, Cardinality({i \in DOMAIN ages : ages[i] >= Window}) + 1, Len(ages))

\* Variant: failures are counted however old they are.
FailureUnpruned(k) ==
  IF k.state = "half_open"
    THEN [k EXCEPT !.state = "open", !.openAge = 0]
    ELSE LET failures == Append(k.failures, 0) IN
         IF Len(failures) >= Threshold
           THEN [state |-> "open", failures |-> <<>>, openAge |-> 0]
           ELSE [k EXCEPT !.failures = failures]

\* Variant: the threshold is passed before it counts.
FailureLate(k) ==
  IF k.state = "half_open"
    THEN [k EXCEPT !.state = "open", !.openAge = 0]
    ELSE LET failures == Append(InWindow(k.failures), 0) IN
         IF Len(failures) > Threshold
           THEN [state |-> "open", failures |-> <<>>, openAge |-> 0]
           ELSE [k EXCEPT !.failures = failures]

Failure(k) ==
  IF k.state = "half_open"
    THEN [k EXCEPT !.state = "open", !.openAge = 0]
    ELSE LET failures == Append(InWindow(k.failures), 0) IN
         IF Len(failures) >= Threshold
           THEN [state |-> "open", failures |-> <<>>, openAge |-> 0]
           ELSE [k EXCEPT !.failures = failures]

\* Variant: a success closes the breaker in any state.
SuccessCloses(k) == [k EXCEPT !.state = "closed", !.failures = <<>>]

Success(k) ==
  [k EXCEPT !.state = IF @ = "half_open" THEN "closed" ELSE @, !.failures = <<>>]

\* State: the administrator's page asks.
State(b) ==
  /\ breaker[b].state # "unused"
  /\ breaker' = [breaker EXCEPT ![b] = CurrentState(@)]
  /\ UNCHANGED <<registered, agent, removed, streak>>

\* Variant: a refusal is recorded as a failed call, as the wrapper does with errors.
RefuseAndRecord(a) ==
  LET b == agent[a].breaker IN
  /\ agent[a].pc = "bound" /\ CurrentState(breaker[b]).state = "open"
  /\ breaker' = [breaker EXCEPT ![b] = Failure(@)]
  /\ UNCHANGED <<registered, agent, removed, streak>>

\* AllowRequest returns an error, and the tool is not called.
Refuse(a) ==
  LET b == agent[a].breaker IN
  /\ agent[a].pc = "bound" /\ CurrentState(breaker[b]).state = "open"
  /\ UNCHANGED breakerVars

\* AllowRequest returns nil, and the tool is called.
Allow(a) ==
  LET b == agent[a].breaker  k == CurrentState(breaker[b]) IN
  /\ agent[a].pc = "bound" /\ k.state \in {"closed", "half_open"}
  /\ breaker' = [breaker EXCEPT ![b] = k]
  /\ agent' = [agent EXCEPT ![a].pc = "calling"]
  /\ UNCHANGED <<registered, removed, streak>>

\* The breaker the agent's tools were wrapped with.
BreakerOf(a) == breaker[agent[a].breaker]

\* The call answers: its breaker becomes k, its streak failures.
CallReturns(a, k, failures) ==
  /\ agent[a].pc = "calling"
  /\ breaker' = [breaker EXCEPT ![agent[a].breaker] = k]
  /\ streak' = [streak EXCEPT ![agent[a].breaker] = failures]
  /\ agent' = [agent EXCEPT ![a].pc = "bound"]
  /\ UNCHANGED <<registered, removed>>

RecordSuccess(a) == CallReturns(a, Success(BreakerOf(a)), <<>>)

\* An error, or the timeout wrapped inside the breaker.
RecordFailure(a) ==
  LET s == streak[agent[a].breaker] IN
  CallReturns(a, Failure(BreakerOf(a)), Append(IF Len(s) = Threshold THEN Tail(s) ELSE s, 0))

-----------------------------------------------------------------------------
Older(age, limit) == IF age < limit THEN age + 1 ELSE age

Tick ==
  /\ breaker' = [b \in Breakers |->
                  [breaker[b] EXCEPT
                    !.openAge = Older(@, ResetInterval),
                    !.failures = [i \in DOMAIN @ |-> Older(@[i], Window)]]]
  /\ streak' = [b \in Breakers |-> [i \in DOMAIN streak[b] |-> Older(streak[b][i], Window)]]
  /\ UNCHANGED <<registered, agent, removed>>

BreakerNext ==
  \/ \E a \in ToolUsers :
       \/ GetLookup(a) \/ GetCreate(a)
       \/ Allow(a) \/ Refuse(a) \/ RecordSuccess(a) \/ RecordFailure(a)
  \/ \E b \in Breakers : State(b)
  \/ Reset \/ Tick

BreakerSpec == BreakerInit /\ [][BreakerNext]_breakerVars

\* Time goes on, whoever is allowed calls, and calls return: the timeout wrapped inside
\* the breaker ends those that would not.
BreakerFairSpec ==
  /\ BreakerSpec /\ WF_breakerVars(Tick)
  /\ \A a \in ToolUsers : WF_breakerVars(Allow(a)) /\ WF_breakerVars(RecordSuccess(a) \/ RecordFailure(a))

-----------------------------------------------------------------------------
(* What the breaker guarantees, however calls overlap                      *)

Recent(ages) == {i \in DOMAIN ages : ages[i] < Window}

\* A closed breaker has not just seen Threshold consecutive failures: interleaved
\* answers of several agents, late ones included, do not lose any (RecordFailure,
\* AC-RESIL-09).
ClosedIsHealthy ==
  \A b \in Breakers : breaker[b].state = "closed" => Cardinality(Recent(streak[b])) < Threshold

\* ToolUsers share one breaker: every breaker ever created is the registered one or was
\* removed by an administrator (the second look in CircuitBreakerRegistry.Get).
OneBreaker ==
  \A b \in Breakers : breaker[b].state # "unused" => b \in removed \cup {registered}

(* Every counter and call of a breaker has its type, agents share the breaker of their    *)
(* server, and none lets calls through after Threshold failures in a row (Get, RecordFailure). *)
BreakersSound == BreakerTypeOK /\ OneBreaker /\ ClosedIsHealthy

\* A closed breaker opens only on Threshold failures without a success between them,
\* all within the window; failures left over from before it last closed do not count.
OpensForCause ==
  [][\A b \in Breakers :
       breaker[b].state = "closed" /\ breaker'[b].state = "open" =>
         Len(streak'[b]) = Threshold /\ Recent(streak'[b]) = 1..Threshold]_breakerVars

\* Once open, the breaker stays open for ResetInterval, whatever the calls it let
\* through earlier answer now (RecordSuccess closes only a half-open breaker).
OpenLasts ==
  [][\A b \in Breakers :
       breaker[b].state = "open" /\ breaker[b].openAge < ResetInterval =>
         breaker'[b].state = "open"]_breakerVars

\* A breaker opens for the reason it has and for the time it has (RecordFailure, AllowRequest).
OpensAndStaysOpen == OpensForCause /\ OpenLasts

\* An open breaker opens up again while somebody is bound to it: late failures put the
\* moment off only as often as there were calls in flight.
OpenRecovers ==
  \A b \in Breakers :
    breaker[b].state = "open" ~>
      breaker[b].state # "open" \/ \A a \in ToolUsers : agent[a].breaker # b

=============================================================================
