--------------------------- MODULE TurnAdmission ---------------------------
(***************************************************************************)
(* What a chat turn costs: the gate before a turn and its settlement after *)
(* it (app/chat_http_adapter.go) with the counters behind them             *)
(* (usecase/usagelimit, usecase/activeusers).                              *)
(*                                                                         *)
(* A slot is a request under way; when it has ended the slot sends another *)
(* one, so the number of slots bounds the requests at one time and not the *)
(* requests altogether.  A step is one statement on the database or one    *)
(* critical section of the accumulator.  Streaming is ChatSession's; here  *)
(* a turn makes steps, shows output and ends, and ResumeInterrupt between  *)
(* the gate and the turn, which is HumanInterrupts', either fails or goes  *)
(* on.                                                                     *)
(***************************************************************************)
EXTENDS Nil, Integers, FiniteSets

CONSTANTS
  Slots,         \* requests that may be under way at one time
  Sessions, Users,
  UserOf,        \* the end user of a session
  KeyOwners,     \* the users who bring their own model key (BYOK)
  TenantLimit,   \* turns per window for everybody; None: not configured
  UserLimit,     \* turns per window for each user; None: not configured
  ActiveLimit,   \* distinct users per window
  MaxSteps       \* bound: agent steps made in each session

Tenant == "tenant"
Keys == Users \cup {Tenant}
Limit(k) == IF k = Tenant THEN TenantLimit ELSE UserLimit

ASSUME AdmissionAssumption ==
  /\ IsFiniteSet(Slots) /\ IsFiniteSet(Users) /\ Tenant \notin Users
  /\ UserOf \in [Sessions -> Users]
  /\ KeyOwners \subseteq Users
  /\ None \notin Nat /\ None \notin Sessions
  /\ {TenantLimit, UserLimit} \subseteq (Nat \ {0}) \cup {None}
  /\ ActiveLimit \in Nat \ {0}
  /\ MaxSteps \in [Sessions -> Nat]

VARIABLES
  slot,      \* per slot, the request in it
  counts,    \* the StepAccumulator: steps of the sessions being counted
  turns,     \* usage_counters: turns of each key in its window
  elapsed,   \* the keys whose window has elapsed since the counter's period_start
  recent,    \* active_users: those active inside the window
  made,      \* steps made in each session (history)
  charged    \* steps taken from the accumulator to be charged (history)

admissionVars == <<slot, counts, turns, elapsed, recent, made, charged>>

SlotSteps == {"idle", "users", "count", "tenant", "user", "resolve", "begin", "accept",
              "stream", "activity", "take", "chargeTenant", "chargeUser"}

Empty == [pc |-> "idle", session |-> None, resume |-> FALSE, sawOutput |-> FALSE]

AdmissionTypeOK ==
  /\ slot \in [Slots -> [pc : SlotSteps, session : Sessions \cup {None},
                         resume : BOOLEAN, sawOutput : BOOLEAN]]
  /\ \A r \in Slots : slot[r].pc # "idle" => slot[r].session \in Sessions
  \* A turn on the user's own key is neither limited nor charged.
  /\ \A r \in Slots : slot[r].pc \in {"tenant", "user", "take", "chargeTenant", "chargeUser"} =>
       UserOf[slot[r].session] \notin KeyOwners
  /\ counts \in [Sessions -> Nat \cup {None}]
  /\ turns \in [Keys -> Nat]
  /\ elapsed \subseteq Keys
  /\ recent \subseteq Users
  /\ made \in [Sessions -> Nat]
  /\ charged \in [Sessions -> Nat]

AdmissionInit ==
  /\ slot = [r \in Slots |-> Empty]
  /\ counts = [s \in Sessions |-> None]
  /\ turns = [k \in Keys |-> 0]
  /\ elapsed = {}
  /\ recent = {}
  /\ made = [s \in Sessions |-> 0]
  /\ charged = [s \in Sessions |-> 0]

SlotAt(r, step) == slot[r].pc = step
SlotGoto(r, step) == slot' = [slot EXCEPT ![r].pc = step]
SessionIn(r) == slot[r].session
User(r) == UserOf[SessionIn(r)]
OwnKey(r) == User(r) \in KeyOwners

\* A request that ends, with an error or with its response closed.
Leave(r) == slot' = [slot EXCEPT ![r] = Empty]

\* Where a request goes once the gate has let it pass.
AfterGate(r) == IF slot[r].resume THEN "resolve" ELSE "begin"
AfterUsersGate(r) == IF OwnKey(r) THEN AfterGate(r) ELSE "tenant"

-----------------------------------------------------------------------------
(* The gate                                                                *)

\* A user sends a message, or answers an interrupt of the session.
Send(r, s, resume) ==
  /\ SlotAt(r, "idle")
  /\ slot' = [slot EXCEPT ![r] = [pc |-> "users", session |-> s,
                                  resume |-> resume, sawOutput |-> FALSE]]
  /\ UNCHANGED <<counts, turns, elapsed, recent, made, charged>>

\* Gate.Check: a user active inside the window passes, a new one is counted ...
IsActiveSince(r) ==
  /\ SlotAt(r, "users")
  /\ SlotGoto(r, IF User(r) \in recent THEN AfterUsersGate(r) ELSE "count")
  /\ UNCHANGED <<counts, turns, elapsed, recent, made, charged>>

\* Variant: the limit is taken as the last value still allowed.
CountAtMostLimit(r) ==
  /\ SlotAt(r, "count")
  /\ IF Cardinality(recent) <= ActiveLimit THEN SlotGoto(r, AfterUsersGate(r)) ELSE Leave(r)
  /\ UNCHANGED <<counts, turns, elapsed, recent, made, charged>>

\* ... and passes while fewer users than the limit are active.
CountActiveSince(r) ==
  /\ SlotAt(r, "count")
  /\ IF Cardinality(recent) < ActiveLimit THEN SlotGoto(r, AfterUsersGate(r)) ELSE Leave(r)
  /\ UNCHANGED <<counts, turns, elapsed, recent, made, charged>>

\* Variant: the limit is taken as the last value still allowed.
WithinLimitOrAt(k) == Limit(k) # None => k \in elapsed \/ turns[k] <= Limit(k)

\* EffectiveCount: a window that has elapsed counts as empty.
WithinLimit(k) == Limit(k) # None => k \in elapsed \/ turns[k] < Limit(k)

\* CheckAllowed, one scope after the other.
CheckTenant(r) ==
  /\ SlotAt(r, "tenant")
  /\ IF WithinLimit(Tenant) THEN SlotGoto(r, "user") ELSE Leave(r)
  /\ UNCHANGED <<counts, turns, elapsed, recent, made, charged>>

CheckUser(r) ==
  /\ SlotAt(r, "user")
  /\ IF WithinLimit(User(r)) THEN SlotGoto(r, AfterGate(r)) ELSE Leave(r)
  /\ UNCHANGED <<counts, turns, elapsed, recent, made, charged>>

\* ResumeInterrupt found its interrupt pending and resolved it.
Resolve(r) ==
  /\ SlotAt(r, "resolve")
  /\ SlotGoto(r, "begin")
  /\ UNCHANGED <<counts, turns, elapsed, recent, made, charged>>

\* A read or write of the database fails, the interrupt cannot be resumed or the
\* message is not taken: an early return that leaves everything done so far.
Fail(r) ==
  /\ slot[r].pc \in {"users", "count", "tenant", "user", "resolve", "accept",
                     "chargeTenant", "chargeUser"}
  /\ Leave(r)
  /\ UNCHANGED <<counts, turns, elapsed, recent, made, charged>>

-----------------------------------------------------------------------------
(* The turn                                                                *)

\* StepAccumulator.Begin; a turn on the user's own key is not counted.
Begin(r) ==
  /\ SlotAt(r, "begin")
  /\ counts' = IF OwnKey(r) THEN counts ELSE [counts EXCEPT ![SessionIn(r)] = 0]
  /\ SlotGoto(r, "accept")
  /\ UNCHANGED <<turns, elapsed, recent, made, charged>>

\* Subscribe, EnqueueMessage and StartProcessing.
Accept(r) ==
  /\ SlotAt(r, "accept")
  /\ SlotGoto(r, "stream")
  /\ UNCHANGED <<counts, turns, elapsed, recent, made, charged>>

\* The step callback: every step of whatever runs in the session, also of an agent
\* that was spawned or of a task in the background.
Inc(s) ==
  /\ made[s] < MaxSteps[s]
  /\ made' = [made EXCEPT ![s] = @ + 1]
  /\ counts' = [counts EXCEPT ![s] = IF @ = None THEN None ELSE @ + 1]
  /\ UNCHANGED <<slot, turns, elapsed, recent, charged>>

Streaming(s) == {r \in Slots : SlotAt(r, "stream") /\ SessionIn(r) = s}

\* Every fan-out of the session sees what is published, and "done" ends them all.
ShowOutput(s) ==
  /\ Streaming(s) # {}
  /\ slot' = [r \in Slots |-> [slot[r] EXCEPT !.sawOutput = @ \/ r \in Streaming(s)]]
  /\ UNCHANGED <<counts, turns, elapsed, recent, made, charged>>

TurnEnds(s) ==
  /\ Streaming(s) # {}
  /\ slot' = [r \in Slots |-> IF r \in Streaming(s) THEN [slot[r] EXCEPT !.pc = "activity"]
                                                    ELSE slot[r]]
  /\ UNCHANGED <<counts, turns, elapsed, recent, made, charged>>

-----------------------------------------------------------------------------
(* Settlement                                                              *)

\* settleTurn settles a message only if it led to output, settleResumeSteps always.
Settles(r) == slot[r].resume \/ slot[r].sawOutput

\* RecordActivity; a write that fails is logged.
RecordActivity(r) ==
  /\ SlotAt(r, "activity")
  /\ recent' = recent \/ (Settles(r) /\ recent' = recent \cup {User(r)})
  /\ IF OwnKey(r) THEN Leave(r) ELSE SlotGoto(r, "take")
  /\ UNCHANGED <<counts, turns, elapsed, made, charged>>

Counted(s) == IF counts[s] = None THEN 0 ELSE counts[s]

\* A resume that made no step writes nothing.
AfterTake(r) ==
  IF slot[r].resume /\ Counted(SessionIn(r)) = 0 THEN Leave(r)
                                                 ELSE SlotGoto(r, "chargeTenant")

\* Variant: the count is read and stays.
TakeKeeping(r) ==
  LET s == SessionIn(r) IN
  /\ SlotAt(r, "take") /\ Settles(r)
  /\ charged' = [charged EXCEPT ![s] = @ + Counted(s)]
  /\ AfterTake(r)
  /\ UNCHANGED <<counts, turns, elapsed, recent, made>>

\* StepAccumulator.Take.
Take(r) ==
  LET s == SessionIn(r) IN
  /\ SlotAt(r, "take") /\ Settles(r)
  /\ counts' = [counts EXCEPT ![s] = None]
  /\ charged' = [charged EXCEPT ![s] = @ + Counted(s)]
  /\ AfterTake(r)
  /\ UNCHANGED <<turns, elapsed, recent, made>>

Discard(r) ==
  /\ SlotAt(r, "take") /\ ~Settles(r)
  /\ counts' = [counts EXCEPT ![SessionIn(r)] = None]
  /\ Leave(r)
  /\ UNCHANGED <<turns, elapsed, recent, made, charged>>

\* RecordTurn adds a turn, RecordSteps does not.
TurnsDelta(r) == IF slot[r].resume THEN 0 ELSE 1

\* incrementSQL: adds to the counter, or starts a new window in the same statement.
Increment(k, delta) ==
  IF Limit(k) = None
    THEN UNCHANGED <<turns, elapsed>>
    ELSE /\ turns' = [turns EXCEPT ![k] = IF k \in elapsed THEN delta ELSE @ + delta]
         /\ elapsed' = elapsed \ {k}

ChargeTenant(r) ==
  /\ SlotAt(r, "chargeTenant")
  /\ Increment(Tenant, TurnsDelta(r))
  /\ SlotGoto(r, "chargeUser")
  /\ UNCHANGED <<counts, recent, made, charged>>

ChargeUser(r) ==
  /\ SlotAt(r, "chargeUser")
  /\ Increment(User(r), TurnsDelta(r))
  /\ Leave(r)
  /\ UNCHANGED <<counts, recent, made, charged>>

-----------------------------------------------------------------------------
(* Time and crashes                                                        *)

WindowElapses(k) ==
  /\ Limit(k) # None /\ k \notin elapsed
  /\ elapsed' = elapsed \cup {k}
  /\ UNCHANGED <<slot, counts, turns, recent, made, charged>>

Lapse(u) ==
  /\ u \in recent
  /\ recent' = recent \ {u}
  /\ UNCHANGED <<slot, counts, turns, elapsed, made, charged>>

\* The process stops and starts: what is in memory is gone, the tables stay.
ServerRestarts ==
  /\ slot' = [r \in Slots |-> Empty]
  /\ counts' = [s \in Sessions |-> None]
  /\ UNCHANGED <<turns, elapsed, recent, made, charged>>

SlotStep(r) ==
  \/ IsActiveSince(r) \/ CountActiveSince(r) \/ CheckTenant(r) \/ CheckUser(r)
  \/ Resolve(r) \/ Fail(r) \/ Begin(r) \/ Accept(r)
  \/ RecordActivity(r) \/ Take(r) \/ Discard(r) \/ ChargeTenant(r) \/ ChargeUser(r)

AdmissionNext ==
  \/ \E r \in Slots, s \in Sessions, resume \in BOOLEAN : Send(r, s, resume)
  \/ \E r \in Slots : SlotStep(r)
  \/ \E s \in Sessions : Inc(s) \/ ShowOutput(s) \/ TurnEnds(s)
  \/ \E k \in Keys : WindowElapses(k)
  \/ \E u \in Users : Lapse(u)
  \/ ServerRestarts

AdmissionSpec == AdmissionInit /\ [][AdmissionNext]_admissionVars

-----------------------------------------------------------------------------
(* Properties                                                              *)

\* gateTurn checks before the turn and settles after it.  Whatever overlaps, a
\* window's count never passes the limit by more than the requests under way:
\* "the enforced count can overshoot the limit by up to the request concurrency".
TurnsBounded ==
  \A k \in Keys : Limit(k) # None => turns[k] <= Limit(k) - 1 + Cardinality(Slots)

\* The same for distinct users, although their activity is written at the end of
\* the turn and may lapse while a turn runs.
ActiveUsersBounded ==
  Cardinality(recent) <= ActiveLimit - 1 + Cardinality(Slots)

\* Overlapping turns of a session share one count and reset each other's, spawned
\* agents add to it after the turn; no step is ever charged twice.
StepsChargedOnce == \A s \in Sessions : charged[s] + Counted(s) <= made[s]

(* The gates of a turn let the counters go past their limits by the overlapping turns and *)
(* by no more (usagelimit.CheckTurn, activeusers.Check).                                  *)
AdmissionBounded == TurnsBounded /\ ActiveUsersBounded
=============================================================================
