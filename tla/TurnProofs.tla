----------------------------- MODULE TurnProofs -----------------------------
(***************************************************************************)
(* A turn: how it is admitted and charged, how a person answers its        *)
(* questions, and how its loop ends.                                       *)
(*                                                                         *)
(* Admission, for any number of requests, sessions and users and any       *)
(* limits: the counters pass their limits by less than the number of       *)
(* requests that may be under way, and no step is charged twice.  A count  *)
(* alone is no inductive invariant: a request that has passed the gate     *)
(* adds to it later.  So the requests that may still add are counted with  *)
(* it.  A request joins them only when the count is below the limit, and   *)
(* there are never more of them than slots; when it adds to the count it   *)
(* leaves them.  A window that elapses makes the gate let requests pass    *)
(* whatever the count, but the next of them to settle starts it afresh.    *)
(*                                                                         *)
(* The loop, for any calls, thresholds and budgets: what is claimed of a   *)
(* transcript must be read off the counters of the engine.  LoopInv says   *)
(* what each counter knows of the rounds recorded so far: the streak is    *)
(* the run at their end, a tool's errors in a row are some of its errors,  *)
(* a correction is a note in the results, and each repeat beyond the       *)
(* threshold has cost one.                                                 *)
(***************************************************************************)
EXTENDS TurnAdmission, HumanInterrupts, AgentLoop, FiniteSetTheorems, TLAPS

PastUsersGate == SlotSteps \ {"idle", "users", "count"}
PastTenantGate == PastUsersGate \ {"tenant", "chargeUser"}
PastUserGate == PastUsersGate \ {"tenant", "user"}

\* The requests that have passed the gate of a key and may still charge it.
Owing(k) ==
  {r \in Slots : /\ ~OwnKey(r)
                 /\ IF k = Tenant THEN slot[r].pc \in PastTenantGate
                                  ELSE slot[r].pc \in PastUserGate /\ User(r) = k}

KeyBounded(k) ==
  Limit(k) # None =>
    /\ turns[k] <= Limit(k) - 1 + Cardinality(Slots)
    /\ k \notin elapsed => turns[k] + Cardinality(Owing(k)) <= Limit(k) - 1 + Cardinality(Slots)

\* The users active inside the window or about to be.
ActiveSoon == recent \cup {User(r) : r \in {q \in Slots : slot[q].pc \in PastUsersGate}}

UsersBounded == Cardinality(ActiveSoon) <= ActiveLimit - 1 + Cardinality(Slots)

AdmissionInv ==
  AdmissionTypeOK /\ StepsChargedOnce /\ UsersBounded /\ \A k \in Keys : KeyBounded(k)

-----------------------------------------------------------------------------
(* Sets of requests and users are finite, and limits are numbers           *)

LEMMA Limits ==
  ASSUME NEW k \in Keys, Limit(k) # None
  PROVE  Limit(k) \in Nat \ {0}
BY AdmissionAssumption DEF Limit

LEMMA SlotCounts ==
  /\ Cardinality(Slots) \in Nat
  /\ \A S \in SUBSET Slots :
       IsFiniteSet(S) /\ Cardinality(S) \in Nat /\ Cardinality(S) <= Cardinality(Slots)
BY AdmissionAssumption, FS_CardinalityType, FS_Subset

LEMMA OwingCounts ==
  ASSUME NEW k
  PROVE  Cardinality(Owing(k)) \in Nat /\ Cardinality(Owing(k)) <= Cardinality(Slots)
BY SlotCounts DEF Owing

LEMMA OwingCountsLater ==
  ASSUME NEW k
  PROVE  Cardinality(Owing(k)') \in Nat /\ Cardinality(Owing(k)') <= Cardinality(Slots)
<1>1. Owing(k)' \in SUBSET Slots
  BY DEF Owing
<1>2. QED
  BY <1>1, SlotCounts

LEMMA UserTypes ==
  ASSUME AdmissionTypeOK
  PROVE  ActiveSoon \in SUBSET Users
BY AdmissionAssumption DEF AdmissionTypeOK, ActiveSoon, PastUsersGate, User, SessionIn

\* As a limit holds the users together with all who may become active.
LEMMA SoonBounds ==
  ASSUME AdmissionTypeOK, UsersBounded
  PROVE  ActiveUsersBounded
<1>1. recent \in SUBSET ActiveSoon /\ IsFiniteSet(ActiveSoon)
  BY UserTypes, AdmissionAssumption, FS_Subset DEF ActiveSoon
<1>2. Cardinality(recent) <= Cardinality(ActiveSoon)
  BY <1>1, FS_Subset
<1>3. Cardinality(recent) \in Nat /\ Cardinality(ActiveSoon) \in Nat /\ Cardinality(Slots) \in Nat
  BY <1>1, SlotCounts, FS_Subset, FS_CardinalityType
<1>4. QED
  BY <1>2, <1>3, AdmissionAssumption DEF UsersBounded, ActiveUsersBounded

\* What leaves the users together as they are, or takes some away, keeps their bound.
LEMMA FewerUsers ==
  ASSUME AdmissionTypeOK, UsersBounded, ActiveSoon' \subseteq ActiveSoon
  PROVE  UsersBounded'
<1>1. IsFiniteSet(ActiveSoon)
  BY UserTypes, AdmissionAssumption, FS_Subset
<1>2. ActiveSoon' \in SUBSET ActiveSoon
  OBVIOUS
<1>3. Cardinality(ActiveSoon') <= Cardinality(ActiveSoon) /\ IsFiniteSet(ActiveSoon')
  BY <1>1, <1>2, FS_Subset
<1>4. /\ Cardinality(ActiveSoon) \in Nat /\ Cardinality(ActiveSoon') \in Nat
      /\ Cardinality(Slots) \in Nat
  BY <1>1, <1>3, FS_CardinalityType, SlotCounts
<1>5. Cardinality(Slots)' = Cardinality(Slots) /\ Cardinality(ActiveSoon)' = Cardinality(ActiveSoon')
  OBVIOUS
<1>6. QED
  BY <1>3, <1>4, <1>5, AdmissionAssumption DEF UsersBounded

\* One more user becomes active only below the limit, and the others are one for each slot.
LEMMA NewUser ==
  ASSUME AdmissionTypeOK, AdmissionTypeOK', recent' = recent, Cardinality(recent) < ActiveLimit
  PROVE  UsersBounded'
<1> DEFINE past == {q \in Slots : slot'[q].pc \in PastUsersGate}
           user == [q \in past |-> User(q)']
           soon == {User(q)' : q \in past}
<1>1. IsFiniteSet(recent) /\ Cardinality(recent) \in Nat
  BY AdmissionAssumption, FS_Subset, FS_CardinalityType DEF AdmissionTypeOK
<1>2. past \in SUBSET Slots
  OBVIOUS
<1>3. IsFiniteSet(past) /\ Cardinality(past) <= Cardinality(Slots) /\ Cardinality(past) \in Nat
  BY <1>2, SlotCounts
<1>4. user \in Surjection(past, soon)
  BY DEF Surjection
<1>5. IsFiniteSet(soon) /\ Cardinality(soon) <= Cardinality(past)
  BY <1>3, <1>4, FS_Surjection
<1>6. Cardinality(soon) \in Nat
  BY <1>5, FS_CardinalityType
<1>7. Cardinality(recent \cup soon) <= Cardinality(recent) + Cardinality(soon)
  <2>1. IsFiniteSet(recent \cap soon)
    BY <1>1, FS_Subset
  <2>2. Cardinality(recent \cap soon) \in Nat
    BY <2>1, FS_CardinalityType
  <2>3. Cardinality(recent \cup soon)
          = Cardinality(recent) + Cardinality(soon) - Cardinality(recent \cap soon)
    BY <1>1, <1>5, FS_Union
  <2>4. QED
    BY <2>2, <2>3, <1>1, <1>6
<1>8. ActiveSoon' = recent \cup soon
  BY DEF ActiveSoon
<1>9. Cardinality(recent \cup soon) \in Nat
  BY <1>1, <1>5, FS_Union, FS_CardinalityType
<1>10. Cardinality(recent \cup soon) <= ActiveLimit - 1 + Cardinality(Slots)
  <2> HIDE DEF soon, past
  <2>1. QED
    BY <1>1, <1>3, <1>5, <1>6, <1>7, <1>9, SlotCounts, AdmissionAssumption
<1>11. QED
  BY <1>8, <1>10 DEF UsersBounded

-----------------------------------------------------------------------------
(* Keys                                                                    *)

\* What lets no further request owe the key and does not charge it.
LEMMA KeyQuiet ==
  ASSUME AdmissionTypeOK, NEW k \in Keys, KeyBounded(k), Owing(k)' \subseteq Owing(k),
         turns'[k] = turns[k], k \in elapsed => k \in elapsed'
  PROVE  KeyBounded(k)'
<1>1. Cardinality(Owing(k)') <= Cardinality(Owing(k))
  <2>1. Owing(k) \in SUBSET Slots /\ Owing(k)' \in SUBSET Owing(k)
    BY DEF Owing
  <2>2. QED
    BY <2>1, SlotCounts, FS_Subset
<1>2. /\ Cardinality(Owing(k)') \in Nat /\ Cardinality(Owing(k)) \in Nat
      /\ Cardinality(Slots) \in Nat /\ turns[k] \in Nat
  BY OwingCounts, OwingCountsLater, SlotCounts DEF AdmissionTypeOK
<1>3. Limit(k)' = Limit(k) /\ Cardinality(Slots)' = Cardinality(Slots)
      /\ Cardinality(Owing(k))' = Cardinality(Owing(k)')
  BY DEF Limit
<1>4. QED
  BY <1>1, <1>2, <1>3, Limits DEF KeyBounded

\* A request passes the gate of the key, whose count is below the limit.
LEMMA KeyPassed ==
  ASSUME AdmissionTypeOK, NEW k \in Keys, KeyBounded(k), WithinLimit(k),
         UNCHANGED <<turns, elapsed>>
  PROVE  KeyBounded(k)'
<1>1. /\ Cardinality(Owing(k)') \in Nat /\ Cardinality(Owing(k)') <= Cardinality(Slots)
      /\ Cardinality(Slots) \in Nat /\ turns[k] \in Nat
  BY OwingCountsLater, SlotCounts DEF AdmissionTypeOK
<1>2. Limit(k)' = Limit(k) /\ Cardinality(Slots)' = Cardinality(Slots)
      /\ Cardinality(Owing(k))' = Cardinality(Owing(k)')
  BY DEF Limit
<1>3. QED
  BY <1>1, <1>2, Limits DEF KeyBounded, WithinLimit

\* A request that owes the key charges it, and owes it no more.
LEMMA KeyCharged ==
  ASSUME AdmissionTypeOK, NEW k \in Keys, KeyBounded(k), NEW r \in Owing(k),
         Owing(k)' \subseteq Owing(k) \ {r}, NEW delta \in {0, 1}, Increment(k, delta)
  PROVE  KeyBounded(k)'
<1>1. Owing(k) \in SUBSET Slots
  BY DEF Owing
<1>2. IsFiniteSet(Owing(k)) /\ Cardinality(Owing(k)) \in Nat
      /\ Cardinality(Owing(k)) <= Cardinality(Slots) /\ Cardinality(Slots) \in Nat
  BY <1>1, SlotCounts
<1>3. IsFiniteSet(Owing(k) \ {r}) /\ Cardinality(Owing(k) \ {r}) = Cardinality(Owing(k)) - 1
  BY <1>2, FS_RemoveElement
<1>4. Owing(k)' \in SUBSET (Owing(k) \ {r})
  OBVIOUS
<1>5. Cardinality(Owing(k)') <= Cardinality(Owing(k)) - 1
  BY <1>3, <1>4, FS_Subset
<1>6. Cardinality(Owing(k)') \in Nat /\ turns[k] \in Nat
  BY OwingCountsLater DEF AdmissionTypeOK
<1>7. Limit(k)' = Limit(k) /\ Cardinality(Slots)' = Cardinality(Slots)
      /\ Cardinality(Owing(k))' = Cardinality(Owing(k)')
  BY DEF Limit
<1>8. SUFFICES ASSUME Limit(k) # None
      PROVE  /\ turns'[k] <= Limit(k) - 1 + Cardinality(Slots)
             /\ turns'[k] + Cardinality(Owing(k)') <= Limit(k) - 1 + Cardinality(Slots)
  BY <1>7 DEF KeyBounded
<1>9. turns'[k] = IF k \in elapsed THEN delta ELSE turns[k] + delta
  BY <1>8 DEF Increment, AdmissionTypeOK
<1>10. Limit(k) \in Nat \ {0}
  BY <1>8, Limits
<1>11. CASE k \in elapsed
  BY <1>2, <1>5, <1>6, <1>9, <1>10, <1>11
<1>12. CASE k \notin elapsed
  <2>1. turns[k] + Cardinality(Owing(k)) <= Limit(k) - 1 + Cardinality(Slots)
    BY <1>8, <1>12 DEF KeyBounded
  <2>2. QED
    BY <2>1, <1>2, <1>5, <1>6, <1>9, <1>10, <1>12
<1>13. QED
  BY <1>11, <1>12

-----------------------------------------------------------------------------
(* Slots                                                                   *)

\* What changes when a request goes to another step.
LEMMA Goto ==
  ASSUME AdmissionTypeOK, NEW r \in Slots, NEW stage \in SlotSteps, SlotGoto(r, stage)
  PROVE  /\ slot' \in [Slots -> [pc : SlotSteps, session : Sessions \cup {None},
                                 resume : BOOLEAN, sawOutput : BOOLEAN]]
         /\ \A q \in Slots : /\ slot'[q].pc = IF q = r THEN stage ELSE slot[q].pc
                             /\ slot'[q].session = slot[q].session
BY DEF AdmissionTypeOK, SlotGoto

LEMMA Leaves ==
  ASSUME AdmissionTypeOK, NEW r \in Slots, Leave(r)
  PROVE  /\ slot' \in [Slots -> [pc : SlotSteps, session : Sessions \cup {None},
                                 resume : BOOLEAN, sawOutput : BOOLEAN]]
         /\ slot'[r].pc = "idle"
         /\ \A q \in Slots \ {r} : slot'[q] = slot[q]
BY DEF AdmissionTypeOK, Leave, Empty, SlotSteps

\* What a step of a request leaves alone when the counters of turns and users are not touched.
LEMMA QuietInv ==
  ASSUME AdmissionInv, AdmissionTypeOK', StepsChargedOnce',
         \A k \in Keys : Owing(k)' \subseteq Owing(k), ActiveSoon' \subseteq ActiveSoon,
         turns' = turns, elapsed \subseteq elapsed'
  PROVE  AdmissionInv'
<1>1. \A k \in Keys : KeyBounded(k)'
  <2> SUFFICES ASSUME NEW k \in Keys PROVE KeyBounded(k)'
    OBVIOUS
  <2>1. AdmissionTypeOK /\ KeyBounded(k) /\ Owing(k)' \subseteq Owing(k)
    BY DEF AdmissionInv
  <2>2. turns'[k] = turns[k] /\ (k \in elapsed => k \in elapsed')
    OBVIOUS
  <2>3. QED
    BY <2>1, <2>2, KeyQuiet
<1>2. UsersBounded'
  BY FewerUsers DEF AdmissionInv
<1>3. QED
  BY <1>1, <1>2 DEF AdmissionInv

\* A request that goes from a step to one that owes no more owes no more.
LEMMA GotoOwes ==
  ASSUME AdmissionTypeOK, NEW r \in Slots, NEW stage \in SlotSteps, SlotGoto(r, stage),
         stage \in PastTenantGate => slot[r].pc \in PastTenantGate,
         stage \in PastUserGate => slot[r].pc \in PastUserGate,
         stage \in PastUsersGate => slot[r].pc \in PastUsersGate
  PROVE  /\ \A k \in Keys : Owing(k)' \subseteq Owing(k)
         /\ recent' \subseteq ActiveSoon => ActiveSoon' \subseteq ActiveSoon
<1>1. \A q \in Slots : /\ slot'[q].pc = IF q = r THEN stage ELSE slot[q].pc
                       /\ slot'[q].session = slot[q].session
  BY Goto
<1>2. \A k \in Keys : Owing(k)' \subseteq Owing(k)
  BY <1>1 DEF Owing, OwnKey, User, SessionIn
<1>3. {q \in Slots : slot'[q].pc \in PastUsersGate} \subseteq {q \in Slots : slot[q].pc \in PastUsersGate}
  BY <1>1
<1>4. \A q \in Slots : User(q)' = User(q)
  BY <1>1 DEF User, SessionIn
<1>5. QED
  BY <1>2, <1>3, <1>4 DEF ActiveSoon

LEMMA LeaveOwes ==
  ASSUME AdmissionTypeOK, NEW r \in Slots, Leave(r)
  PROVE  /\ \A k \in Keys : Owing(k)' \subseteq Owing(k) \ {r}
         /\ recent' \subseteq ActiveSoon => ActiveSoon' \subseteq ActiveSoon
<1>1. slot'[r].pc = "idle" /\ \A q \in Slots \ {r} : slot'[q] = slot[q]
  BY Leaves
<1>2. "idle" \notin PastUsersGate
  BY DEF PastUsersGate
<1>3. \A k \in Keys : Owing(k)' \subseteq Owing(k) \ {r}
  BY <1>1, <1>2 DEF Owing, OwnKey, User, SessionIn, PastTenantGate, PastUserGate
<1>4. \A q \in Slots : slot'[q].pc \in PastUsersGate => slot[q].pc \in PastUsersGate /\ User(q)' = User(q)
  BY <1>1, <1>2 DEF User, SessionIn
<1>5. QED
  BY <1>3, <1>4 DEF ActiveSoon

-----------------------------------------------------------------------------
(* The gate and the turn                                                   *)

\* Types after a step of one request that touches no counters.
LEMMA GotoType ==
  ASSUME AdmissionTypeOK, NEW r \in Slots, NEW stage \in SlotSteps, SlotGoto(r, stage),
         slot[r].pc # "idle",
         stage \in {"tenant", "user", "take", "chargeTenant", "chargeUser"} => ~OwnKey(r),
         UNCHANGED <<counts, turns, elapsed, recent, made, charged>>
  PROVE  AdmissionTypeOK'
<1>1. /\ slot' \in [Slots -> [pc : SlotSteps, session : Sessions \cup {None},
                              resume : BOOLEAN, sawOutput : BOOLEAN]]
      /\ \A q \in Slots : /\ slot'[q].pc = IF q = r THEN stage ELSE slot[q].pc
                          /\ slot'[q].session = slot[q].session
  BY Goto
<1>2. \A q \in Slots : slot'[q].pc # "idle" => slot'[q].session \in Sessions
  BY <1>1 DEF AdmissionTypeOK
<1>3. \A q \in Slots : slot'[q].pc \in {"tenant", "user", "take", "chargeTenant", "chargeUser"} =>
        UserOf[slot'[q].session] \notin KeyOwners
  BY <1>1 DEF AdmissionTypeOK, OwnKey, User, SessionIn
<1>4. QED
  BY <1>1, <1>2, <1>3 DEF AdmissionTypeOK

LEMMA LeaveType ==
  ASSUME AdmissionTypeOK, NEW r \in Slots, Leave(r)
  PROVE  /\ slot' \in [Slots -> [pc : SlotSteps, session : Sessions \cup {None},
                                 resume : BOOLEAN, sawOutput : BOOLEAN]]
         /\ \A q \in Slots : slot'[q].pc # "idle" => slot'[q].session \in Sessions
         /\ \A q \in Slots :
              slot'[q].pc \in {"tenant", "user", "take", "chargeTenant", "chargeUser"} =>
                UserOf[slot'[q].session] \notin KeyOwners
BY Leaves DEF AdmissionTypeOK

\* A step of a request that touches no counters: it ends, or it goes on and owes no more.
LEMMA MoveInv ==
  ASSUME AdmissionInv, NEW r \in Slots, slot[r].pc # "idle",
         UNCHANGED <<counts, turns, elapsed, recent, made, charged>>,
         \/ Leave(r)
         \/ \E stage \in SlotSteps :
              /\ SlotGoto(r, stage)
              /\ stage \in {"tenant", "user", "take", "chargeTenant", "chargeUser"} => ~OwnKey(r)
              /\ stage \in PastTenantGate => slot[r].pc \in PastTenantGate
              /\ stage \in PastUserGate => slot[r].pc \in PastUserGate
              /\ stage \in PastUsersGate => slot[r].pc \in PastUsersGate
  PROVE  AdmissionInv'
<1>1. AdmissionTypeOK /\ StepsChargedOnce' /\ recent' \subseteq ActiveSoon
  BY DEF AdmissionInv, StepsChargedOnce, Counted, ActiveSoon
<1>2. CASE Leave(r)
  <2>1. AdmissionTypeOK'
    BY <1>1, <1>2, LeaveType DEF AdmissionTypeOK
  <2>2. (\A k \in Keys : Owing(k)' \subseteq Owing(k)) /\ ActiveSoon' \subseteq ActiveSoon
    BY <1>1, <1>2, LeaveOwes
  <2>3. QED
    BY <1>1, <2>1, <2>2, QuietInv
<1>3. CASE \E stage \in SlotSteps :
             /\ SlotGoto(r, stage)
             /\ stage \in {"tenant", "user", "take", "chargeTenant", "chargeUser"} => ~OwnKey(r)
             /\ stage \in PastTenantGate => slot[r].pc \in PastTenantGate
             /\ stage \in PastUserGate => slot[r].pc \in PastUserGate
             /\ stage \in PastUsersGate => slot[r].pc \in PastUsersGate
  <2>1. PICK stage \in SlotSteps :
          /\ SlotGoto(r, stage)
          /\ stage \in {"tenant", "user", "take", "chargeTenant", "chargeUser"} => ~OwnKey(r)
          /\ stage \in PastTenantGate => slot[r].pc \in PastTenantGate
          /\ stage \in PastUserGate => slot[r].pc \in PastUserGate
          /\ stage \in PastUsersGate => slot[r].pc \in PastUsersGate
    BY <1>3
  <2>2. AdmissionTypeOK'
    BY <1>1, <2>1, GotoType
  <2>3. (\A k \in Keys : Owing(k)' \subseteq Owing(k)) /\ ActiveSoon' \subseteq ActiveSoon
    BY <1>1, <2>1, GotoOwes
  <2>4. QED
    BY <1>1, <2>2, <2>3, QuietInv
<1>4. QED
  BY <1>2, <1>3

LEMMA SendInv ==
  ASSUME AdmissionInv, NEW r \in Slots, NEW s \in Sessions, NEW resume \in BOOLEAN,
         Send(r, s, resume)
  PROVE  AdmissionInv'
<1>1. /\ slot[r].pc = "idle"
      /\ slot' = [slot EXCEPT ![r] = [pc |-> "users", session |-> s,
                                      resume |-> resume, sawOutput |-> FALSE]]
      /\ UNCHANGED <<counts, turns, elapsed, recent, made, charged>>
  BY DEF Send, SlotAt
<1>2. /\ slot'[r].pc = "users" /\ slot'[r].session = s
      /\ \A q \in Slots \ {r} : slot'[q] = slot[q]
  BY <1>1 DEF AdmissionInv, AdmissionTypeOK
<1>3. AdmissionTypeOK'
  <2>1. slot' \in [Slots -> [pc : SlotSteps, session : Sessions \cup {None},
                             resume : BOOLEAN, sawOutput : BOOLEAN]]
    BY <1>1 DEF AdmissionInv, AdmissionTypeOK, SlotSteps
  <2>2. QED
    BY <2>1, <1>1, <1>2 DEF AdmissionInv, AdmissionTypeOK
<1>4. "users" \notin PastUsersGate
  BY DEF PastUsersGate
<1>5. \A k \in Keys : Owing(k)' \subseteq Owing(k)
  BY <1>2, <1>4 DEF Owing, OwnKey, User, SessionIn, PastTenantGate, PastUserGate
<1>6. \A q \in Slots : slot'[q].pc \in PastUsersGate => slot[q].pc \in PastUsersGate /\ User(q)' = User(q)
  BY <1>2, <1>4 DEF User, SessionIn
<1>7. ActiveSoon' \subseteq ActiveSoon
  BY <1>1, <1>6 DEF ActiveSoon
<1>8. QED
  BY <1>1, <1>3, <1>5, <1>7, QuietInv DEF AdmissionInv, StepsChargedOnce, Counted

\* Where the gate of users lets a request go: on its own key it never owes.
LEMMA AdmittedOwes ==
  ASSUME AdmissionTypeOK, NEW r \in Slots, SlotGoto(r, AfterUsersGate(r)),
         slot[r].pc \in {"users", "count"},
         UNCHANGED <<counts, turns, elapsed, recent, made, charged>>
  PROVE  /\ AdmissionTypeOK'
         /\ \A k \in Keys : Owing(k)' \subseteq Owing(k)
         /\ User(r) \in recent => ActiveSoon' \subseteq ActiveSoon
<1>1. PICK stage \in SlotSteps :
        /\ SlotGoto(r, stage)
        /\ \/ stage \in {"resolve", "begin"} /\ OwnKey(r)
           \/ stage = "tenant" /\ ~OwnKey(r)
  BY DEF AfterUsersGate, AfterGate, SlotSteps
<1>2. AdmissionTypeOK'
  BY <1>1, GotoType
<1>3. \A q \in Slots : /\ slot'[q].pc = IF q = r THEN stage ELSE slot[q].pc
                       /\ slot'[q].session = slot[q].session
  BY <1>1, Goto
<1>4. \A q \in Slots : User(q)' = User(q) /\ OwnKey(q)' = OwnKey(q)
  BY <1>3 DEF User, SessionIn, OwnKey
<1>5. \A k \in Keys : Owing(k)' \subseteq Owing(k)
  BY <1>1, <1>3, <1>4 DEF Owing, PastTenantGate, PastUserGate
<1>6. User(r) \in recent => ActiveSoon' \subseteq ActiveSoon
  BY <1>3, <1>4 DEF ActiveSoon
<1>7. QED
  BY <1>2, <1>5, <1>6

LEMMA IsActiveSinceInv ==
  ASSUME AdmissionInv, NEW r \in Slots, IsActiveSince(r)
  PROVE  AdmissionInv'
<1>1. slot[r].pc = "users" /\ UNCHANGED <<counts, turns, elapsed, recent, made, charged>>
  BY DEF IsActiveSince, SlotAt
<1>2. CASE User(r) \in recent
  <2>1. SlotGoto(r, AfterUsersGate(r))
    BY <1>2 DEF IsActiveSince
  <2>2. AdmissionTypeOK' /\ (\A k \in Keys : Owing(k)' \subseteq Owing(k)) /\ ActiveSoon' \subseteq ActiveSoon
    BY <1>1, <1>2, <2>1, AdmittedOwes DEF AdmissionInv
  <2>3. QED
    BY <1>1, <2>2, QuietInv DEF AdmissionInv, StepsChargedOnce, Counted
<1>3. CASE User(r) \notin recent
  <2>1. SlotGoto(r, "count") /\ "count" \in SlotSteps
    BY <1>3 DEF IsActiveSince, SlotSteps
  <2>2. QED
    BY <1>1, <2>1, MoveInv DEF PastUsersGate, PastTenantGate, PastUserGate
<1>4. QED
  BY <1>2, <1>3

LEMMA CountActiveSinceInv ==
  ASSUME AdmissionInv, NEW r \in Slots, CountActiveSince(r)
  PROVE  AdmissionInv'
<1>1. slot[r].pc = "count" /\ UNCHANGED <<counts, turns, elapsed, recent, made, charged>>
  BY DEF CountActiveSince, SlotAt
<1>2. CASE Leave(r)
  BY <1>1, <1>2, MoveInv
<1>3. CASE Cardinality(recent) < ActiveLimit /\ SlotGoto(r, AfterUsersGate(r))
  <2>1. AdmissionTypeOK' /\ (\A k \in Keys : Owing(k)' \subseteq Owing(k))
    BY <1>1, <1>3, AdmittedOwes DEF AdmissionInv
  <2>2. UsersBounded'
    BY <1>1, <1>3, <2>1, NewUser DEF AdmissionInv
  <2>3. \A k \in Keys : KeyBounded(k)'
    <3> SUFFICES ASSUME NEW k \in Keys PROVE KeyBounded(k)'
      OBVIOUS
    <3>1. /\ AdmissionTypeOK /\ KeyBounded(k) /\ Owing(k)' \subseteq Owing(k)
          /\ turns'[k] = turns[k] /\ (k \in elapsed => k \in elapsed')
      BY <1>1, <2>1 DEF AdmissionInv
    <3>2. QED
      BY <3>1, KeyQuiet
  <2>4. StepsChargedOnce'
    BY <1>1 DEF AdmissionInv, StepsChargedOnce, Counted
  <2>5. QED
    BY <2>1, <2>2, <2>3, <2>4 DEF AdmissionInv
<1>4. QED
  BY <1>2, <1>3 DEF CountActiveSince

\* A request that passes the gate of one key joins those that owe this key.
LEMMA PassInv ==
  ASSUME AdmissionInv, NEW r \in Slots, NEW key \in Keys, WithinLimit(key),
         NEW stage \in SlotSteps, SlotGoto(r, stage), slot[r].pc \in PastUsersGate,
         stage = "user" => ~OwnKey(r),
         stage \notin {"tenant", "take", "chargeTenant", "chargeUser"},
         key # Tenant /\ stage \in PastTenantGate => slot[r].pc \in PastTenantGate,
         stage \in PastUserGate => slot[r].pc \in PastUserGate \/ key = User(r),
         UNCHANGED <<counts, turns, elapsed, recent, made, charged>>
  PROVE  AdmissionInv'
<1>1. slot[r].pc # "idle"
  BY DEF PastUsersGate
<1>2. AdmissionTypeOK'
  BY <1>1, GotoType DEF AdmissionInv
<1>3. \A q \in Slots : /\ slot'[q].pc = IF q = r THEN stage ELSE slot[q].pc
                       /\ slot'[q].session = slot[q].session
  BY Goto DEF AdmissionInv
<1>4. \A q \in Slots : User(q)' = User(q) /\ OwnKey(q)' = OwnKey(q)
  BY <1>3 DEF User, SessionIn, OwnKey
<1>5. \A k \in Keys \ {key} : Owing(k)' \subseteq Owing(k)
  BY <1>3, <1>4 DEF Owing
<1>6. ActiveSoon' \subseteq ActiveSoon
  BY <1>3, <1>4 DEF ActiveSoon
<1>7. \A k \in Keys : KeyBounded(k)'
  <2> SUFFICES ASSUME NEW k \in Keys PROVE KeyBounded(k)'
    OBVIOUS
  <2>1. /\ AdmissionTypeOK /\ KeyBounded(k)
        /\ turns'[k] = turns[k] /\ (k \in elapsed => k \in elapsed')
    BY DEF AdmissionInv
  <2>2. CASE k = key
    BY <2>1, <2>2, KeyPassed
  <2>3. CASE k # key
    BY <2>1, <2>3, <1>5, KeyQuiet
  <2>4. QED
    BY <2>2, <2>3
<1>8. UsersBounded' /\ StepsChargedOnce'
  BY <1>6, FewerUsers DEF AdmissionInv, StepsChargedOnce, Counted
<1>9. QED
  BY <1>2, <1>7, <1>8 DEF AdmissionInv

LEMMA CheckTenantInv ==
  ASSUME AdmissionInv, NEW r \in Slots, CheckTenant(r)
  PROVE  AdmissionInv'
<1>1. slot[r].pc = "tenant" /\ UNCHANGED <<counts, turns, elapsed, recent, made, charged>>
  BY DEF CheckTenant, SlotAt
<1>2. ~OwnKey(r) /\ Tenant \in Keys
  BY <1>1 DEF AdmissionInv, AdmissionTypeOK, OwnKey, User, SessionIn, Keys
<1>3. "user" \in SlotSteps /\ "user" \notin PastUserGate /\ "tenant" \in PastUsersGate
  BY DEF SlotSteps, PastUserGate, PastUsersGate
<1>4. CASE WithinLimit(Tenant) /\ SlotGoto(r, "user")
  BY <1>1, <1>2, <1>3, <1>4, PassInv
<1>5. CASE Leave(r)
  BY <1>1, <1>5, MoveInv
<1>6. QED
  BY <1>4, <1>5 DEF CheckTenant

LEMMA CheckUserInv ==
  ASSUME AdmissionInv, NEW r \in Slots, CheckUser(r)
  PROVE  AdmissionInv'
<1>1. slot[r].pc = "user" /\ UNCHANGED <<counts, turns, elapsed, recent, made, charged>>
  BY DEF CheckUser, SlotAt
<1>2. User(r) \in Keys
  <2>1. slot[r].session \in Sessions
    BY <1>1 DEF AdmissionInv, AdmissionTypeOK
  <2>2. QED
    BY <2>1, AdmissionAssumption DEF User, SessionIn, Keys
<1>3. "user" \in PastUsersGate /\ "user" \in PastTenantGate
  BY DEF SlotSteps, PastTenantGate, PastUsersGate
<1>4. CASE WithinLimit(User(r)) /\ SlotGoto(r, AfterGate(r))
  <2>1. PICK stage \in SlotSteps : stage \in {"resolve", "begin"} /\ SlotGoto(r, stage)
    BY <1>4 DEF AfterGate, SlotSteps
  <2>2. QED
    BY <1>1, <1>2, <1>3, <1>4, <2>1, PassInv
<1>5. CASE Leave(r)
  BY <1>1, <1>5, MoveInv
<1>6. QED
  BY <1>4, <1>5 DEF CheckUser

LEMMA PassingInv ==
  ASSUME AdmissionInv, NEW r \in Slots, Resolve(r) \/ Accept(r) \/ Fail(r)
  PROVE  AdmissionInv'
<1>1. slot[r].pc # "idle" /\ UNCHANGED <<counts, turns, elapsed, recent, made, charged>>
  BY DEF Resolve, Accept, Fail, SlotAt
<1>2. CASE Resolve(r)
  BY <1>1, <1>2, MoveInv DEF Resolve, SlotAt, SlotSteps, PastUsersGate, PastTenantGate, PastUserGate
<1>3. CASE Accept(r)
  BY <1>1, <1>3, MoveInv DEF Accept, SlotAt, SlotSteps, PastUsersGate, PastTenantGate, PastUserGate
<1>4. CASE Fail(r)
  BY <1>1, <1>4, MoveInv DEF Fail
<1>5. QED
  BY <1>2, <1>3, <1>4

\* StepAccumulator.Begin sets the count of the session to nothing.
LEMMA BeginInv ==
  ASSUME AdmissionInv, NEW r \in Slots, Begin(r)
  PROVE  AdmissionInv'
<1>1. /\ slot[r].pc = "begin" /\ SlotGoto(r, "accept")
      /\ UNCHANGED <<turns, elapsed, recent, made, charged>>
      /\ counts' = counts \/ counts' = [counts EXCEPT ![SessionIn(r)] = 0]
  BY DEF Begin, SlotAt
<1>2. SessionIn(r) \in Sessions /\ "accept" \in SlotSteps
  BY <1>1 DEF AdmissionInv, AdmissionTypeOK, SessionIn, SlotSteps
<1>3. counts' \in [Sessions -> Nat \cup {None}]
  BY <1>1, <1>2 DEF AdmissionInv, AdmissionTypeOK
<1>4. \A s \in Sessions : counts'[s] = counts[s] \/ counts'[s] = 0
  BY <1>1, <1>2 DEF AdmissionInv, AdmissionTypeOK
<1>5. /\ slot' \in [Slots -> [pc : SlotSteps, session : Sessions \cup {None},
                              resume : BOOLEAN, sawOutput : BOOLEAN]]
      /\ \A q \in Slots : /\ slot'[q].pc = IF q = r THEN "accept" ELSE slot[q].pc
                          /\ slot'[q].session = slot[q].session
  BY <1>1, <1>2, Goto DEF AdmissionInv
<1>6. AdmissionTypeOK'
  BY <1>1, <1>3, <1>5 DEF AdmissionInv, AdmissionTypeOK
<1>7. StepsChargedOnce'
  BY <1>1, <1>4, AdmissionAssumption DEF AdmissionInv, AdmissionTypeOK, StepsChargedOnce, Counted
<1>8. (\A k \in Keys : Owing(k)' \subseteq Owing(k)) /\ ActiveSoon' \subseteq ActiveSoon
  <2>1. recent' \subseteq ActiveSoon
    BY <1>1 DEF ActiveSoon
  <2>2. QED
    BY <2>1, <1>1, <1>2, GotoOwes
    DEF AdmissionInv, SlotSteps, PastUsersGate, PastTenantGate, PastUserGate
<1>9. QED
  BY <1>1, <1>6, <1>7, <1>8, QuietInv

\* A step that is made is counted at most once.
LEMMA IncInv ==
  ASSUME AdmissionInv, NEW s \in Sessions, Inc(s)
  PROVE  AdmissionInv'
<1>1. /\ made' = [made EXCEPT ![s] = @ + 1]
      /\ counts' = [counts EXCEPT ![s] = IF @ = None THEN None ELSE @ + 1]
      /\ UNCHANGED <<slot, turns, elapsed, recent, charged>>
  BY DEF Inc
<1>2. AdmissionTypeOK'
  BY <1>1 DEF AdmissionInv, AdmissionTypeOK
<1>3. \A u \in Sessions : made'[u] = IF u = s THEN made[u] + 1 ELSE made[u]
  BY <1>1 DEF AdmissionInv, AdmissionTypeOK
<1>4. \A u \in Sessions : Counted(u)' <= IF u = s THEN Counted(u) + 1 ELSE Counted(u)
  BY <1>1, AdmissionAssumption DEF AdmissionInv, AdmissionTypeOK, Counted
<1>5. \A u \in Sessions : /\ Counted(u) \in Nat /\ Counted(u)' \in Nat
                          /\ charged[u] \in Nat /\ charged'[u] = charged[u] /\ made[u] \in Nat
  BY <1>1, <1>2 DEF AdmissionInv, AdmissionTypeOK, Counted
<1>6. StepsChargedOnce'
  BY <1>3, <1>4, <1>5 DEF AdmissionInv, StepsChargedOnce
<1>7. (\A k \in Keys : Owing(k)' \subseteq Owing(k)) /\ ActiveSoon' \subseteq ActiveSoon
  BY <1>1 DEF Owing, ActiveSoon, OwnKey, User, SessionIn
<1>8. QED
  BY <1>1, <1>2, <1>6, <1>7, QuietInv

LEMMA StreamInv ==
  ASSUME AdmissionInv, NEW s \in Sessions, ShowOutput(s) \/ TurnEnds(s)
  PROVE  AdmissionInv'
<1>1. UNCHANGED <<counts, turns, elapsed, recent, made, charged>>
  BY DEF ShowOutput, TurnEnds
<1>2. slot' \in [Slots -> [pc : SlotSteps, session : Sessions \cup {None},
                           resume : BOOLEAN, sawOutput : BOOLEAN]]
  <2> DEFINE Request == [pc : SlotSteps, session : Sessions \cup {None},
                         resume : BOOLEAN, sawOutput : BOOLEAN]
  <2>1. \A q \in Slots : slot[q] \in Request
    BY DEF AdmissionInv, AdmissionTypeOK
  <2>2. CASE ShowOutput(s)
    <3>1. \A q \in Slots : [slot[q] EXCEPT !.sawOutput = @ \/ q \in Streaming(s)] \in Request
      BY <2>1
    <3>2. QED
      BY <2>2, <3>1 DEF ShowOutput
  <2>3. CASE TurnEnds(s)
    <3>1. \A q \in Slots : [slot[q] EXCEPT !.pc = "activity"] \in Request
      BY <2>1 DEF SlotSteps
    <3>2. QED
      BY <2>1, <2>3, <3>1 DEF TurnEnds
  <2>4. QED
    BY <2>2, <2>3
<1>3. \A q \in Slots :
        /\ slot'[q].session = slot[q].session
        /\ \/ slot'[q].pc = slot[q].pc
           \/ slot[q].pc = "stream" /\ slot'[q].pc = "activity"
  BY DEF AdmissionInv, AdmissionTypeOK, ShowOutput, TurnEnds, Streaming, SlotAt
<1>4. AdmissionTypeOK'
  BY <1>1, <1>2, <1>3 DEF AdmissionInv, AdmissionTypeOK
<1>5. \A q \in Slots : User(q)' = User(q) /\ OwnKey(q)' = OwnKey(q)
  BY <1>3 DEF User, SessionIn, OwnKey
<1>6. \A k \in Keys : Owing(k)' \subseteq Owing(k)
  BY <1>3, <1>5 DEF Owing, PastTenantGate, PastUserGate, PastUsersGate, SlotSteps
<1>7. ActiveSoon' \subseteq ActiveSoon
  BY <1>1, <1>3, <1>5 DEF ActiveSoon, PastUsersGate, SlotSteps
<1>8. QED
  BY <1>1, <1>4, <1>6, <1>7, QuietInv DEF AdmissionInv, StepsChargedOnce, Counted

-----------------------------------------------------------------------------
(* Settlement                                                              *)

LEMMA RecordActivityInv ==
  ASSUME AdmissionInv, NEW r \in Slots, RecordActivity(r)
  PROVE  AdmissionInv'
<1>1. /\ slot[r].pc = "activity" /\ UNCHANGED <<counts, turns, elapsed, made, charged>>
      /\ recent' = recent \/ recent' = recent \cup {User(r)}
  BY DEF RecordActivity, SlotAt
<1>2. recent' \subseteq ActiveSoon
  BY <1>1 DEF ActiveSoon, PastUsersGate, SlotSteps
<1>3. recent' \subseteq Users
  BY <1>2, UserTypes DEF AdmissionInv
<1>4. StepsChargedOnce'
  BY <1>1 DEF AdmissionInv, StepsChargedOnce, Counted
<1>5. CASE Leave(r)
  <2>1. AdmissionTypeOK'
    BY <1>1, <1>3, <1>5, LeaveType DEF AdmissionInv, AdmissionTypeOK
  <2>2. (\A k \in Keys : Owing(k)' \subseteq Owing(k)) /\ ActiveSoon' \subseteq ActiveSoon
    BY <1>2, <1>5, LeaveOwes DEF AdmissionInv
  <2>3. QED
    BY <1>1, <1>4, <2>1, <2>2, QuietInv
<1>6. CASE SlotGoto(r, "take") /\ ~OwnKey(r)
  <2>1. "take" \in SlotSteps
    BY DEF SlotSteps
  <2>2. /\ slot' \in [Slots -> [pc : SlotSteps, session : Sessions \cup {None},
                                resume : BOOLEAN, sawOutput : BOOLEAN]]
        /\ \A q \in Slots : /\ slot'[q].pc = IF q = r THEN "take" ELSE slot[q].pc
                            /\ slot'[q].session = slot[q].session
    BY <1>6, <2>1, Goto DEF AdmissionInv
  <2>3. AdmissionTypeOK'
    BY <1>1, <1>3, <1>6, <2>2 DEF AdmissionInv, AdmissionTypeOK, OwnKey, User, SessionIn
  <2>4. (\A k \in Keys : Owing(k)' \subseteq Owing(k)) /\ ActiveSoon' \subseteq ActiveSoon
    BY <1>1, <1>2, <1>6, <2>1, GotoOwes
    DEF AdmissionInv, SlotSteps, PastUsersGate, PastTenantGate, PastUserGate
  <2>5. QED
    BY <1>1, <1>4, <2>3, <2>4, QuietInv
<1>7. QED
  BY <1>5, <1>6 DEF RecordActivity

\* What is taken is charged, and the count is gone.
LEMMA TakeInv ==
  ASSUME AdmissionInv, NEW r \in Slots, Take(r) \/ Discard(r)
  PROVE  AdmissionInv'
<1> DEFINE s == SessionIn(r)
<1>1. /\ slot[r].pc = "take" /\ UNCHANGED <<turns, elapsed, recent, made>>
      /\ counts' = [counts EXCEPT ![s] = None]
      /\ charged' = [charged EXCEPT ![s] = @ + Counted(s)] \/ charged' = charged
      /\ Leave(r) \/ SlotGoto(r, "chargeTenant")
  BY DEF Take, Discard, SlotAt, AfterTake
<1>2. s \in Sessions /\ ~OwnKey(r) /\ "chargeTenant" \in SlotSteps
  BY <1>1 DEF AdmissionInv, AdmissionTypeOK, SessionIn, SlotSteps, OwnKey, User
<1> HIDE DEF s
<1>3. \A u \in Sessions : Counted(u) \in Nat
  BY DEF AdmissionInv, AdmissionTypeOK, Counted
<1>4. counts' \in [Sessions -> Nat \cup {None}] /\ charged' \in [Sessions -> Nat]
  BY <1>1, <1>2, <1>3 DEF AdmissionInv, AdmissionTypeOK
<1>5. \A u \in Sessions : Counted(u)' = IF u = s THEN 0 ELSE Counted(u)
  BY <1>1, <1>2 DEF AdmissionInv, AdmissionTypeOK, Counted
<1>6. \A u \in Sessions : charged'[u] <= IF u = s THEN charged[u] + Counted(u) ELSE charged[u]
  BY <1>1, <1>2, <1>3 DEF AdmissionInv, AdmissionTypeOK
<1>7. StepsChargedOnce'
  <2>1. \A u \in Sessions : charged[u] \in Nat /\ made[u] \in Nat /\ charged'[u] \in Nat
    BY <1>4 DEF AdmissionInv, AdmissionTypeOK
  <2>2. QED
    BY <2>1, <1>1, <1>3, <1>5, <1>6 DEF AdmissionInv, StepsChargedOnce
<1>8. recent' \subseteq ActiveSoon
  BY <1>1 DEF ActiveSoon
<1>9. CASE Leave(r)
  <2>1. AdmissionTypeOK'
    BY <1>1, <1>4, <1>9, LeaveType DEF AdmissionInv, AdmissionTypeOK
  <2>2. (\A k \in Keys : Owing(k)' \subseteq Owing(k)) /\ ActiveSoon' \subseteq ActiveSoon
    BY <1>8, <1>9, LeaveOwes DEF AdmissionInv
  <2>3. QED
    BY <1>1, <1>7, <2>1, <2>2, QuietInv
<1>10. CASE SlotGoto(r, "chargeTenant")
  <2>1. /\ slot' \in [Slots -> [pc : SlotSteps, session : Sessions \cup {None},
                                resume : BOOLEAN, sawOutput : BOOLEAN]]
        /\ \A q \in Slots : /\ slot'[q].pc = IF q = r THEN "chargeTenant" ELSE slot[q].pc
                            /\ slot'[q].session = slot[q].session
    BY <1>2, <1>10, Goto DEF AdmissionInv
  <2>2. AdmissionTypeOK'
    BY <1>1, <1>2, <1>4, <2>1 DEF AdmissionInv, AdmissionTypeOK, OwnKey, User, SessionIn
  <2>3. (\A k \in Keys : Owing(k)' \subseteq Owing(k)) /\ ActiveSoon' \subseteq ActiveSoon
    BY <1>1, <1>2, <1>8, <1>10, GotoOwes
    DEF AdmissionInv, SlotSteps, PastUsersGate, PastTenantGate, PastUserGate
  <2>4. QED
    BY <1>1, <1>7, <2>2, <2>3, QuietInv
<1>11. QED
  BY <1>1, <1>9, <1>10

\* A request charges its keys one after the other, and owes them as long as it has not.
LEMMA ChargeInv ==
  ASSUME AdmissionInv, NEW r \in Slots, ChargeTenant(r) \/ ChargeUser(r)
  PROVE  AdmissionInv'
<1>1. PICK key \in Keys :
        /\ Increment(key, TurnsDelta(r)) /\ r \in Owing(key)
        /\ \/ key = Tenant /\ SlotGoto(r, "chargeUser") /\ slot[r].pc = "chargeTenant"
           \/ Leave(r)
  <2>1. CASE ChargeTenant(r)
    <3>1. slot[r].pc = "chargeTenant" /\ Tenant \in Keys
      BY <2>1 DEF ChargeTenant, SlotAt, Keys
    <3>2. r \in Owing(Tenant)
      BY <3>1 DEF Owing, AdmissionInv, AdmissionTypeOK, OwnKey, User, SessionIn,
                  PastTenantGate, PastUsersGate, SlotSteps
    <3>3. QED
      BY <2>1, <3>1, <3>2 DEF ChargeTenant
  <2>2. CASE ChargeUser(r)
    <3>1. slot[r].pc = "chargeUser"
      BY <2>2 DEF ChargeUser, SlotAt
    <3>2. User(r) \in Users
      BY <3>1, AdmissionAssumption DEF AdmissionInv, AdmissionTypeOK, User, SessionIn
    <3>3. User(r) \in Keys /\ User(r) # Tenant
      BY <3>2, AdmissionAssumption DEF Keys
    <3>4. r \in Owing(User(r))
      BY <3>1, <3>3 DEF Owing, AdmissionInv, AdmissionTypeOK, OwnKey, User, SessionIn,
                  PastUserGate, PastUsersGate, SlotSteps
    <3>5. QED
      BY <2>2, <3>3, <3>4 DEF ChargeUser
  <2>3. QED
    BY <2>1, <2>2
<1>2. UNCHANGED <<counts, recent, made, charged>> /\ slot[r].pc # "idle" /\ ~OwnKey(r)
  BY DEF ChargeTenant, ChargeUser, SlotAt, AdmissionInv, AdmissionTypeOK, OwnKey, User, SessionIn
<1>3. TurnsDelta(r) \in {0, 1}
  BY DEF TurnsDelta
<1>4. /\ turns' \in [Keys -> Nat] /\ elapsed' \subseteq Keys
      /\ \A k \in Keys \ {key} : turns'[k] = turns[k] /\ (k \in elapsed => k \in elapsed')
  BY <1>1, <1>3 DEF Increment, AdmissionInv, AdmissionTypeOK
<1>5. recent' \subseteq ActiveSoon
  BY <1>2 DEF ActiveSoon
<1>6. /\ AdmissionTypeOK' /\ ActiveSoon' \subseteq ActiveSoon
      /\ Owing(key)' \subseteq Owing(key) \ {r}
      /\ \A k \in Keys : Owing(k)' \subseteq Owing(k)
  <2>1. CASE Leave(r)
    <3>1. AdmissionTypeOK'
      BY <1>2, <1>4, <2>1, LeaveType DEF AdmissionInv, AdmissionTypeOK
    <3>2. QED
      BY <1>5, <2>1, <3>1, LeaveOwes DEF AdmissionInv
  <2>2. CASE key = Tenant /\ SlotGoto(r, "chargeUser") /\ slot[r].pc = "chargeTenant"
    <3>1. "chargeUser" \in SlotSteps /\ "chargeUser" \notin PastTenantGate
      BY DEF SlotSteps, PastTenantGate
    <3>2. /\ slot' \in [Slots -> [pc : SlotSteps, session : Sessions \cup {None},
                                  resume : BOOLEAN, sawOutput : BOOLEAN]]
          /\ \A q \in Slots : /\ slot'[q].pc = IF q = r THEN "chargeUser" ELSE slot[q].pc
                              /\ slot'[q].session = slot[q].session
      BY <2>2, <3>1, Goto DEF AdmissionInv
    <3>3. AdmissionTypeOK'
      BY <1>2, <1>4, <3>2 DEF AdmissionInv, AdmissionTypeOK, OwnKey, User, SessionIn
    <3>4. (\A k \in Keys : Owing(k)' \subseteq Owing(k)) /\ ActiveSoon' \subseteq ActiveSoon
      BY <1>5, <2>2, <3>1, GotoOwes
      DEF AdmissionInv, SlotSteps, PastUsersGate, PastTenantGate, PastUserGate
    <3>5. r \notin Owing(key)'
      BY <2>2, <3>1, <3>2 DEF Owing
    <3>6. QED
      BY <3>3, <3>4, <3>5
  <2>3. QED
    BY <1>1, <2>1, <2>2
<1>7. \A k \in Keys : KeyBounded(k)'
  <2> SUFFICES ASSUME NEW k \in Keys PROVE KeyBounded(k)'
    OBVIOUS
  <2>1. AdmissionTypeOK /\ KeyBounded(k)
    BY DEF AdmissionInv
  <2>2. CASE k = key
    BY <1>1, <1>3, <1>6, <2>1, <2>2, KeyCharged
  <2>3. CASE k # key
    BY <1>4, <1>6, <2>1, <2>3, KeyQuiet
  <2>4. QED
    BY <2>2, <2>3
<1>8. UsersBounded' /\ StepsChargedOnce'
  BY <1>2, <1>6, FewerUsers DEF AdmissionInv, StepsChargedOnce, Counted
<1>9. QED
  BY <1>6, <1>7, <1>8 DEF AdmissionInv

-----------------------------------------------------------------------------
(* Time and crashes                                                        *)

LEMMA TimeInv ==
  ASSUME AdmissionInv,
         (\E k \in Keys : WindowElapses(k)) \/ (\E u \in Users : Lapse(u))
  PROVE  AdmissionInv'
<1>1. /\ UNCHANGED <<slot, counts, turns, made, charged>>
      /\ elapsed \subseteq elapsed' /\ elapsed' \subseteq Keys /\ recent' \subseteq recent
  BY DEF WindowElapses, Lapse, AdmissionInv, AdmissionTypeOK
<1>2. AdmissionTypeOK' /\ StepsChargedOnce'
  BY <1>1 DEF AdmissionInv, AdmissionTypeOK, StepsChargedOnce, Counted
<1>3. (\A k \in Keys : Owing(k)' \subseteq Owing(k)) /\ ActiveSoon' \subseteq ActiveSoon
  BY <1>1 DEF Owing, ActiveSoon, OwnKey, User, SessionIn
<1>4. QED
  BY <1>1, <1>2, <1>3, QuietInv

LEMMA ServerRestartsInv ==
  ASSUME AdmissionInv, ServerRestarts
  PROVE  AdmissionInv'
<1>1. /\ slot' = [r \in Slots |-> Empty] /\ counts' = [s \in Sessions |-> None]
      /\ UNCHANGED <<turns, elapsed, recent, made, charged>>
  BY DEF ServerRestarts
<1>2. AdmissionTypeOK'
  BY <1>1 DEF AdmissionInv, AdmissionTypeOK, Empty, SlotSteps
<1>3. StepsChargedOnce'
  BY <1>1 DEF AdmissionInv, AdmissionTypeOK, StepsChargedOnce, Counted
<1>4. (\A k \in Keys : Owing(k)' \subseteq Owing(k)) /\ ActiveSoon' \subseteq ActiveSoon
  BY <1>1 DEF Owing, ActiveSoon, Empty, PastUsersGate, PastTenantGate, PastUserGate
<1>5. QED
  BY <1>1, <1>2, <1>3, <1>4, QuietInv

-----------------------------------------------------------------------------

LEMMA AdmissionInitInv == AdmissionInit => AdmissionInv
<1> SUFFICES ASSUME AdmissionInit PROVE AdmissionInv
  OBVIOUS
<1>1. AdmissionTypeOK /\ StepsChargedOnce
  BY DEF AdmissionInit, AdmissionTypeOK, StepsChargedOnce, Counted, Empty, SlotSteps
<1>2. ActiveSoon = {} /\ \A k \in Keys : Owing(k) = {}
  BY DEF AdmissionInit, ActiveSoon, Owing, Empty, PastUsersGate, PastTenantGate, PastUserGate
<1>3. UsersBounded
  BY <1>2, FS_EmptySet, SlotCounts, AdmissionAssumption DEF UsersBounded
<1>4. \A k \in Keys : KeyBounded(k)
  BY <1>2, FS_EmptySet, SlotCounts, Limits DEF KeyBounded, AdmissionInit
<1>5. QED
  BY <1>1, <1>3, <1>4 DEF AdmissionInv

LEMMA AdmissionStepInv == AdmissionInv /\ [AdmissionNext]_admissionVars => AdmissionInv'
<1> SUFFICES ASSUME AdmissionInv, [AdmissionNext]_admissionVars PROVE AdmissionInv'
  OBVIOUS
<1>1. CASE \E r \in Slots, s \in Sessions, resume \in BOOLEAN : Send(r, s, resume)
  BY <1>1, SendInv
<1>2. ASSUME NEW r \in Slots, SlotStep(r) PROVE AdmissionInv'
  BY <1>2, IsActiveSinceInv, CountActiveSinceInv, CheckTenantInv, CheckUserInv, PassingInv,
     BeginInv, RecordActivityInv, TakeInv, ChargeInv DEF SlotStep
<1>3. ASSUME NEW s \in Sessions, Inc(s) \/ ShowOutput(s) \/ TurnEnds(s) PROVE AdmissionInv'
  BY <1>3, IncInv, StreamInv
<1>4. CASE (\E k \in Keys : WindowElapses(k)) \/ (\E u \in Users : Lapse(u))
  BY <1>4, TimeInv
<1>5. CASE UNCHANGED admissionVars
  <2>1. /\ AdmissionTypeOK' /\ StepsChargedOnce' /\ ActiveSoon' \subseteq ActiveSoon
        /\ \A k \in Keys : Owing(k)' \subseteq Owing(k)
    BY <1>5 DEF admissionVars, AdmissionInv, AdmissionTypeOK, StepsChargedOnce, Counted,
                ActiveSoon, Owing, OwnKey, User, SessionIn
  <2>2. QED
    BY <1>5, <2>1, QuietInv DEF admissionVars
<1>6. QED
  BY <1>1, <1>2, <1>3, <1>4, <1>5, ServerRestartsInv DEF AdmissionNext

\* However many turns overlap, the turns of a window and the active users pass their limits
\* by less than the requests that can be under way (usagelimit.CheckTurn, activeusers.Check
\* before the turn, settleTurn after it).
THEOREM BoundedAdmission == AdmissionSpec => []AdmissionBounded
<1>1. AdmissionInv => AdmissionBounded
  BY SoonBounds DEF AdmissionInv, AdmissionBounded, TurnsBounded, KeyBounded
<1>2. QED
  BY <1>1, AdmissionInitInv, AdmissionStepInv, PTL DEF AdmissionSpec

\* Counters and requests keep their types, and the turn of a user with a key of their own is
\* neither limited nor charged (usagelimit.CheckTurn, settleTurn).
THEOREM AdmissionsWellFormed == AdmissionSpec => []AdmissionTypeOK
<1>1. AdmissionInv => AdmissionTypeOK
  BY DEF AdmissionInv
<1>2. QED
  BY <1>1, AdmissionInitInv, AdmissionStepInv, PTL DEF AdmissionSpec

\* A step is charged at most once, though the turns of a session share one count that each
\* of them resets (StepAccumulator.Begin, Inc, Take, Discard).
THEOREM ChargedOnce == AdmissionSpec => []StepsChargedOnce
<1>1. AdmissionInv => StepsChargedOnce
  BY DEF AdmissionInv
<1>2. QED
  BY <1>1, AdmissionInitInv, AdmissionStepInv, PTL DEF AdmissionSpec

-----------------------------------------------------------------------------
(***************************************************************************)
(* For any number of interrupts and of requests that answer them: an       *)
(* interrupt is answered at most once, its records fit together, and a     *)
(* widget that is shown can be answered unless a write failed.             *)
(*                                                                         *)
(* AnsweredOnce is inductive once it is known who may still queue an       *)
(* answer: the one request that found the row pending in MarkResolved,     *)
(* and only until it has queued it.  A row is pending once because the     *)
(* turn that asks writes it before it shows the widget.                    *)
(***************************************************************************)

\* The request has resolved its interrupt and has yet to queue the answer.
Winner(q) == resumer[q].pc \in {"agent", "enqueue"}

\* An interrupt that a request has resolved has no answer yet, and no other such request.
OneWinner ==
  /\ \A q \in Resumers : Winner(q) =>
       /\ row[resumer[q].interrupt].status = "resolved"
       /\ answers[resumer[q].interrupt] = 0
  /\ \A q, p \in Resumers :
       Winner(q) /\ Winner(p) /\ resumer[q].interrupt = resumer[p].interrupt => q = p

\* The turn writes the request event, then the row, then it shows the widget.
WritesInOrder ==
  \A i \in Interrupts :
    /\ asking[i] \in {"not", "append", "create"} => row[i].status = "none"
    /\ asking[i] = "create" => i \in requested
    /\ asking[i] = "publish" /\ i \notin unstored => row[i].status # "none"

InterruptInv ==
  /\ InterruptTypeOK /\ OneWinner /\ WritesInOrder
  /\ AnsweredOnce /\ RecordsFit /\ WidgetAnswerable

\* What a request is at, by its components.
Resuming == [pc : {"idle", "load", "append", "resolve", "agent", "enqueue"},
             interrupt : Interrupts \cup {None}, event : 0..MaxEvents]

\* In the beginning nobody asked.
LEMMA InterruptInitInv == InterruptInit => InterruptInv
BY InterruptAssumption
DEF InterruptInit, InterruptInv, InterruptTypeOK, OneWinner, Winner, WritesInOrder,
    AnsweredOnce, RecordsFit, WidgetAnswerable, NoAnswer

-----------------------------------------------------------------------------
(* The steps of a turn that asks                                           *)

LEMMA AskInv ==
  ASSUME InterruptInv, NEW i \in Interrupts, Ask(i)
  PROVE  InterruptInv'
BY DEF InterruptInv, InterruptTypeOK, OneWinner, Winner, WritesInOrder, AnsweredOnce,
       RecordsFit, WidgetAnswerable, Ask, AskingGoto

LEMMA AppendRequestInv ==
  ASSUME InterruptInv, NEW i \in Interrupts, AppendRequest(i)
  PROVE  InterruptInv'
BY DEF InterruptInv, InterruptTypeOK, OneWinner, Winner, WritesInOrder, AnsweredOnce,
       RecordsFit, WidgetAnswerable, AppendRequest, AskingGoto

\* The row is pending for the first time: nobody can have answered.
LEMMA CreateRowInv ==
  ASSUME InterruptInv, NEW i \in Interrupts, CreateRow(i)
  PROVE  InterruptInv'
<1>1. InterruptTypeOK'
  BY DEF InterruptInv, InterruptTypeOK, CreateRow, AskingGoto
<1>2. OneWinner'
  BY DEF InterruptInv, InterruptTypeOK, OneWinner, Winner, WritesInOrder, CreateRow
<1>3. WritesInOrder'
  BY DEF InterruptInv, InterruptTypeOK, WritesInOrder, CreateRow, AskingGoto
<1>4. AnsweredOnce' /\ RecordsFit'
  BY DEF InterruptInv, InterruptTypeOK, WritesInOrder, AnsweredOnce, RecordsFit, CreateRow
<1>5. WidgetAnswerable'
  BY DEF InterruptInv, InterruptTypeOK, WidgetAnswerable, CreateRow, AskingGoto
<1>6. QED
  BY <1>1, <1>2, <1>3, <1>4, <1>5 DEF InterruptInv

LEMMA PublishRequestInv ==
  ASSUME InterruptInv, NEW i \in Interrupts, PublishRequest(i)
  PROVE  InterruptInv'
BY DEF InterruptInv, InterruptTypeOK, OneWinner, Winner, WritesInOrder, AnsweredOnce,
       RecordsFit, WidgetAnswerable, PublishRequest, AskingGoto

-----------------------------------------------------------------------------
(* The steps of a request that answers                                     *)

\* A step that only moves a request that has not resolved its interrupt.
LEMMA ResumerMovesInv ==
  ASSUME InterruptInv, NEW q \in Resumers, NEW r \in Resuming,
         resumer' = [resumer EXCEPT ![q] = r],
         r.pc # "idle" => r.interrupt \in Interrupts,
         \/ r.pc \in {"idle", "load", "append"}
         \/ /\ r.pc = "enqueue" /\ resumer[q].pc = "agent"
            /\ r.interrupt = resumer[q].interrupt /\ r.event = resumer[q].event,
         UNCHANGED <<asking, requested, row, resumeLog, unstored, answers>>
  PROVE  InterruptInv'
<1>1. InterruptTypeOK'
  BY DEF InterruptInv, InterruptTypeOK, Resuming
<1>2. OneWinner'
  BY DEF InterruptInv, InterruptTypeOK, OneWinner, Winner, Resuming
<1>3. QED
  BY <1>1, <1>2 DEF InterruptInv, WritesInOrder, AnsweredOnce, RecordsFit, WidgetAnswerable

LEMMA AnswerInv ==
  ASSUME InterruptInv, NEW q \in Resumers, NEW i \in Interrupts, Answer(q, i)
  PROVE  InterruptInv'
<1> DEFINE r == [pc |-> "load", interrupt |-> i, event |-> 0]
<1>1. r \in Resuming /\ r.pc = "load" /\ r.interrupt \in Interrupts
  BY InterruptAssumption DEF Resuming
<1>2. /\ resumer' = [resumer EXCEPT ![q] = r]
      /\ UNCHANGED <<asking, requested, row, resumeLog, unstored, answers>>
  BY DEF Answer
<1> HIDE DEF r
<1>3. QED
  BY <1>1, <1>2, ResumerMovesInv

\* A request that gives up leaves what was written.
LEMMA GiveUpInv ==
  ASSUME InterruptInv, NEW q \in Resumers, GiveUp(q),
         UNCHANGED <<asking, requested, row, resumeLog, unstored, answers>>
  PROVE  InterruptInv'
<1>1. NoAnswer \in Resuming /\ NoAnswer.pc = "idle"
  BY InterruptAssumption DEF Resuming, NoAnswer
<1>2. QED
  BY <1>1, ResumerMovesInv DEF GiveUp

LEMMA LoadInv ==
  ASSUME InterruptInv, NEW q \in Resumers, LoadWithRequestEvent(q)
  PROVE  InterruptInv'
<1>1. CASE ResumerGoto(q, "append")
  <2> DEFINE r == [resumer[q] EXCEPT !.pc = "append"]
  <2>1. r \in Resuming /\ r.pc = "append" /\ r.interrupt \in Interrupts
    BY DEF LoadWithRequestEvent, ResumerAt, InterruptInv, InterruptTypeOK, Resuming
  <2>2. resumer' = [resumer EXCEPT ![q] = r]
    BY <1>1 DEF ResumerGoto
  <2>3. UNCHANGED <<asking, requested, row, resumeLog, unstored, answers>>
    BY DEF LoadWithRequestEvent
  <2> HIDE DEF r
  <2>4. QED
    BY <2>1, <2>2, <2>3, ResumerMovesInv
<1>2. CASE GiveUp(q)
  BY <1>2, GiveUpInv DEF LoadWithRequestEvent
<1>3. QED
  BY <1>1, <1>2 DEF LoadWithRequestEvent

\* The log only grows, so what refers to its events stays right.
LEMMA AppendResumeInv ==
  ASSUME InterruptInv, NEW q \in Resumers, AppendResume(q)
  PROVE  InterruptInv'
<1> DEFINE i == resumer[q].interrupt
<1>1. i \in Interrupts
  BY DEF AppendResume, ResumerAt, InterruptInv, InterruptTypeOK
<1>2. /\ resumeLog' = [resumeLog EXCEPT ![i] = resumeLog[i] + 1]
      /\ resumer' = [resumer EXCEPT ![q].pc = "resolve", ![q].event = resumeLog[i] + 1]
      /\ resumeLog[i] + 1 \in 1..MaxEvents
  BY <1>1, InterruptAssumption DEF AppendResume, InterruptInv, InterruptTypeOK
<1>3. \A j \in Interrupts : resumeLog[j] <= resumeLog'[j]
  BY <1>1, <1>2 DEF InterruptInv, InterruptTypeOK
<1>4. InterruptTypeOK'
  <2> DEFINE r == [resumer[q] EXCEPT !.pc = "resolve", !.event = resumeLog[i] + 1]
  <2>1. r \in Resuming /\ r.pc = "resolve" /\ r.interrupt = i /\ r.event = resumeLog'[i]
    <3>1. resumer[q] \in Resuming /\ resumeLog[i] + 1 \in 0..MaxEvents
      BY <1>2, InterruptAssumption DEF InterruptInv, InterruptTypeOK, Resuming
    <3>2. resumeLog'[i] = resumeLog[i] + 1
      BY <1>1, <1>2 DEF InterruptInv, InterruptTypeOK
    <3>3. QED
      BY <3>1, <3>2 DEF Resuming
  <2>2. resumer' = [resumer EXCEPT ![q] = r]
    BY <1>2
  <2> HIDE DEF r
  <2>3. /\ resumer' \in [Resumers -> Resuming]
        /\ \A p \in Resumers : p # q => resumer'[p] = resumer[p]
        /\ resumer'[q] = r
    BY <2>1, <2>2 DEF InterruptInv, InterruptTypeOK, Resuming
  <2>4. resumeLog' \in [Interrupts -> 0..MaxEvents]
    BY <1>1, <1>2, InterruptAssumption DEF InterruptInv, InterruptTypeOK
  <2>5. \A p \in Resumers : resumer'[p].pc # "idle" => resumer'[p].interrupt \in Interrupts
    BY <1>1, <2>1, <2>3 DEF InterruptInv, InterruptTypeOK
  <2>6. \A p \in Resumers : resumer'[p].pc \in {"resolve", "agent", "enqueue"} =>
          resumer'[p].event \in 1..resumeLog'[resumer'[p].interrupt]
    <3> SUFFICES ASSUME NEW p \in Resumers,
                        resumer'[p].pc \in {"resolve", "agent", "enqueue"}
                 PROVE  resumer'[p].event \in 1..resumeLog'[resumer'[p].interrupt]
      OBVIOUS
    <3>1. CASE p = q
      BY <3>1, <1>1, <1>2, <2>1, <2>3, <2>4 DEF InterruptInv, InterruptTypeOK
    <3>2. CASE p # q
      BY <3>2, <1>3, <2>3, <2>4, <2>5 DEF InterruptInv, InterruptTypeOK
    <3>3. QED
      BY <3>1, <3>2
  <2>7. QED
    BY <2>3, <2>4, <2>5, <2>6 DEF InterruptInv, InterruptTypeOK, AppendResume, Resuming
<1>5. OneWinner'
  BY <1>2 DEF InterruptInv, InterruptTypeOK, OneWinner, Winner, AppendResume
<1>6. AnsweredOnce' /\ RecordsFit'
  BY <1>3, <1>4, InterruptAssumption
  DEF InterruptInv, InterruptTypeOK, AnsweredOnce, RecordsFit, AppendResume
<1>7. WritesInOrder' /\ WidgetAnswerable'
  BY DEF InterruptInv, WritesInOrder, WidgetAnswerable, AppendResume
<1>8. QED
  BY <1>4, <1>5, <1>6, <1>7 DEF InterruptInv

\* The row was pending, so no request had resolved it and none had queued an answer.
LEMMA MarkResolvedInv ==
  ASSUME InterruptInv, NEW q \in Resumers, MarkResolved(q)
  PROVE  InterruptInv'
<1> DEFINE i == resumer[q].interrupt
<1>1. CASE row[i].status # "pending"
  BY <1>1, GiveUpInv DEF MarkResolved
<1>2. CASE row[i].status = "pending"
  <2>1. i \in Interrupts /\ resumer[q].event \in 1..resumeLog[i]
    BY DEF MarkResolved, ResumerAt, InterruptInv, InterruptTypeOK
  <2>2. /\ row' = [row EXCEPT ![i] = [status |-> "resolved", event |-> resumer[q].event]]
        /\ resumer' = [resumer EXCEPT ![q].pc = "agent"]
        /\ UNCHANGED <<asking, requested, resumeLog, unstored, answers>>
    BY <1>2 DEF MarkResolved, ResumerGoto
  <2>3. answers[i] = 0 /\ \A p \in Resumers : Winner(p) => resumer[p].interrupt # i
    BY <1>2, <2>1 DEF InterruptInv, InterruptTypeOK, OneWinner, RecordsFit
  <2>4. InterruptTypeOK'
    BY <2>1, <2>2 DEF InterruptInv, InterruptTypeOK
  <2>5. OneWinner'
    BY <2>1, <2>2, <2>3 DEF InterruptInv, InterruptTypeOK, OneWinner, Winner
  <2>6. AnsweredOnce' /\ RecordsFit'
    BY <1>2, <2>1, <2>2, <2>3 DEF InterruptInv, InterruptTypeOK, AnsweredOnce, RecordsFit
  <2>7. WritesInOrder' /\ WidgetAnswerable'
    BY <1>2, <2>1, <2>2 DEF InterruptInv, InterruptTypeOK, WritesInOrder, WidgetAnswerable
  <2>8. QED
    BY <2>4, <2>5, <2>6, <2>7 DEF InterruptInv
<1>3. QED
  BY <1>1, <1>2

LEMMA FindEntryAgentInv ==
  ASSUME InterruptInv, NEW q \in Resumers, FindEntryAgent(q)
  PROVE  InterruptInv'
<1> DEFINE r == [resumer[q] EXCEPT !.pc = "enqueue"]
<1>1. /\ r \in Resuming /\ r.pc = "enqueue" /\ r.interrupt \in Interrupts
      /\ r.interrupt = resumer[q].interrupt /\ r.event = resumer[q].event
      /\ resumer[q].pc = "agent"
  BY DEF FindEntryAgent, ResumerAt, InterruptInv, InterruptTypeOK, Resuming
<1>2. resumer' = [resumer EXCEPT ![q] = r]
  BY DEF FindEntryAgent, ResumerGoto
<1>3. UNCHANGED <<asking, requested, row, resumeLog, unstored, answers>>
  BY DEF FindEntryAgent
<1> HIDE DEF r
<1>4. QED
  BY <1>1, <1>2, <1>3, ResumerMovesInv

\* The only request that could queues the answer, and is done.
LEMMA EnqueueAnswerInv ==
  ASSUME InterruptInv, NEW q \in Resumers, EnqueueAnswer(q)
  PROVE  InterruptInv'
<1> DEFINE i == resumer[q].interrupt
<1>1. /\ i \in Interrupts /\ Winner(q) /\ answers[i] = 0 /\ row[i].status = "resolved"
      /\ \A p \in Resumers \ {q} : Winner(p) => resumer[p].interrupt # i
  BY DEF EnqueueAnswer, ResumerAt, InterruptInv, InterruptTypeOK, OneWinner, Winner
<1>2. /\ answers' = [answers EXCEPT ![i] = 1]
      /\ resumer' = [resumer EXCEPT ![q] = NoAnswer]
      /\ UNCHANGED <<asking, requested, row, resumeLog, unstored>>
  BY <1>1 DEF EnqueueAnswer, GiveUp, InterruptInv, InterruptTypeOK
<1>3. NoAnswer \in Resuming /\ NoAnswer.pc = "idle"
  BY InterruptAssumption DEF Resuming, NoAnswer
<1>4. InterruptTypeOK'
  BY <1>1, <1>2, <1>3 DEF InterruptInv, InterruptTypeOK, Resuming
<1>5. OneWinner'
  BY <1>1, <1>2, <1>3 DEF InterruptInv, InterruptTypeOK, OneWinner, Winner
<1>6. AnsweredOnce' /\ RecordsFit'
  BY <1>1, <1>2 DEF InterruptInv, InterruptTypeOK, AnsweredOnce, RecordsFit
<1>7. QED
  BY <1>2, <1>4, <1>5, <1>6 DEF InterruptInv, WritesInOrder, WidgetAnswerable

\* All requests are gone, and widgets not shown yet never will be.
LEMMA RestartInv ==
  ASSUME InterruptInv, InterruptRestart
  PROVE  InterruptInv'
BY InterruptAssumption
DEF InterruptInv, InterruptTypeOK, OneWinner, Winner, WritesInOrder, AnsweredOnce,
    RecordsFit, WidgetAnswerable, InterruptRestart, NoAnswer

\* Every step keeps the invariant.
LEMMA InterruptStepInv == InterruptInv /\ [InterruptNext]_interruptVars => InterruptInv'
<1> SUFFICES ASSUME InterruptInv, [InterruptNext]_interruptVars PROVE InterruptInv'
  OBVIOUS
<1>1. ASSUME NEW i \in Interrupts,
             Ask(i) \/ AppendRequest(i) \/ CreateRow(i) \/ PublishRequest(i)
      PROVE  InterruptInv'
  BY <1>1, AskInv, AppendRequestInv, CreateRowInv, PublishRequestInv
<1>2. ASSUME NEW q \in Resumers, NEW i \in Interrupts, Answer(q, i)
      PROVE  InterruptInv'
  BY <1>2, AnswerInv
<1>3. ASSUME NEW q \in Resumers,
             \/ LoadWithRequestEvent(q) \/ AppendResume(q) \/ MarkResolved(q)
             \/ FindEntryAgent(q) \/ EnqueueAnswer(q)
      PROVE  InterruptInv'
  BY <1>3, LoadInv, AppendResumeInv, MarkResolvedInv, FindEntryAgentInv, EnqueueAnswerInv
<1>4. ASSUME NEW q \in Resumers, FailAnswer(q)
      PROVE  InterruptInv'
  BY <1>4, GiveUpInv DEF FailAnswer
<1>5. CASE UNCHANGED interruptVars
  BY <1>5
  DEF interruptVars, InterruptInv, InterruptTypeOK, OneWinner, Winner, WritesInOrder,
      AnsweredOnce, RecordsFit, WidgetAnswerable
<1>6. QED
  BY <1>1, <1>2, <1>3, <1>4, <1>5, RestartInv DEF InterruptNext

-----------------------------------------------------------------------------

\* An interrupt is answered once and its records fit, however many requests answer it and
\* whatever fails (EventStream.persistAndPublish, ResumeInterrupt).
THEOREM AnsweredWell == InterruptSpec => []InterruptsAnswered
<1>1. InterruptInv => InterruptsAnswered
  BY DEF InterruptInv, InterruptsAnswered
<1>2. QED
  BY <1>1, InterruptInitInv, InterruptStepInv, PTL DEF InterruptSpec

\* Rows, logs and requests keep their types, and a request that resolves a row does so
\* with an event that the log has (ResumeInterrupt).
THEOREM InterruptsWellFormed == InterruptSpec => []InterruptTypeOK
<1>1. InterruptInv => InterruptTypeOK
  BY DEF InterruptInv
<1>2. QED
  BY <1>1, InterruptInitInv, InterruptStepInv, PTL DEF InterruptSpec

-----------------------------------------------------------------------------
(* The loop of a turn                                                      *)

\* What a turn has recorded: h is the transcript with what is about to join it, n the
\* rounds of it that have results.  Round r has its calls at 2 * r - 1.
CallsOf(h, r) == h[2 * r - 1].calls
TimeOf(h, r) == h[2 * r].at

Messages ==
  [kind : {"calls"}, calls : Rounds]
    \cup [kind : {"results"}, errs : UNION {[1..Len(r) -> BOOLEAN] : r \in Rounds},
          at : Nat, notes : SUBSET {"correction", "wrap_up"}]

\* Calls and results take turns, and there is a result for each call.
Paired(h, n) ==
  \A r \in 1..n :
    /\ h[2 * r - 1].kind = "calls" /\ CallsOf(h, r) \in Rounds
    /\ h[2 * r].kind = "results" /\ TimeOf(h, r) \in Nat
    /\ h[2 * r].errs \in [1..Len(CallsOf(h, r)) -> BOOLEAN]

RepeatIn(h, r) ==
  /\ r > 1 /\ Len(CallsOf(h, r)) = 1 /\ CallsOf(h, r) = CallsOf(h, r - 1)
  /\ TimeOf(h, r) - TimeOf(h, r - 1) <= TightWindow

RunIn(h, r, m) == \A k \in 0..(m - 2) : r - k > 0 /\ RepeatIn(h, r - k)

\* The failed calls of tool t among calls with these results.
Failed(round, errs, t) == {k \in 1..Len(round) : round[k].tool = t /\ errs[k]}

ErrorsIn(h, n, t) ==
  UNION {{<<2 * r - 1, k>> : k \in Failed(CallsOf(h, r), h[2 * r].errs, t)} : r \in 1..n}

NotedIn(h, n, note) == {i \in 1..(2 * n) : h[i].kind = "results" /\ note \in h[i].notes}

IsDirect(round) == ToolsOf(round) \cap ReturnDirectly # {}

\* The streak a breaker counts is the one at the end of the history.
Streak(b, h, n) ==
  /\ n = 0 => b.sameArgs = 0 /\ b.lastKey = None
  /\ n > 0 /\ Len(CallsOf(h, n)) # 1 => b.sameArgs = 0 /\ b.lastKey = None
  /\ n > 0 /\ Len(CallsOf(h, n)) = 1 =>
       /\ b.lastKey = CallsOf(h, n)[1] /\ b.lastAt = TimeOf(h, n) /\ b.sameArgs > 0
       /\ \A m \in Nat \ {0} : m <= b.sameArgs <=> RunIn(h, n, m)

Breakers == [errors : [LoopTools -> Nat], lastKey : {None} \cup {r[1] : r \in Rounds},
             sameArgs : Nat, lastAt : Nat \cup {None}, corrections : 0..CorrectionBudget]

-----------------------------------------------------------------------------
(* Rounds and histories                                                    *)

LEMMA RoundFits ==
  ASSUME NEW r \in Rounds
  PROVE  /\ Len(r) \in Nat \ {0} /\ \A k \in 1..Len(r) : r[k].tool \in LoopTools
         /\ r[1] # None
<1> DEFINE C == [tool : LoopTools, args : {q[1].args : q \in Rounds}]
<1>1. r \in Seq(C) /\ r # <<>>
  BY LoopAssumption
<1>2. \A c \in C : c.tool \in LoopTools
  OBVIOUS
<1> HIDE DEF C
<1>3. Len(r) \in Nat \ {0} /\ \A k \in 1..Len(r) : r[k] \in C
  BY <1>1
<1> QED
  BY <1>2, <1>3, LoopAssumption

\* Two rounds of one call are the same if the calls are.
LEMMA OneCallEach ==
  ASSUME NEW r \in Rounds, NEW s \in Rounds, Len(r) = 1, Len(s) = 1
  PROVE  r = s <=> r[1] = s[1]
<1> DEFINE C == [tool : LoopTools, args : {q[1].args : q \in Rounds}]
<1>1. r \in Seq(C) /\ s \in Seq(C)
  BY LoopAssumption
<1> HIDE DEF C
<1> QED
  BY <1>1

\* A history is judged by its rounds alone.
LEMMA SameRounds ==
  ASSUME NEW g, NEW h, NEW n \in Nat, \A i \in 1..(2 * n) : g[i] = h[i],
         NEW r \in 1..n
  PROVE  /\ CallsOf(g, r) = CallsOf(h, r) /\ TimeOf(g, r) = TimeOf(h, r)
         /\ g[2 * r] = h[2 * r] /\ g[2 * r - 1] = h[2 * r - 1]
<1>1. 2 * r \in 1..(2 * n) /\ 2 * r - 1 \in 1..(2 * n)
  OBVIOUS
<1> QED
  BY <1>1 DEF CallsOf, TimeOf

LEMMA SamePairs ==
  ASSUME NEW g, NEW h, NEW n \in Nat, \A i \in 1..(2 * n) : g[i] = h[i], Paired(h, n)
  PROVE  Paired(g, n)
<1> SUFFICES ASSUME NEW r \in 1..n
             PROVE  /\ g[2 * r - 1].kind = "calls" /\ CallsOf(g, r) \in Rounds
                    /\ g[2 * r].kind = "results" /\ TimeOf(g, r) \in Nat
                    /\ g[2 * r].errs \in [1..Len(CallsOf(g, r)) -> BOOLEAN]
  BY DEF Paired
<1>1. /\ CallsOf(g, r) = CallsOf(h, r) /\ TimeOf(g, r) = TimeOf(h, r)
      /\ g[2 * r] = h[2 * r] /\ g[2 * r - 1] = h[2 * r - 1]
  BY SameRounds
<1>2. /\ h[2 * r - 1].kind = "calls" /\ CallsOf(h, r) \in Rounds
      /\ h[2 * r].kind = "results" /\ TimeOf(h, r) \in Nat
      /\ h[2 * r].errs \in [1..Len(CallsOf(h, r)) -> BOOLEAN]
  BY DEF Paired
<1> QED
  BY <1>1, <1>2

LEMMA SameRuns ==
  ASSUME NEW g, NEW h, NEW n \in Nat, \A i \in 1..(2 * n) : g[i] = h[i],
         NEW r \in 1..n, NEW m \in Nat
  PROVE  RunIn(g, r, m) <=> RunIn(h, r, m)
<1>1. ASSUME NEW k \in Nat, r - k > 0
      PROVE  RepeatIn(g, r - k) <=> RepeatIn(h, r - k)
  <2>1. r - k \in 1..n
    BY <1>1
  <2>2. CallsOf(g, r - k) = CallsOf(h, r - k) /\ TimeOf(g, r - k) = TimeOf(h, r - k)
    BY <2>1, SameRounds
  <2>3. CASE r - k > 1
    <3>1. r - k - 1 \in 1..n
      BY <2>1, <2>3
    <3>2. /\ CallsOf(g, r - k - 1) = CallsOf(h, r - k - 1)
          /\ TimeOf(g, r - k - 1) = TimeOf(h, r - k - 1)
      BY <3>1, SameRounds
    <3> QED
      BY <2>2, <3>2 DEF RepeatIn
  <2>4. CASE ~(r - k > 1)
    BY <2>4 DEF RepeatIn
  <2> QED
    BY <2>3, <2>4
<1> QED
  BY <1>1 DEF RunIn

LEMMA SameStreak ==
  ASSUME NEW g, NEW h, NEW n \in Nat, \A i \in 1..(2 * n) : g[i] = h[i],
         NEW b, Streak(b, h, n)
  PROVE  Streak(b, g, n)
<1>1. CASE n = 0
  BY <1>1 DEF Streak
<1>2. CASE n > 0
  <2>1. n \in 1..n
    BY <1>2
  <2>2. CallsOf(g, n) = CallsOf(h, n) /\ TimeOf(g, n) = TimeOf(h, n)
    BY <2>1, SameRounds
  <2>3. \A m \in Nat : RunIn(g, n, m) <=> RunIn(h, n, m)
    BY <2>1, SameRuns
  <2> QED
    BY <1>2, <2>2, <2>3 DEF Streak
<1> QED
  BY <1>1, <1>2

LEMMA SameErrors ==
  ASSUME NEW g, NEW h, NEW n \in Nat, \A i \in 1..(2 * n) : g[i] = h[i], NEW t
  PROVE  ErrorsIn(g, n, t) = ErrorsIn(h, n, t)
<1>1. \A r \in 1..n : Failed(CallsOf(g, r), g[2 * r].errs, t) = Failed(CallsOf(h, r), h[2 * r].errs, t)
  BY SameRounds
<1> QED
  BY <1>1 DEF ErrorsIn

LEMMA SameNotes ==
  ASSUME NEW g, NEW h, NEW n \in Nat, \A i \in 1..(2 * n) : g[i] = h[i], NEW note
  PROVE  NotedIn(g, n, note) = NotedIn(h, n, note)
BY DEF NotedIn

-----------------------------------------------------------------------------
(* Loop breakers                                                           *)

\* A round that is answered now, after n others.
Extends(g, h, n, r, errs) ==
  /\ \A i \in 1..(2 * n) : g[i] = h[i]
  /\ g[2 * n + 1].kind = "calls" /\ g[2 * n + 1].calls = r
  /\ g[2 * n + 2].kind = "results" /\ g[2 * n + 2].errs = errs /\ g[2 * n + 2].at = now'

LEMMA LastRound ==
  ASSUME NEW g, NEW h, NEW n \in Nat, NEW r, NEW errs, Extends(g, h, n, r, errs)
  PROVE  /\ CallsOf(g, n + 1) = r /\ TimeOf(g, n + 1) = now'
         /\ g[2 * (n + 1)] = g[2 * n + 2] /\ g[2 * (n + 1) - 1] = g[2 * n + 1]
<1>1. 2 * (n + 1) = 2 * n + 2 /\ 2 * (n + 1) - 1 = 2 * n + 1
  OBVIOUS
<1> QED
  BY <1>1 DEF Extends, CallsOf, TimeOf

LEMMA RoundBefore ==
  ASSUME NEW g, NEW h, NEW n \in Nat, NEW r, NEW errs, Extends(g, h, n, r, errs), n > 0
  PROVE  CallsOf(g, n + 1 - 1) = CallsOf(h, n) /\ TimeOf(g, n + 1 - 1) = TimeOf(h, n)
<1>1. n \in 1..n /\ \A i \in 1..(2 * n) : g[i] = h[i]
  BY DEF Extends
<1>2. CallsOf(g, n) = CallsOf(h, n) /\ TimeOf(g, n) = TimeOf(h, n)
  BY <1>1, SameRounds
<1>3. n + 1 - 1 = n
  OBVIOUS
<1> QED
  BY <1>2, <1>3, Zenon

LEMMA MorePairs ==
  ASSUME NEW g, NEW h, NEW n \in Nat, NEW r \in Rounds, NEW errs \in [1..Len(r) -> BOOLEAN],
         Extends(g, h, n, r, errs), Paired(h, n), now' \in Nat
  PROVE  Paired(g, n + 1)
<1>1. Paired(g, n)
  BY SamePairs DEF Extends
<1>2. \A q \in 1..(n + 1) : q \in 1..n \/ q = n + 1
  OBVIOUS
<1>3. /\ CallsOf(g, n + 1) = r /\ TimeOf(g, n + 1) = now'
      /\ g[2 * (n + 1)] = g[2 * n + 2] /\ g[2 * (n + 1) - 1] = g[2 * n + 1]
  BY LastRound
<1>4. /\ g[2 * n + 1].kind = "calls" /\ g[2 * n + 2].kind = "results" /\ g[2 * n + 2].errs = errs
  BY DEF Extends
<1>5. /\ g[2 * (n + 1) - 1].kind = "calls" /\ CallsOf(g, n + 1) \in Rounds
      /\ g[2 * (n + 1)].kind = "results" /\ TimeOf(g, n + 1) \in Nat
      /\ g[2 * (n + 1)].errs \in [1..Len(CallsOf(g, n + 1)) -> BOOLEAN]
  BY <1>3, <1>4
<1> QED
  BY <1>1, <1>2, <1>5 DEF Paired

\* A run that ends with the new round is a repeat after a run one shorter.
LEMMA LongerRun ==
  ASSUME NEW g, NEW h, NEW n \in Nat, NEW r, NEW errs, Extends(g, h, n, r, errs),
         NEW m \in Nat, m > 1
  PROVE  RunIn(g, n + 1, m) <=> n > 0 /\ RepeatIn(g, n + 1) /\ RunIn(h, n, m - 1)
<1>1. ASSUME RunIn(g, n + 1, m)
      PROVE  n > 0 /\ RepeatIn(g, n + 1) /\ RunIn(g, n, m - 1)
  <2>1. RepeatIn(g, n + 1)
    <3>1. 0 \in 0..(m - 2) /\ n + 1 - 0 = n + 1
      OBVIOUS
    <3> QED
      BY <1>1, <3>1 DEF RunIn
  <2>2. n > 0
    BY <2>1 DEF RepeatIn
  <2>3. ASSUME NEW k \in 0..(m - 1 - 2)
        PROVE  n - k > 0 /\ RepeatIn(g, n - k)
    <3>1. k + 1 \in 0..(m - 2) /\ n + 1 - (k + 1) = n - k
      OBVIOUS
    <3> QED
      BY <1>1, <3>1 DEF RunIn
  <2> QED
    BY <2>1, <2>2, <2>3 DEF RunIn
<1>2. ASSUME n > 0, RepeatIn(g, n + 1), RunIn(g, n, m - 1)
      PROVE  RunIn(g, n + 1, m)
  <2> SUFFICES ASSUME NEW k \in 0..(m - 2)
               PROVE  n + 1 - k > 0 /\ RepeatIn(g, n + 1 - k)
    BY DEF RunIn
  <2>1. CASE k = 0
    <3>1. n + 1 - k = n + 1
      BY <2>1
    <3> QED
      BY <1>2, <3>1
  <2>2. CASE k > 0
    <3>1. k - 1 \in 0..(m - 1 - 2) /\ n + 1 - k = n - (k - 1)
      BY <2>2
    <3> QED
      BY <1>2, <3>1 DEF RunIn
  <2> QED
    BY <2>1, <2>2
<1>3. n > 0 => (RunIn(g, n, m - 1) <=> RunIn(h, n, m - 1))
  BY SameRuns DEF Extends
<1> QED
  BY <1>1, <1>2, <1>3

\* detectLoop counts the new round into the streak when it repeats the last one.
LEMMA StreakGoesOn ==
  ASSUME NEW g, NEW h, NEW n \in Nat, NEW r \in Rounds, NEW errs, Extends(g, h, n, r, errs),
         Paired(h, n), breaker \in Breakers, Streak(breaker, h, n), now' \in Nat,
         NEW b, b = CountSameArgs(breaker, r)
  PROVE  /\ b \in Breakers /\ Streak(b, g, n + 1)
         /\ b.sameArgs <= breaker.sameArgs + 1
         /\ Len(r) # 1 => b.sameArgs = 0
         /\ b.errors = breaker.errors /\ b.corrections = breaker.corrections
<1> DEFINE tight == n > 0 /\ RepeatIn(g, n + 1)
<1>0. /\ CallsOf(g, n + 1) = r /\ TimeOf(g, n + 1) = now'
      /\ Len(r) \in Nat \ {0} /\ r[1] # None
  BY LastRound, RoundFits
<1>1. CASE Len(r) # 1
  <2>1. b = [breaker EXCEPT !.lastKey = None, !.sameArgs = 0]
    BY <1>1 DEF CountSameArgs
  <2>2. /\ b \in Breakers /\ b.lastKey = None /\ b.sameArgs = 0
        /\ b.errors = breaker.errors /\ b.corrections = breaker.corrections
        /\ breaker.sameArgs \in Nat
    <3>1. b.errors = breaker.errors /\ b.corrections = breaker.corrections
      BY <2>1 DEF Breakers
    <3>2. b.lastKey = None /\ b.sameArgs = 0 /\ breaker.sameArgs \in Nat
      BY <2>1 DEF Breakers
    <3>3. b \in Breakers
      BY <2>1, 0 \in Nat DEF Breakers
    <3> QED
      BY <3>1, <3>2, <3>3
  <2>3. Streak(b, g, n + 1)
    BY <1>0, <1>1, <2>2 DEF Streak
  <2> QED
    BY <2>2, <2>3
<1>2. CASE Len(r) = 1
  <2> DEFINE same == breaker.lastKey = r[1] /\ breaker.lastAt # None
             close == IF same THEN now' - breaker.lastAt <= TightWindow ELSE FALSE
  <2>1. b = [breaker EXCEPT !.sameArgs = IF close THEN @ + 1 ELSE 1,
                            !.lastKey = r[1], !.lastAt = now']
    BY <1>2 DEF CountSameArgs
  <2>2. /\ b.sameArgs = IF close THEN breaker.sameArgs + 1 ELSE 1
        /\ b.lastKey = r[1] /\ b.lastAt = now'
        /\ b.errors = breaker.errors /\ b.corrections = breaker.corrections
        /\ breaker.sameArgs \in Nat /\ b \in Breakers
    <3> HIDE DEF close
    <3>1. PICK s : s = IF close THEN breaker.sameArgs + 1 ELSE 1
      OBVIOUS
    <3>2. breaker.sameArgs \in Nat /\ s \in Nat
      BY <3>1 DEF Breakers
    <3>3. b = [breaker EXCEPT !.sameArgs = s, !.lastKey = r[1], !.lastAt = now']
      BY <2>1, <3>1
    <3>4. b \in Breakers
      BY <3>2, <3>3 DEF Breakers
    <3>5. /\ b.sameArgs = s /\ b.lastKey = r[1] /\ b.lastAt = now'
          /\ b.errors = breaker.errors /\ b.corrections = breaker.corrections
      BY <3>3 DEF Breakers
    <3> QED
      BY <3>1, <3>2, <3>4, <3>5
  <2>3. close <=> tight
    <3>1. CASE n = 0
      BY <1>0, <3>1 DEF Streak
    <3>2. CASE n > 0 /\ Len(CallsOf(h, n)) # 1
      <4>1. breaker.lastKey = None
        BY <3>2 DEF Streak
      <4>2. CallsOf(g, n + 1 - 1) = CallsOf(h, n)
        BY <3>2, RoundBefore
      <4>3. ~RepeatIn(g, n + 1)
        BY <1>0, <1>2, <3>2, <4>2 DEF RepeatIn
      <4> QED
        BY <1>0, <4>1, <4>3
    <3>3. CASE n > 0 /\ Len(CallsOf(h, n)) = 1
      <4>1. n \in 1..n /\ n + 1 - 1 = n /\ n + 1 > 1
        BY <3>3
      <4>2. CallsOf(g, n + 1 - 1) = CallsOf(h, n) /\ TimeOf(g, n + 1 - 1) = TimeOf(h, n)
        BY <3>3, RoundBefore
      <4>3. /\ breaker.lastKey = CallsOf(h, n)[1] /\ breaker.lastAt = TimeOf(h, n)
            /\ CallsOf(h, n) \in Rounds /\ TimeOf(h, n) \in Nat
        BY <3>3, <4>1 DEF Streak, Paired
      <4>4. breaker.lastAt # None
        BY <4>3, LoopAssumption
      <4>5. r = CallsOf(h, n) <=> r[1] = CallsOf(h, n)[1]
        BY <1>2, <3>3, <4>3, OneCallEach
      <4>6. RepeatIn(g, n + 1) <=> r = CallsOf(h, n) /\ now' - TimeOf(h, n) <= TightWindow
        BY <1>0, <1>2, <4>1, <4>2 DEF RepeatIn
      <4> QED
        BY <3>3, <4>3, <4>4, <4>5, <4>6
    <3> QED
      BY <3>1, <3>2, <3>3
  <2> HIDE DEF close, same
  <2>4. ASSUME NEW m \in Nat \ {0}
        PROVE  m <= b.sameArgs <=> RunIn(g, n + 1, m)
    <3>1. CASE m = 1
      <4>1. 0..(m - 2) = {}
        BY <3>1
      <4>2. RunIn(g, n + 1, m)
        BY <4>1 DEF RunIn
      <4>3. b.sameArgs >= 1
        BY <2>2
      <4> QED
        BY <2>2, <3>1, <4>2, <4>3
    <3>2. CASE m > 1
      <4>1. RunIn(g, n + 1, m) <=> n > 0 /\ RepeatIn(g, n + 1) /\ RunIn(h, n, m - 1)
        BY <3>2, LongerRun
      <4>2. CASE ~tight
        BY <2>2, <2>3, <3>2, <4>1, <4>2
      <4>3. CASE tight
        <5>1. n \in 1..n /\ n + 1 - 1 = n
          BY <4>3
        <5>2. Len(CallsOf(h, n)) = 1
          <6>1. CallsOf(g, n + 1 - 1) = CallsOf(h, n)
            BY <4>3, RoundBefore
          <6> QED
            BY <1>0, <1>2, <4>3, <6>1 DEF RepeatIn
        <5>3. m - 1 \in Nat \ {0}
          BY <3>2
        <5>4. m - 1 <= breaker.sameArgs <=> RunIn(h, n, m - 1)
          BY <4>3, <5>2, <5>3 DEF Streak
        <5> QED
          BY <2>2, <2>3, <4>1, <4>3, <5>4
      <4> QED
        BY <4>2, <4>3
    <3> QED
      BY <3>1, <3>2
  <2>5. b.sameArgs > 0 /\ b.sameArgs <= breaker.sameArgs + 1
    BY <2>2
  <2>6. Streak(b, g, n + 1)
    BY <1>0, <1>2, <2>2, <2>4, <2>5 DEF Streak
  <2> QED
    BY <1>2, <2>2, <2>5, <2>6
<1> QED
  BY <1>1, <1>2

LEMMA FailedFinite ==
  ASSUME NEW r \in Rounds, NEW errs, NEW t
  PROVE  IsFiniteSet(Failed(r, errs, t)) /\ Cardinality(Failed(r, errs, t)) \in Nat
<1>1. IsFiniteSet(1..Len(r))
  BY RoundFits, FS_Interval
<1>2. Failed(r, errs, t) \in SUBSET (1..Len(r))
  BY DEF Failed
<1> QED
  BY <1>1, <1>2, FS_Subset, FS_CardinalityType

\* The errors of the new round are counted with those before.
LEMMA MoreErrors ==
  ASSUME NEW g, NEW h, NEW n \in Nat, NEW r \in Rounds, NEW errs, NEW t,
         Extends(g, h, n, r, errs), IsFiniteSet(ErrorsIn(h, n, t))
  PROVE  /\ IsFiniteSet(ErrorsIn(g, n + 1, t))
         /\ Cardinality(ErrorsIn(g, n + 1, t)) =
              Cardinality(ErrorsIn(h, n, t)) + Cardinality(Failed(r, errs, t))
<1> DEFINE new == {<<2 * n + 1, k>> : k \in Failed(r, errs, t)}
<1>1. ErrorsIn(g, n + 1, t) = ErrorsIn(h, n, t) \cup new
  <2>1. \A i \in 1..(2 * n) : g[i] = h[i]
    BY DEF Extends
  <2>2. ErrorsIn(g, n, t) = ErrorsIn(h, n, t)
    BY <2>1, SameErrors
  <2>3. Failed(CallsOf(g, n + 1), g[2 * (n + 1)].errs, t) = Failed(r, errs, t)
    BY LastRound DEF Extends
  <2>4. {<<2 * (n + 1) - 1, k>> : k \in Failed(CallsOf(g, n + 1), g[2 * (n + 1)].errs, t)} = new
    <3>1. 2 * (n + 1) - 1 = 2 * n + 1
      OBVIOUS
    <3> QED
      BY <2>3, <3>1
  <2> DEFINE of(q) == {<<2 * q - 1, k>> : k \in Failed(CallsOf(g, q), g[2 * q].errs, t)}
  <2>5. /\ ErrorsIn(g, n + 1, t) = UNION {of(q) : q \in 1..(n + 1)}
        /\ ErrorsIn(g, n, t) = UNION {of(q) : q \in 1..n} /\ of(n + 1) = new
    BY <2>4 DEF ErrorsIn
  <2>6. \A q : q \in 1..(n + 1) <=> q \in 1..n \/ q = n + 1
    OBVIOUS
  <2> HIDE DEF of, new
  <2>7. UNION {of(q) : q \in 1..(n + 1)} = (UNION {of(q) : q \in 1..n}) \cup of(n + 1)
    BY <2>6
  <2> QED
    BY <2>2, <2>5, <2>7
<1>2. ErrorsIn(h, n, t) \cap new = {}
  <2> SUFFICES ASSUME NEW e \in ErrorsIn(h, n, t), e \in new
               PROVE  FALSE
    OBVIOUS
  <2>1. PICK q \in 1..n : e \in {<<2 * q - 1, k>> : k \in Failed(CallsOf(h, q), h[2 * q].errs, t)}
    BY DEF ErrorsIn
  <2>2. e[1] = 2 * q - 1
    BY <2>1
  <2>3. e[1] = 2 * n + 1
    OBVIOUS
  <2> QED
    BY <2>2, <2>3
<1>3. IsFiniteSet(new) /\ Cardinality(new) = Cardinality(Failed(r, errs, t))
  <2> DEFINE f == [k \in Failed(r, errs, t) |-> <<2 * n + 1, k>>]
  <2>1. f \in [Failed(r, errs, t) -> new]
    OBVIOUS
  <2>2. ASSUME NEW j \in Failed(r, errs, t), NEW k \in Failed(r, errs, t), f[j] = f[k]
        PROVE  j = k
    BY <2>2
  <2>3. \A e \in new : \E k \in Failed(r, errs, t) : f[k] = e
    OBVIOUS
  <2> HIDE DEF f, new
  <2>4. f \in Bijection(Failed(r, errs, t), new)
    BY <2>1, <2>2, <2>3 DEF Bijection, Injection, Surjection, IsInjective
  <2>5. ExistsBijection(Failed(r, errs, t), new)
    BY <2>4 DEF ExistsBijection
  <2> QED
    BY <2>5, FailedFinite, FS_Bijection
<1> HIDE DEF new
<1>4. /\ IsFiniteSet(ErrorsIn(h, n, t) \cup new)
      /\ Cardinality(ErrorsIn(h, n, t) \cup new) =
           Cardinality(ErrorsIn(h, n, t)) + Cardinality(new) - Cardinality(ErrorsIn(h, n, t) \cap new)
  BY <1>3, FS_Union
<1>5. Cardinality({}) = 0
  BY FS_EmptySet
<1>6. Cardinality(ErrorsIn(h, n, t)) \in Nat /\ Cardinality(Failed(r, errs, t)) \in Nat
  BY FS_CardinalityType, FailedFinite
<1> QED
  BY <1>1, <1>2, <1>3, <1>4, <1>5, <1>6

\* A tool's errors in a row are some of its errors.
LEMMA InARowFailed ==
  ASSUME NEW b \in Breakers, NEW r \in Rounds, NEW errs \in [1..Len(r) -> BOOLEAN],
         NEW t \in LoopTools, NEW k \in 0..Len(r)
  PROVE  /\ ErrorsInARow(b, r, errs, t, k) \in Nat
         /\ ErrorsInARow(b, r, errs, t, k) <= b.errors[t] + Cardinality(Failed(r, errs, t))
<1> DEFINE mine == {i \in 1..k : r[i].tool = t}
           good == {i \in mine : ~errs[i]}
           last == {i \in mine : \A j \in good : j < i}
<1>1. Len(r) \in Nat
  BY RoundFits
<1>2. last \in SUBSET Failed(r, errs, t)
  <2> SUFFICES ASSUME NEW i \in last
               PROVE  i \in Failed(r, errs, t)
    OBVIOUS
  <2>1. i \in 1..Len(r) /\ r[i].tool = t
    BY <1>1
  <2>2. i \notin good
    OBVIOUS
  <2> QED
    BY <2>1, <2>2 DEF Failed
<1>3. Cardinality(last) \in Nat /\ Cardinality(last) <= Cardinality(Failed(r, errs, t))
  <2> HIDE DEF last
  <2> QED
    BY <1>2, FailedFinite, FS_Subset, FS_CardinalityType
<1>4. b.errors[t] \in Nat /\ Cardinality(Failed(r, errs, t)) \in Nat
  BY FailedFinite DEF Breakers
<1>5. ErrorsInARow(b, r, errs, t, k) = (IF good = {} THEN b.errors[t] ELSE 0) + Cardinality(last)
  BY DEF ErrorsInARow
<1> HIDE DEF last, good
<1> QED
  BY <1>3, <1>4, <1>5

\* The pass over the results, wherever it ends.
LEMMA ErrorsCounted ==
  ASSUME NEW b \in Breakers, NEW r \in Rounds, NEW errs \in [1..Len(r) -> BOOLEAN],
         NEW found, found = CountErrors(b, r, errs)
  PROVE  /\ found.counters \in Breakers
         /\ found.counters.sameArgs = b.sameArgs /\ found.counters.lastKey = b.lastKey
         /\ found.counters.lastAt = b.lastAt /\ found.counters.corrections = b.corrections
         /\ \A t \in LoopTools :
              found.counters.errors[t] <= b.errors[t] + Cardinality(Failed(r, errs, t))
         /\ found.reason \in {None, "tool_errors"}
         /\ found.reason = "tool_errors" =>
              \E t \in LoopTools :
                ErrLoopThreshold <= b.errors[t] + Cardinality(Failed(r, errs, t))
<1> DEFINE over == {i \in 1..Len(r) : ErrorsInARow(b, r, errs, r[i].tool, i) >= ErrLoopThreshold}
           until == {i \in 1..Len(r) : \A j \in over : i <= j}
           read == Cardinality(until)
           errors == [t \in LoopTools |-> ErrorsInARow(b, r, errs, t, read)]
<1>1. found = [counters |-> [b EXCEPT !.errors = errors],
               reason |-> IF over = {} THEN None ELSE "tool_errors"]
  BY DEF CountErrors
<1>2. Len(r) \in Nat /\ \A k \in 1..Len(r) : r[k].tool \in LoopTools
  BY RoundFits
<1>3. read \in 0..Len(r)
  <2>1. until \in SUBSET (1..Len(r))
    OBVIOUS
  <2>2. IsFiniteSet(1..Len(r)) /\ Cardinality(1..Len(r)) = Len(r)
    <3>1. 1 \in Int /\ Len(r) \in Int /\ Len(r) - 1 + 1 = Len(r) /\ (1 > Len(r) => Len(r) = 0)
      BY <1>2
    <3> QED
      BY <3>1, FS_Interval
  <2> HIDE DEF until
  <2>3. Cardinality(until) \in Nat /\ Cardinality(until) <= Len(r)
    <3>1. IsFiniteSet(until) /\ Cardinality(until) <= Cardinality(1..Len(r))
      BY <2>1, <2>2, FS_Subset
    <3> QED
      BY <2>2, <3>1, FS_CardinalityType
  <2> QED
    BY <1>2, <2>3
<1> HIDE DEF read
<1>4. \A t \in LoopTools : /\ errors[t] \in Nat
                           /\ errors[t] <= b.errors[t] + Cardinality(Failed(r, errs, t))
  BY <1>3, InARowFailed
<1>5. errors \in [LoopTools -> Nat]
  BY <1>4
<1>6. over # {} => \E t \in LoopTools :
                     ErrLoopThreshold <= b.errors[t] + Cardinality(Failed(r, errs, t))
  <2> SUFFICES ASSUME NEW i \in over
               PROVE  \E t \in LoopTools :
                        ErrLoopThreshold <= b.errors[t] + Cardinality(Failed(r, errs, t))
    OBVIOUS
  <2>1. i \in 0..Len(r) /\ r[i].tool \in LoopTools
    BY <1>2
  <2> DEFINE t == r[i].tool
  <2>2. /\ ErrorsInARow(b, r, errs, t, i) \in Nat
        /\ ErrorsInARow(b, r, errs, t, i) <= b.errors[t] + Cardinality(Failed(r, errs, t))
    BY <2>1, InARowFailed
  <2>3. ErrorsInARow(b, r, errs, t, i) >= ErrLoopThreshold
    OBVIOUS
  <2>4. b.errors[t] \in Nat /\ Cardinality(Failed(r, errs, t)) \in Nat /\ ErrLoopThreshold \in Nat
    BY <2>1, FailedFinite, LoopAssumption DEF Breakers
  <2>5. t \in LoopTools
    BY <2>1
  <2> HIDE DEF t, over
  <2>6. ErrLoopThreshold <= b.errors[t] + Cardinality(Failed(r, errs, t))
    BY <2>2, <2>3, <2>4
  <2> QED
    BY <2>5, <2>6
<1> HIDE DEF over, errors
<1>7. /\ found.counters = [b EXCEPT !.errors = errors]
      /\ found.reason = IF over = {} THEN None ELSE "tool_errors"
  BY <1>1
<1>8. found.counters \in Breakers
  BY <1>5, <1>7 DEF Breakers
<1>9. /\ found.counters.sameArgs = b.sameArgs /\ found.counters.lastKey = b.lastKey
      /\ found.counters.lastAt = b.lastAt /\ found.counters.corrections = b.corrections
      /\ found.counters.errors = errors
  BY <1>7 DEF Breakers
<1> QED
  BY <1>4, <1>6, <1>7, <1>8, <1>9, LoopAssumption

\* What applyLoopPolicy makes of a round that repeats or fails.
LEMMA PolicyApplied ==
  ASSUME NEW g, NEW h, NEW n \in Nat, NEW r \in Rounds, NEW errs \in [1..Len(r) -> BOOLEAN],
         Extends(g, h, n, r, errs), Paired(h, n), now' \in Nat,
         breaker \in Breakers, Streak(breaker, h, n), terminal = None,
         NEW policy, policy = LoopPolicy(r, errs)
  PROVE  /\ policy.counters \in Breakers /\ Streak(policy.counters, g, n + 1)
         /\ policy.counters.sameArgs <= breaker.sameArgs + 1
         /\ \A t \in LoopTools : policy.counters.errors[t]
              <= breaker.errors[t] + Cardinality(Failed(r, errs, t))
         /\ policy.nudge \in BOOLEAN
         /\ policy.nudge => policy.counters.corrections = breaker.corrections + 1
         /\ ~policy.nudge => policy.counters.corrections = breaker.corrections
         /\ policy.terminal \in {None} \cup LoopReasons
         /\ policy.terminal # None => ~policy.nudge /\ breaker.corrections = CorrectionBudget
         /\ policy.terminal = "same_args" => policy.counters.sameArgs >= SameArgsThreshold
         /\ policy.terminal = "tool_errors" =>
              \E t \in LoopTools :
                ErrLoopThreshold <= breaker.errors[t] + Cardinality(Failed(r, errs, t))
         /\ policy.terminal = None =>
              policy.nudge \/ policy.counters.sameArgs < SameArgsThreshold
<1> DEFINE b == CountSameArgs(breaker, r)
           found == DetectLoop(r, errs)
           nudge == found.reason # None /\ breaker.corrections < CorrectionBudget
<1>1. /\ b \in Breakers /\ Streak(b, g, n + 1)
      /\ b.sameArgs <= breaker.sameArgs + 1
      /\ Len(r) # 1 => b.sameArgs = 0
      /\ b.errors = breaker.errors /\ b.corrections = breaker.corrections
  BY StreakGoesOn
<1>2. found = IF Len(r) = 1 /\ b.sameArgs >= SameArgsThreshold
              THEN [counters |-> b, reason |-> "same_args"]
              ELSE CountErrors(b, r, errs)
  BY DEF DetectLoop
<1> HIDE DEF b, found
<1>3. /\ found.counters \in Breakers
      /\ found.counters.sameArgs = b.sameArgs /\ found.counters.lastKey = b.lastKey
      /\ found.counters.lastAt = b.lastAt /\ found.counters.corrections = b.corrections
      /\ \A t \in LoopTools :
           found.counters.errors[t] <= breaker.errors[t] + Cardinality(Failed(r, errs, t))
      /\ found.reason \in {None} \cup LoopReasons
      /\ found.reason = "same_args" => b.sameArgs >= SameArgsThreshold
      /\ found.reason = "tool_errors" =>
           \E t \in LoopTools :
             ErrLoopThreshold <= breaker.errors[t] + Cardinality(Failed(r, errs, t))
      /\ found.reason = None => b.sameArgs < SameArgsThreshold
  <2>1. SameArgsThreshold \in Nat \ {0} /\ b.sameArgs \in Nat
    BY <1>1, LoopAssumption DEF Breakers
  <2>2. CASE Len(r) = 1 /\ b.sameArgs >= SameArgsThreshold
    <3>1. found.counters = b /\ found.reason = "same_args"
      BY <1>2, <2>2
    <3>2. \A t \in LoopTools : /\ breaker.errors[t] \in Nat
                               /\ Cardinality(Failed(r, errs, t)) \in Nat
      BY FailedFinite DEF Breakers
    <3>3. \A t \in LoopTools : b.errors[t] <= breaker.errors[t] + Cardinality(Failed(r, errs, t))
      BY <1>1, <3>2
    <3> QED
      BY <1>1, <2>2, <3>1, <3>3, LoopAssumption DEF LoopReasons
  <2>3. CASE ~(Len(r) = 1 /\ b.sameArgs >= SameArgsThreshold)
    <3>1. found = CountErrors(b, r, errs)
      BY <1>2, <2>3
    <3>2. /\ found.counters \in Breakers
          /\ found.counters.sameArgs = b.sameArgs /\ found.counters.lastKey = b.lastKey
          /\ found.counters.lastAt = b.lastAt /\ found.counters.corrections = b.corrections
          /\ \A t \in LoopTools :
               found.counters.errors[t] <= b.errors[t] + Cardinality(Failed(r, errs, t))
          /\ found.reason \in {None, "tool_errors"}
          /\ found.reason = "tool_errors" =>
               \E t \in LoopTools :
                 ErrLoopThreshold <= b.errors[t] + Cardinality(Failed(r, errs, t))
      BY <1>1, <3>1, ErrorsCounted
    <3>3. b.sameArgs < SameArgsThreshold
      BY <1>1, <2>1, <2>3
    <3> QED
      BY <1>1, <3>2, <3>3, LoopAssumption DEF LoopReasons
  <2> QED
    BY <2>2, <2>3
<1>4. Streak(found.counters, g, n + 1)
  BY <1>1, <1>3 DEF Streak
<1>5. policy = [counters |-> IF nudge THEN [found.counters EXCEPT !.corrections = @ + 1]
                             ELSE found.counters,
                nudge |-> nudge,
                terminal |-> IF found.reason # None /\ ~nudge /\ terminal = None
                             THEN found.reason ELSE terminal]
  BY DEF LoopPolicy, found
<1> HIDE DEF nudge
<1>6. /\ policy.counters = IF nudge THEN [found.counters EXCEPT !.corrections = @ + 1]
                           ELSE found.counters
      /\ policy.nudge = nudge
      /\ policy.terminal = IF found.reason # None /\ ~nudge THEN found.reason ELSE None
  BY <1>5
<1>7. /\ nudge \in BOOLEAN /\ (nudge => breaker.corrections < CorrectionBudget)
      /\ nudge => found.reason # None
      /\ found.reason # None /\ ~nudge => ~(breaker.corrections < CorrectionBudget)
  BY DEF nudge
<1>8. breaker.corrections \in 0..CorrectionBudget /\ CorrectionBudget \in Nat
  BY LoopAssumption DEF Breakers
<1>9. /\ policy.counters.sameArgs = b.sameArgs /\ policy.counters.lastKey = b.lastKey
      /\ policy.counters.lastAt = b.lastAt
      /\ policy.counters.errors = found.counters.errors
      /\ policy.counters.corrections = IF nudge THEN breaker.corrections + 1 ELSE breaker.corrections
      /\ policy.counters \in Breakers
  <2>1. CASE ~nudge
    BY <1>1, <1>3, <1>6, <2>1
  <2>2. CASE nudge
    <3>1. policy.counters = [found.counters EXCEPT !.corrections = @ + 1]
      BY <1>6, <2>2
    <3>2. found.counters.corrections + 1 \in 0..CorrectionBudget
      BY <1>1, <1>3, <1>7, <1>8, <2>2
    <3>3. policy.counters \in Breakers
      BY <1>3, <3>1, <3>2 DEF Breakers
    <3>4. /\ policy.counters.sameArgs = found.counters.sameArgs
          /\ policy.counters.lastKey = found.counters.lastKey
          /\ policy.counters.lastAt = found.counters.lastAt
          /\ policy.counters.errors = found.counters.errors
          /\ policy.counters.corrections = found.counters.corrections + 1
      BY <1>3, <3>1 DEF Breakers
    <3> QED
      BY <1>1, <1>3, <2>2, <3>3, <3>4
  <2> QED
    BY <2>1, <2>2
<1>10. Streak(policy.counters, g, n + 1)
  BY <1>3, <1>4, <1>9 DEF Streak
<1>11. policy.terminal # None => ~nudge /\ breaker.corrections = CorrectionBudget
  BY <1>6, <1>7, <1>8
<1>12. policy.terminal = None => found.reason = None \/ nudge
  BY <1>6
<1>13. policy.terminal # None => policy.terminal = found.reason
  BY <1>6
<1>14. None \notin {"same_args", "tool_errors"}
  BY LoopAssumption
<1> QED
  BY <1>1, <1>3, <1>6, <1>7, <1>9, <1>10, <1>11, <1>12, <1>13, <1>14

-----------------------------------------------------------------------------
(* The invariant of a turn                                                 *)

Going == node \in {"chat", "tools"}
DirectEnds == {"direct_return", "direct", "backstop", "deadline", "failed"}

\* The walls that the step and the time of a turn run into come one after the other:
\* the routing ends the turn before eino's.
WithinWalls ==
  /\ maxSteps > 0 =>
       /\ node # "backstop" /\ step <= maxSteps
       /\ node \in {"chat", "direct_return"} => visits <= 2 * step
       /\ node = "tools" => step < maxSteps /\ visits <= 2 * step + 1
       /\ node = "chat_to_finalize" => visits <= 2 * step + 1
       /\ node = "finalize" => visits <= 2 * step + 2
  /\ Going => terminal = None
  /\ node = "chat_to_finalize" => terminal \in Walls
  /\ terminal \in Walls => Len(transcript) = 2 * step

LoopShape ==
  /\ node \in {"chat", "tools", "finalize", "direct_return", "chat_to_finalize"} \cup Ended
  /\ maxSteps \in Nat /\ step \in Nat /\ visits \in Nat /\ now \in Nat
  /\ terminal \in {None} \cup LoopReasons \cup Walls
  /\ softNoted \in BOOLEAN /\ breaker \in Breakers
  /\ transcript \in Seq(Messages) /\ output \in Seq(Messages) /\ Len(output) <= 1
  /\ Len(transcript) \in {2 * step, 2 * step - 1}
  /\ Len(transcript) + Len(output) \in {2 * step, 2 * step + 1}
  /\ node \in {"chat", "finalize", "answered", "finalized", "silent", "direct_return", "direct"} =>
       Len(transcript) + Len(output) = 2 * step
  /\ node \in {"tools", "chat_to_finalize"} =>
       Len(transcript) = 2 * step /\ Len(output) = 1 /\ output[1].kind = "calls"

\* The tool-error half of the evidence is in the counters, the other in the history.
Looped(h, n) ==
  /\ n > 0 /\ breaker.corrections = CorrectionBudget
  /\ CorrectionBudget <= Cardinality(NotedIn(h, n - 1, "correction"))
  /\ terminal = "same_args" => RunIn(h, n, SameArgsThreshold)
  /\ terminal = "tool_errors" =>
       \E t \in LoopTools : ErrLoopThreshold <= Cardinality(ErrorsIn(h, n, t))

\* The breaker knows how often the turn failed and repeated, each repeat beyond the
\* threshold has cost a correction, and the note was given before the last round.
History(h, n) ==
  /\ Paired(h, n) /\ Streak(breaker, h, n)
  /\ \A r \in 1..n, m \in Nat : RunIn(h, r, m) => m <= SameArgsThreshold + CorrectionBudget
  /\ \A t \in LoopTools : /\ IsFiniteSet(ErrorsIn(h, n, t))
                          /\ breaker.errors[t] <= Cardinality(ErrorsIn(h, n, t))
  /\ Going => /\ breaker.sameArgs < SameArgsThreshold + breaker.corrections
              /\ breaker.corrections <= Cardinality(NotedIn(h, n, "correction"))
              /\ softNoted => NotedIn(h, n, "wrap_up") # {}
  /\ terminal \in LoopReasons => Looped(h, n)
  /\ \A i, j \in NotedIn(h, n, "wrap_up") : i = j
  /\ ~softNoted => NotedIn(h, n, "wrap_up") = {}
  /\ maxSteps > 1 /\ ((Going /\ n + 1 >= maxSteps) \/ terminal = "steps") =>
       \E i \in NotedIn(h, n, "wrap_up") : i < 2 * maxSteps
  /\ \A r \in 1..n : IsDirect(CallsOf(h, r)) => r = n /\ node \in DirectEnds

Spoken ==
  /\ delivered # None => node \in Ended
  /\ ForcedTurnSpeaks

LoopInv ==
  /\ WithinWalls /\ LoopShape /\ Spoken
  /\ \E h, n : h = transcript \o output /\ n = step /\ History(h, n)

LEMMA NotesFinite ==
  ASSUME NEW h, NEW n \in Nat, NEW note
  PROVE  /\ IsFiniteSet(NotedIn(h, n, note)) /\ Cardinality(NotedIn(h, n, note)) \in Nat
         /\ NotedIn(h, n, note) \subseteq 1..(2 * n)
<1>1. IsFiniteSet(1..(2 * n))
  <2>1. 1 \in Int /\ 2 * n \in Int
    OBVIOUS
  <2> QED
    BY <2>1, FS_Interval
<1>2. NotedIn(h, n, note) \in SUBSET (1..(2 * n))
  BY DEF NotedIn
<1> QED
  BY <1>1, <1>2, FS_Subset, FS_CardinalityType

\* A step that adds no results keeps what the breaker knows of the history.
LEMMA HistoryStays ==
  ASSUME NEW g, NEW h, NEW n \in Nat, \A i \in 1..(2 * n) : g[i] = h[i], History(h, n),
         UNCHANGED <<breaker, softNoted, maxSteps>>, maxSteps \in Nat,
         Going' => Going, node \in DirectEnds => node' \in DirectEnds,
         terminal' \in LoopReasons => terminal' = terminal,
         terminal' = "steps" /\ maxSteps > 1 =>
           terminal = "steps" \/ (Going /\ n + 1 >= maxSteps)
  PROVE  History(g, n)'
<1>1. Paired(g, n) /\ Streak(breaker, g, n)
  BY SamePairs, SameStreak DEF History
<1>2. Streak(breaker', g, n)
  BY <1>1
<1>3. \A r \in 1..n, m \in Nat : RunIn(g, r, m) => m <= SameArgsThreshold + CorrectionBudget
  BY SameRuns DEF History
<1>4. \A t : ErrorsIn(g, n, t) = ErrorsIn(h, n, t)
  BY SameErrors
<1>5. \A note : NotedIn(g, n, note) = NotedIn(h, n, note)
  BY SameNotes
<1>6. terminal' \in LoopReasons => Looped(g, n)'
  <2> SUFFICES ASSUME terminal' \in LoopReasons
               PROVE  Looped(g, n)'
    OBVIOUS
  <2>1. Looped(h, n)
    BY DEF History
  <2>2. n > 0 /\ n \in 1..n /\ n - 1 \in Nat
    BY <2>1 DEF Looped
  <2>3. \A i \in 1..(2 * (n - 1)) : g[i] = h[i]
    <3>1. \A i \in 1..(2 * (n - 1)) : i \in 1..(2 * n)
      BY <2>2
    <3> QED
      BY <3>1
  <2>4. NotedIn(g, n - 1, "correction") = NotedIn(h, n - 1, "correction")
    BY <2>2, <2>3, SameNotes
  <2>5. RunIn(g, n, SameArgsThreshold) <=> RunIn(h, n, SameArgsThreshold)
    BY <2>2, SameRuns, LoopAssumption
  <2> QED
    BY <1>4, <2>1, <2>4, <2>5 DEF Looped
<1>7. \A r \in 1..n : IsDirect(CallsOf(g, r)) => r = n /\ node' \in DirectEnds
  BY SameRounds DEF History
<1>8. Going' => /\ breaker'.sameArgs < SameArgsThreshold + breaker'.corrections
                /\ breaker'.corrections <= Cardinality(NotedIn(g, n, "correction"))
                /\ softNoted' => NotedIn(g, n, "wrap_up") # {}
  BY <1>5 DEF History
<1>9. maxSteps' > 1 /\ ((Going' /\ n + 1 >= maxSteps') \/ terminal' = "steps") =>
        \E i \in NotedIn(g, n, "wrap_up") : i < 2 * maxSteps'
  BY <1>5 DEF History
<1>10. /\ \A i, j \in NotedIn(g, n, "wrap_up") : i = j
       /\ ~softNoted' => NotedIn(g, n, "wrap_up") = {}
  BY <1>5 DEF History
<1>11. \A t \in LoopTools : /\ IsFiniteSet(ErrorsIn(g, n, t))
                            /\ breaker'.errors[t] <= Cardinality(ErrorsIn(g, n, t))
  BY <1>4 DEF History
<1> QED
  BY <1>1, <1>2, <1>3, <1>6, <1>7, <1>8, <1>9, <1>10, <1>11 DEF History

\* What is recorded of a turn, message by message.
LEMMA Recorded ==
  ASSUME NEW s \in Seq(Messages), NEW o \in Seq(Messages), NEW h, h = s \o o
  PROVE  /\ h \in Seq(Messages) /\ Len(h) = Len(s) + Len(o)
         /\ \A i \in 1..Len(s) : h[i] = s[i]
         /\ Len(o) = 1 => h[Len(s) + 1] = o[1]
         /\ Len(o) = 0 => h = s
<1> HIDE DEF Messages
<1>1. /\ h \in Seq(Messages) /\ Len(h) = Len(s) + Len(o)
      /\ \A i \in 1..Len(s) : h[i] = s[i]
  OBVIOUS
<1>2. ASSUME Len(o) = 1
      PROVE  h[Len(s) + 1] = o[1]
  <2>1. Len(s) \in Nat
    OBVIOUS
  <2>2. Len(s) + 1 \in 1..(Len(s) + Len(o)) /\ Len(s) + 1 > Len(s) /\ Len(s) + 1 - Len(s) = 1
    BY <1>2, <2>1
  <2>3. h[Len(s) + 1] = o[Len(s) + 1 - Len(s)]
    BY <2>2
  <2> QED
    BY <2>2, <2>3
<1>3. Len(o) = 0 => h = s
  OBVIOUS
<1> QED
  BY <1>1, <1>2, <1>3

LEMMA MessageKinds ==
  ASSUME NEW m \in Messages
  PROVE  /\ m.kind = "calls" => m.calls \in Rounds
         /\ m.kind = "results" => m.at \in Nat
BY DEF Messages

-----------------------------------------------------------------------------
(* The steps of a turn                                                     *)

\* Steps that add no results.
LEMMA RoundsStay ==
  ASSUME LoopInv, WithinWalls', LoopShape', Spoken', UNCHANGED <<breaker, softNoted, maxSteps, step>>,
         \A i \in 1..(2 * step) : (transcript' \o output')[i] = (transcript \o output)[i],
         Going' => Going, node \in DirectEnds => node' \in DirectEnds,
         terminal' \in LoopReasons => terminal' = terminal,
         terminal' = "steps" /\ maxSteps > 1 =>
           terminal = "steps" \/ (Going /\ step + 1 >= maxSteps)
  PROVE  LoopInv'
<1>1. PICK h, n : h = transcript \o output /\ n = step /\ History(h, n)
  BY DEF LoopInv
<1>2. PICK g : g = transcript' \o output'
  OBVIOUS
<1>3. n \in Nat /\ maxSteps \in Nat
  BY <1>1 DEF LoopInv, LoopShape
<1>4. \A i \in 1..(2 * n) : g[i] = h[i]
  BY <1>1, <1>2
<1>5. History(g, n)'
  BY <1>1, <1>3, <1>4, HistoryStays
<1> QED
  BY <1>1, <1>2, <1>5 DEF LoopInv

\* The handed message joins the transcript: nothing changes in what is recorded.
LEMMA Joined ==
  ASSUME LoopShape, transcript' = transcript \o output, output' = <<>>
  PROVE  /\ transcript' \in Seq(Messages) /\ output' \in Seq(Messages) /\ Len(output') = 0
         /\ Len(transcript') = Len(transcript) + Len(output)
         /\ \A i \in 1..(2 * step) : (transcript' \o output')[i] = (transcript \o output)[i]
<1>1. transcript \in Seq(Messages) /\ output \in Seq(Messages)
  BY DEF LoopShape
<1>2. transcript' \in Seq(Messages) /\ Len(transcript') = Len(transcript) + Len(output)
  BY <1>1, Recorded
<1>3. output' \in Seq(Messages) /\ Len(output') = 0
  OBVIOUS
<1>4. transcript' \o output' = transcript'
  <2>1. PICK g : g = transcript' \o output'
    OBVIOUS
  <2>2. g = transcript'
    BY <1>2, <1>3, <2>1, Recorded
  <2> QED
    BY <2>1, <2>2
<1> QED
  BY <1>2, <1>3, <1>4

\* The node that ends the graph: the answer, the last word or the direct result.
LEMMA LastNodeStep ==
  ASSUME LoopInv, ModelAnswers \/ Finalize \/ DirectReturn
  PROVE  LoopInv'
<1>1. /\ node \in {"chat", "finalize", "direct_return"} /\ visits' = visits + 1
      /\ node' \in {"answered", "silent", "finalized", "direct"}
      /\ node' = "direct" <=> node = "direct_return"
      /\ transcript' = transcript \o output /\ output' = <<>>
      /\ UNCHANGED <<maxSteps, delivered, step, now, terminal, breaker, softNoted>>
  BY DEF ModelAnswers, Finalize, DirectReturn, Runs
<1>2. LoopShape /\ WithinWalls /\ Spoken
  BY DEF LoopInv
<1>3. /\ transcript' \in Seq(Messages) /\ output' \in Seq(Messages) /\ Len(output') = 0
      /\ Len(transcript') = Len(transcript) + Len(output)
      /\ \A i \in 1..(2 * step) : (transcript' \o output')[i] = (transcript \o output)[i]
  BY <1>1, <1>2, Joined
<1>4. Len(transcript') = 2 * step
  BY <1>1, <1>2, <1>3 DEF LoopShape
<1>5. LoopShape'
  BY <1>1, <1>2, <1>3, <1>4 DEF LoopShape, Ended
<1>6. WithinWalls'
  BY <1>1, <1>2, <1>4 DEF WithinWalls, Going
<1>7. Spoken'
  BY <1>1, <1>2, LoopAssumption DEF Spoken, ForcedTurnSpeaks, Ended
<1>8. node \in DirectEnds => node' \in DirectEnds
  BY <1>1 DEF DirectEnds
<1> QED
  BY <1>1, <1>3, <1>5, <1>6, <1>7, <1>8, RoundsStay DEF Going, LoopReasons

\* The turn breaks off, by eino's wall, by the deadline or by an error, or is delivered.
LEMMA BreakOffStep ==
  ASSUME LoopInv, HitBackstop \/ DeadlinePasses \/ NodeFails
  PROVE  LoopInv'
<1>1. /\ node \notin Ended /\ node' \in {"backstop", "deadline", "failed"}
      /\ UNCHANGED <<maxSteps, transcript, output, step, visits, terminal, breaker, softNoted, delivered>>
      /\ node' = "backstop" => visits >= BackstopSteps
  BY DEF HitBackstop, DeadlinePasses, NodeFails
<1>2. LoopShape /\ WithinWalls /\ Spoken
  BY DEF LoopInv
<1>3. now' \in Nat
  BY <1>2, LoopAssumption DEF HitBackstop, DeadlinePasses, NodeFails, LoopShape
<1>4. LoopShape'
  BY <1>1, <1>2, <1>3 DEF LoopShape, Ended
<1>5. maxSteps > 0 => visits < maxSteps * 3 + 10
  BY <1>1, <1>2 DEF LoopShape, WithinWalls, Ended
<1>6. maxSteps > 0 => node' # "backstop"
  BY <1>1, <1>2, <1>5 DEF BackstopSteps, LoopShape
<1>7. WithinWalls'
  BY <1>1, <1>2, <1>6 DEF WithinWalls, Going
<1>8. Spoken'
  BY <1>1, <1>2, LoopAssumption DEF Spoken, ForcedTurnSpeaks, Ended
<1> QED
  BY <1>1, <1>4, <1>7, <1>8, RoundsStay DEF Going, DirectEnds, LoopReasons, Ended

LEMMA DeliverStep ==
  ASSUME LoopInv, Deliver
  PROVE  LoopInv'
<1>1. /\ node \in Ended
      /\ delivered' = CASE node \in {"answered", "finalized"} -> "answer"
                        [] node = "failed" -> "error"
                        [] node = "direct" /\ (WidgetShown \/ Fallback = "nothing") -> "tool"
                        [] OTHER -> Fallback
      /\ UNCHANGED <<maxSteps, node, transcript, output, step, visits, now, terminal, breaker, softNoted>>
  BY DEF Deliver
<1>2. LoopShape /\ WithinWalls /\ Spoken
  BY DEF LoopInv
<1>3. LoopShape' /\ WithinWalls'
  BY <1>1, <1>2 DEF LoopShape, WithinWalls, Going
<1>4. delivered' = "nothing" => Fallback = "nothing"
  BY <1>1
<1>5. Spoken'
  BY <1>1, <1>4 DEF Spoken, ForcedTurnSpeaks, Fallback
<1> QED
  BY <1>1, <1>3, <1>5, RoundsStay DEF Going

\* The request of the model is next to join the transcript.
LEMMA CallsStep ==
  ASSUME LoopInv, NEW r \in Rounds, ModelCalls(r)
  PROVE  LoopInv'
<1>1. /\ node = "chat" /\ visits' = visits + 1 /\ transcript' = transcript \o output
      /\ terminal' = BudgetWallReason
      /\ node' = IF BudgetWallReason = None THEN "tools" ELSE "chat_to_finalize"
      /\ output' = <<[kind |-> "calls", calls |-> r]>>
      /\ UNCHANGED <<maxSteps, delivered, step, now, breaker, softNoted>>
  BY DEF ModelCalls, Runs
<1>2. LoopShape /\ WithinWalls /\ Spoken
  BY DEF LoopInv
<1>3. transcript \in Seq(Messages) /\ output \in Seq(Messages)
  BY <1>2 DEF LoopShape
<1>4. /\ transcript' \in Seq(Messages)
      /\ Len(transcript') = Len(transcript) + Len(output)
  BY <1>1, <1>3, Recorded
<1>5. Len(transcript') = 2 * step
  BY <1>1, <1>2, <1>4 DEF LoopShape
<1>6. /\ output' \in Seq(Messages) /\ Len(output') = 1 /\ output'[1].kind = "calls"
  <2>1. [kind |-> "calls", calls |-> r] \in Messages
    BY DEF Messages
  <2> QED
    BY <1>1, <2>1
<1>7. /\ terminal = None
      /\ terminal' \in {None} \cup Walls
      /\ terminal' = "steps" => maxSteps > 0 /\ step >= maxSteps
      /\ terminal' = None => ~(maxSteps > 0 /\ step >= maxSteps)
  <2>1. terminal = None
    BY <1>1, <1>2 DEF WithinWalls, Going
  <2>2. now >= MaxTurnDuration \/ now < MaxTurnDuration
    BY <1>2, LoopAssumption DEF LoopShape
  <2>3. CASE now >= MaxTurnDuration
    <3>0. ~(now < MaxTurnDuration)
      BY <1>2, <2>3, LoopAssumption DEF LoopShape
    <3>1. terminal' = "time"
      BY <1>1, <2>1, <2>3, <3>0 DEF BudgetWallReason
    <3> QED
      BY <2>1, <3>1, LoopAssumption DEF Walls
  <2>4. CASE now < MaxTurnDuration /\ StepWall
    <3>1. ~(now >= MaxTurnDuration)
      BY <1>2, <2>4, LoopAssumption DEF LoopShape
    <3>2. terminal' = "steps"
      BY <1>1, <2>1, <2>4, <3>1 DEF BudgetWallReason
    <3> QED
      BY <2>1, <2>4, <3>2, LoopAssumption DEF Walls, StepWall
  <2>5. CASE now < MaxTurnDuration /\ ~StepWall
    <3>1. ~(now >= MaxTurnDuration)
      BY <1>2, <2>5, LoopAssumption DEF LoopShape
    <3>2. terminal' = None
      BY <1>1, <2>1, <2>5, <3>1 DEF BudgetWallReason
    <3> QED
      BY <2>1, <2>5, <3>2, LoopAssumption DEF StepWall
  <2> QED
    BY <2>2, <2>3, <2>4, <2>5
<1>8. LoopShape'
  BY <1>1, <1>2, <1>4, <1>5, <1>6, <1>7 DEF LoopShape, Ended
<1>9. WithinWalls'
  <2>1. maxSteps > 0 /\ terminal' = None => step < maxSteps
    BY <1>2, <1>7 DEF LoopShape
  <2>2. node' = "tools" <=> terminal' = None
    BY <1>1
  <2>3. node' \in {"tools", "chat_to_finalize"}
    BY <1>1
  <2>4. maxSteps > 0 => step <= maxSteps /\ visits' <= 2 * step + 1
    BY <1>1, <1>2 DEF WithinWalls, LoopShape
  <2> QED
    BY <1>1, <1>5, <1>7, <2>1, <2>2, <2>3, <2>4 DEF WithinWalls, Going
<1>10. Spoken'
  BY <1>1, <1>2, LoopAssumption DEF Spoken, ForcedTurnSpeaks, Ended
<1>11. \A i \in 1..(2 * step) : (transcript' \o output')[i] = (transcript \o output)[i]
  <2>1. PICK g : g = transcript' \o output'
    OBVIOUS
  <2>2. \A i \in 1..Len(transcript') : g[i] = transcript'[i]
    BY <1>4, <1>6, <2>1, Recorded
  <2> QED
    BY <1>1, <1>5, <2>1, <2>2
<1>12. terminal' \notin LoopReasons
  BY <1>7, LoopAssumption DEF LoopReasons, Walls
<1>13. terminal' = "steps" /\ maxSteps > 1 => Going /\ step + 1 >= maxSteps
  BY <1>1, <1>2, <1>7 DEF LoopShape, Going
<1> QED
  BY <1>1, <1>8, <1>9, <1>10, <1>11, <1>12, <1>13, RoundsStay DEF Going, DirectEnds

\* The request at the wall is dropped.
LEMMA DropStep ==
  ASSUME LoopInv, ChatToFinalize
  PROVE  LoopInv'
<1>1. /\ node = "chat_to_finalize" /\ node' = "finalize" /\ visits' = visits + 1
      /\ output' = <<>>
      /\ UNCHANGED <<maxSteps, delivered, transcript, step, now, terminal, breaker, softNoted>>
  BY DEF ChatToFinalize, Runs
<1>2. LoopShape /\ WithinWalls /\ Spoken
  BY DEF LoopInv
<1>3. Len(transcript) = 2 * step /\ transcript \in Seq(Messages) /\ output \in Seq(Messages)
  BY <1>1, <1>2 DEF LoopShape
<1>4. output' \in Seq(Messages) /\ Len(output') = 0
  BY <1>1
<1>5. LoopShape'
  BY <1>1, <1>2, <1>3, <1>4 DEF LoopShape, Ended
<1>6. WithinWalls'
  BY <1>1, <1>2, <1>3 DEF WithinWalls, Going, LoopShape
<1>7. Spoken'
  BY <1>1, <1>2, LoopAssumption DEF Spoken, ForcedTurnSpeaks, Ended
<1>8. \A i \in 1..(2 * step) : (transcript' \o output')[i] = (transcript \o output)[i]
  <2>1. PICK g, h : g = transcript' \o output' /\ h = transcript \o output
    OBVIOUS
  <2>2. g = transcript
    BY <1>1, <1>3, <1>4, <2>1, Recorded
  <2>3. \A i \in 1..Len(transcript) : h[i] = transcript[i]
    BY <1>3, <2>1, Recorded
  <2> QED
    BY <1>3, <2>1, <2>2, <2>3
<1> QED
  BY <1>1, <1>5, <1>6, <1>7, <1>8, RoundsStay DEF Going, DirectEnds, LoopReasons

\* Results that carry a note add it to the notes given, and others do not.
LEMMA NotesGrow ==
  ASSUME NEW g, NEW h, NEW n \in Nat, NEW r, NEW errs, Extends(g, h, n, r, errs), NEW note
  PROVE  \A i : i \in NotedIn(g, n + 1, note) <=>
                  \/ i \in NotedIn(h, n, note)
                  \/ i = 2 * n + 2 /\ note \in g[2 * n + 2].notes
<1>1. /\ \A i \in 1..(2 * n) : g[i] = h[i]
      /\ g[2 * n + 1].kind = "calls" /\ g[2 * n + 2].kind = "results"
  BY DEF Extends
<1>2. \A i : i \in 1..(2 * (n + 1)) <=> i \in 1..(2 * n) \/ i = 2 * n + 1 \/ i = 2 * n + 2
  OBVIOUS
<1>3. ASSUME NEW i \in 1..(2 * n)
      PROVE  i \in NotedIn(g, n + 1, note) <=> i \in NotedIn(h, n, note)
  <2>1. g[i] = h[i] /\ i \in 1..(2 * (n + 1))
    BY <1>1, <1>2
  <2> QED
    BY <2>1 DEF NotedIn
<1>4. 2 * n + 1 \notin NotedIn(g, n + 1, note)
  BY <1>1 DEF NotedIn
<1>5. 2 * n + 2 \in NotedIn(g, n + 1, note) <=> note \in g[2 * n + 2].notes
  BY <1>1, <1>2 DEF NotedIn
<1>6. \A i \in NotedIn(g, n + 1, note) : i \in 1..(2 * (n + 1))
  BY DEF NotedIn
<1>7. NotedIn(h, n, note) \subseteq 1..(2 * n) /\ 2 * n + 2 \notin 1..(2 * n)
  BY NotesFinite
<1> QED
  BY <1>2, <1>3, <1>4, <1>5, <1>6, <1>7

LEMMA OneMoreNote ==
  ASSUME NEW g, NEW h, NEW n \in Nat, NEW note,
         \A i : i \in NotedIn(g, n + 1, note) <=> i \in NotedIn(h, n, note) \/ i = 2 * n + 2
  PROVE  Cardinality(NotedIn(g, n + 1, note)) = Cardinality(NotedIn(h, n, note)) + 1
<1>1. NotedIn(g, n + 1, note) = NotedIn(h, n, note) \cup {2 * n + 2}
  OBVIOUS
<1>2. 2 * n + 2 \notin 1..(2 * n)
  OBVIOUS
<1>3. 2 * n + 2 \notin NotedIn(h, n, note) /\ IsFiniteSet(NotedIn(h, n, note))
  BY <1>2, NotesFinite
<1> QED
  BY <1>1, <1>3, FS_AddElement

\* No run grows beyond what the streak of the breaker allows.
LEMMA RunsStayShort ==
  ASSUME NEW g, NEW h, NEW n \in Nat, NEW r, NEW errs, Extends(g, h, n, r, errs),
         NEW b, b \in Breakers, Streak(b, g, n + 1), NEW top \in Nat \ {0}, b.sameArgs <= top,
         \A q \in 1..n, m \in Nat : RunIn(h, q, m) => m <= top,
         CallsOf(g, n + 1) \in Rounds,
         NEW q \in 1..(n + 1), NEW m \in Nat, RunIn(g, q, m)
  PROVE  m <= top
<1>1. CASE q \in 1..n
  <2>1. RunIn(h, q, m)
    BY <1>1, SameRuns DEF Extends
  <2> QED
    BY <1>1, <2>1
<1>2. CASE q = n + 1
  <2>1. CASE m <= 1
    BY <2>1
  <2>2. CASE m > 1
    <3>1. RepeatIn(g, n + 1)
      BY <1>2, <2>2, LongerRun
    <3>2. Len(CallsOf(g, n + 1)) = 1 /\ n + 1 > 0
      BY <3>1 DEF RepeatIn
    <3>3. m <= b.sameArgs
      BY <1>2, <2>2, <3>2 DEF Streak
    <3> QED
      BY <3>3 DEF Breakers
  <2> QED
    BY <2>1, <2>2
<1> QED
  BY <1>1, <1>2

\* What the tools node is handed, and what it makes of it.
Ran(h, n, g, r, errs, policy, notes) ==
  /\ h = transcript \o output /\ n = step /\ g = transcript' \o output'
  /\ n \in Nat /\ History(h, n) /\ Extends(g, h, n, r, errs) /\ now' \in Nat
  /\ policy = LoopPolicy(r, errs)
  /\ notes = (IF policy.nudge THEN {"correction"} ELSE {})
               \cup (IF SoftNote THEN {"wrap_up"} ELSE {})
  /\ breaker' = policy.counters /\ terminal' = policy.terminal
  /\ softNoted' = (softNoted \/ "wrap_up" \in notes)
  /\ node' = AfterTools(r)
  /\ g[2 * n + 2].notes = IF IsDirect(r) THEN {} ELSE notes
  /\ transcript' \in Seq(Messages) /\ Len(transcript') = 2 * n + 1
  /\ output' \in Seq(Messages) /\ Len(output') = 1

LEMMA ToolsRan ==
  ASSUME LoopInv, RunTools
  PROVE  \E h, n, g : \E r \in Rounds : \E errs \in [1..Len(r) -> BOOLEAN] :
           \E policy, notes : Ran(h, n, g, r, errs, policy, notes)
<1>1. PICK h, n : h = transcript \o output /\ n = step /\ History(h, n)
  BY DEF LoopInv
<1>2. PICK g : g = transcript' \o output'
  OBVIOUS
<1>3. node = "tools" /\ transcript' = h
  BY <1>1 DEF RunTools, Runs
<1>4. /\ n \in Nat /\ transcript \in Seq(Messages) /\ output \in Seq(Messages)
      /\ Len(transcript) = 2 * n /\ Len(output) = 1 /\ output[1].kind = "calls"
  BY <1>1, <1>3 DEF LoopInv, LoopShape
<1>5. output[1] \in Messages
  <2>1. PICK S : S = Messages
    OBVIOUS
  <2>2. output \in Seq(S) /\ 1 \in 1..Len(output)
    BY <1>4, <2>1
  <2>3. output[1] \in S
    BY <2>2
  <2> QED
    BY <2>1, <2>3
<1>6. PICK r \in Rounds : r = output[1].calls
  BY <1>4, <1>5, MessageKinds
<1>7. now' \in Nat
  BY LoopAssumption DEF RunTools, LoopInv, LoopShape
<1>8. PICK errs, policy, notes :
        /\ errs \in [1..Len(r) -> BOOLEAN]
        /\ policy = LoopPolicy(r, errs)
        /\ notes = (IF policy.nudge THEN {"correction"} ELSE {})
                     \cup (IF SoftNote THEN {"wrap_up"} ELSE {})
        /\ breaker' = policy.counters /\ terminal' = policy.terminal
        /\ softNoted' = (softNoted \/ "wrap_up" \in notes)
        /\ output' = <<[kind |-> "results", errs |-> errs, at |-> now',
                        notes |-> IF IsDirect(r) THEN {} ELSE notes]>>
        /\ node' = AfterTools(r)
  BY <1>6 DEF RunTools, IsDirect
<1>9. PICK res : res = [kind |-> "results", errs |-> errs, at |-> now',
                        notes |-> IF IsDirect(r) THEN {} ELSE notes]
  OBVIOUS
<1>10. output' = <<res>>
  BY <1>8, <1>9, Zenon
<1>11. res \in Messages
  <2>1. errs \in UNION {[1..Len(q) -> BOOLEAN] : q \in Rounds}
    BY <1>8
  <2>2. (IF IsDirect(r) THEN {} ELSE notes) \in SUBSET {"correction", "wrap_up"}
    BY <1>8
  <2> QED
    BY <1>7, <1>9, <2>1, <2>2 DEF Messages
<1>12. output' \in Seq(Messages) /\ Len(output') = 1 /\ output'[1] = res
  <2> HIDE DEF Messages
  <2> QED
    BY <1>10, <1>11
<1>13. /\ h \in Seq(Messages) /\ Len(h) = 2 * n + 1 /\ h[2 * n + 1] = output[1]
  <2>1. /\ h \in Seq(Messages) /\ Len(h) = Len(transcript) + Len(output)
        /\ Len(output) = 1 => h[Len(transcript) + 1] = output[1]
    <3>1. h = transcript \o output
      BY <1>1
    <3>2. transcript \in Seq(Messages) /\ output \in Seq(Messages)
      BY <1>4
    <3> QED
      BY <3>1, <3>2, Recorded
  <2> QED
    BY <1>4, <2>1
<1>14. /\ \A i \in 1..(2 * n + 1) : g[i] = h[i]
       /\ g[2 * n + 2] = res
  <2>1. /\ \A i \in 1..Len(h) : g[i] = h[i]
        /\ g[Len(h) + 1] = output'[1]
    BY <1>2, <1>3, <1>12, <1>13, Recorded
  <2>2. Len(h) + 1 = 2 * n + 2
    BY <1>4, <1>13
  <2> QED
    BY <1>12, <1>13, <2>1, <2>2
<1>15. Extends(g, h, n, r, errs)
  <2>1. g[2 * n + 1] = output[1]
    BY <1>4, <1>13, <1>14
  <2>2. \A i \in 1..(2 * n) : g[i] = h[i]
    BY <1>4, <1>14
  <2>3. res.kind = "results" /\ res.errs = errs /\ res.at = now'
    BY <1>9
  <2> QED
    BY <1>4, <1>6, <1>14, <2>1, <2>2, <2>3 DEF Extends
<1>16. g[2 * n + 2].notes = IF IsDirect(r) THEN {} ELSE notes
  BY <1>9, <1>14
<1>17. Len(transcript') = 2 * n + 1 /\ transcript' \in Seq(Messages)
  BY <1>3, <1>13
<1>18. Ran(h, n, g, r, errs, policy, notes)
  BY <1>1, <1>2, <1>4, <1>7, <1>8, <1>12, <1>15, <1>16, <1>17 DEF Ran
<1> QED
  BY <1>8, <1>18

\* The results of a round are judged: what the breaker knows grows with the history.
LEMMA ToolsJudged ==
  ASSUME LoopInv, RunTools, NEW h, NEW n, NEW g, NEW r \in Rounds,
         NEW errs \in [1..Len(r) -> BOOLEAN], NEW policy, NEW notes,
         Ran(h, n, g, r, errs, policy, notes)
  PROVE  LoopInv'
<1>1. /\ n = step /\ n \in Nat /\ History(h, n) /\ Extends(g, h, n, r, errs)
      /\ g = transcript' \o output' /\ now' \in Nat
      /\ breaker' = policy.counters /\ terminal' = policy.terminal
      /\ notes = (IF policy.nudge THEN {"correction"} ELSE {})
                   \cup (IF SoftNote THEN {"wrap_up"} ELSE {})
      /\ g[2 * n + 2].notes = IF IsDirect(r) THEN {} ELSE notes
  BY DEF Ran
<1>2. /\ node = "tools" /\ step' = n + 1 /\ visits' = visits + 1
      /\ maxSteps' = maxSteps /\ delivered' = delivered
  BY <1>1 DEF RunTools, Runs
<1>3. /\ LoopShape /\ WithinWalls /\ Spoken /\ Going /\ terminal = None
      /\ breaker \in Breakers /\ maxSteps \in Nat
  BY <1>2 DEF LoopInv, Going, WithinWalls, LoopShape
<1>4. /\ Paired(h, n) /\ Streak(breaker, h, n)
      /\ \A q \in 1..n, m \in Nat : RunIn(h, q, m) => m <= SameArgsThreshold + CorrectionBudget
      /\ \A t \in LoopTools : /\ IsFiniteSet(ErrorsIn(h, n, t))
                              /\ breaker.errors[t] <= Cardinality(ErrorsIn(h, n, t))
      /\ breaker.sameArgs < SameArgsThreshold + breaker.corrections
      /\ breaker.corrections <= Cardinality(NotedIn(h, n, "correction"))
      /\ softNoted => NotedIn(h, n, "wrap_up") # {}
      /\ \A i, j \in NotedIn(h, n, "wrap_up") : i = j
      /\ ~softNoted => NotedIn(h, n, "wrap_up") = {}
      /\ maxSteps > 1 /\ n + 1 >= maxSteps =>
           \E i \in NotedIn(h, n, "wrap_up") : i < 2 * maxSteps
      /\ \A q \in 1..n : ~IsDirect(CallsOf(h, q))
  BY <1>1, <1>2, <1>3 DEF History, DirectEnds
<1>5. /\ breaker' \in Breakers /\ Streak(breaker', g, n + 1)
      /\ breaker'.sameArgs <= breaker.sameArgs + 1
      /\ \A t \in LoopTools : breaker'.errors[t]
              <= breaker.errors[t] + Cardinality(Failed(r, errs, t))
      /\ policy.nudge \in BOOLEAN
      /\ policy.nudge => breaker'.corrections = breaker.corrections + 1
      /\ ~policy.nudge => breaker'.corrections = breaker.corrections
      /\ terminal' \in {None} \cup LoopReasons
      /\ terminal' # None => ~policy.nudge /\ breaker.corrections = CorrectionBudget
      /\ terminal' = "same_args" => breaker'.sameArgs >= SameArgsThreshold
      /\ terminal' = "tool_errors" =>
           \E t \in LoopTools :
             ErrLoopThreshold <= breaker.errors[t] + Cardinality(Failed(r, errs, t))
      /\ terminal' = None => policy.nudge \/ breaker'.sameArgs < SameArgsThreshold
  <2>1. policy = LoopPolicy(r, errs)
    BY DEF Ran
  <2>2. /\ policy.counters \in Breakers /\ Streak(policy.counters, g, n + 1)
        /\ policy.counters.sameArgs <= breaker.sameArgs + 1
        /\ \A t \in LoopTools : policy.counters.errors[t]
             <= breaker.errors[t] + Cardinality(Failed(r, errs, t))
        /\ policy.nudge \in BOOLEAN
        /\ policy.nudge => policy.counters.corrections = breaker.corrections + 1
        /\ ~policy.nudge => policy.counters.corrections = breaker.corrections
        /\ policy.terminal \in {None} \cup LoopReasons
        /\ policy.terminal # None => ~policy.nudge /\ breaker.corrections = CorrectionBudget
        /\ policy.terminal = "same_args" => policy.counters.sameArgs >= SameArgsThreshold
        /\ policy.terminal = "tool_errors" =>
             \E t \in LoopTools :
               ErrLoopThreshold <= breaker.errors[t] + Cardinality(Failed(r, errs, t))
        /\ policy.terminal = None =>
             policy.nudge \/ policy.counters.sameArgs < SameArgsThreshold
    <3>1. /\ n \in Nat /\ Extends(g, h, n, r, errs) /\ Paired(h, n) /\ now' \in Nat
          /\ breaker \in Breakers /\ Streak(breaker, h, n) /\ terminal = None
      BY <1>1, <1>3, <1>4, Zenon
    <3> QED
      BY <2>1, <3>1, PolicyApplied
  <2>3. breaker' = policy.counters /\ terminal' = policy.terminal
    BY <1>1
  <2> QED
    BY <2>2, <2>3, Zenon
<1>6. Paired(g, n + 1) /\ CallsOf(g, n + 1) = r
  BY <1>1, <1>4, MorePairs, LastRound
<1>7. node' = IF IsDirect(r) THEN "direct_return"
              ELSE IF terminal' # None THEN "finalize" ELSE "chat"
  BY DEF Ran, AfterTools, IsDirect
<1>8. /\ breaker.sameArgs \in Nat /\ breaker.corrections \in 0..CorrectionBudget
      /\ breaker'.sameArgs \in Nat /\ breaker'.corrections \in 0..CorrectionBudget
      /\ SameArgsThreshold \in Nat \ {0} /\ CorrectionBudget \in Nat \ {0}
      /\ ErrLoopThreshold \in Nat \ {0}
      /\ None \notin {"same_args", "tool_errors", "time", "steps", "nothing"}
  BY <1>3, <1>5, LoopAssumption DEF Breakers
<1>9. LoopShape'
  <2>1. /\ transcript' \in Seq(Messages) /\ Len(transcript') = 2 * n + 1
        /\ output' \in Seq(Messages) /\ Len(output') = 1
        /\ softNoted' = (softNoted \/ "wrap_up" \in notes)
    BY DEF Ran
  <2>2. softNoted' \in BOOLEAN
    BY <2>1
  <2>3. visits' \in Nat /\ step' \in Nat /\ maxSteps' \in Nat
    BY <1>1, <1>2, <1>3 DEF LoopShape
  <2>4. /\ Len(transcript') \in {2 * step', 2 * step' - 1}
        /\ Len(transcript') + Len(output') = 2 * step'
    BY <1>1, <1>2, <2>1
  <2>5. node' \in {"direct_return", "finalize", "chat"}
    BY <1>7
  <2>6. /\ breaker' \in Breakers /\ now' \in Nat
        /\ terminal' \in {None} \cup LoopReasons \cup Walls
    BY <1>1, <1>5
  <2> QED
    BY <2>1, <2>2, <2>3, <2>4, <2>5, <2>6 DEF LoopShape
<1>10. WithinWalls'
  <2>1. maxSteps > 0 => step' <= maxSteps /\ visits' <= 2 * step'
    <3>1. maxSteps > 0 => step < maxSteps /\ visits <= 2 * step + 1
      BY <1>2, <1>3 DEF WithinWalls
    <3>2. visits \in Nat /\ n = step
      BY <1>1, <1>3 DEF LoopShape
    <3> QED
      BY <1>1, <1>2, <1>3, <3>1, <3>2
  <2>2. node' \in {"direct_return", "finalize", "chat"}
    BY <1>7
  <2>3. step' \in Nat /\ visits' \in Nat
    BY <1>9 DEF LoopShape
  <2>4. terminal' \notin Walls
    BY <1>5, <1>8 DEF LoopReasons, Walls
  <2> QED
    BY <1>2, <1>7, <2>1, <2>2, <2>3, <2>4 DEF WithinWalls, Going
<1>11. Spoken'
  <2>1. delivered = None
    BY <1>2, <1>3 DEF Spoken, Ended
  <2> QED
    BY <1>2, <1>8, <2>1 DEF Spoken, ForcedTurnSpeaks
<1>12. Going' => /\ node' = "chat" /\ ~IsDirect(r) /\ terminal' = None
                 /\ g[2 * n + 2].notes = notes
  BY <1>1, <1>7 DEF Going
<1>13. n \in Nat /\ Extends(g, h, n, r, errs)
  BY <1>1
<1>14. ASSUME NEW note
       PROVE  /\ note \in g[2 * n + 2].notes =>
                   /\ NotedIn(g, n + 1, note) = NotedIn(h, n, note) \cup {2 * n + 2}
                   /\ Cardinality(NotedIn(g, n + 1, note)) = Cardinality(NotedIn(h, n, note)) + 1
              /\ note \notin g[2 * n + 2].notes => NotedIn(g, n + 1, note) = NotedIn(h, n, note)
  <2>1. \A i : i \in NotedIn(g, n + 1, note) <=>
                 \/ i \in NotedIn(h, n, note)
                 \/ i = 2 * n + 2 /\ note \in g[2 * n + 2].notes
    BY <1>13, NotesGrow
  <2>2. CASE note \in g[2 * n + 2].notes
    <3>1. \A i : i \in NotedIn(g, n + 1, note) <=> i \in NotedIn(h, n, note) \/ i = 2 * n + 2
      BY <2>1, <2>2
    <3>2. NotedIn(g, n + 1, note) = NotedIn(h, n, note) \cup {2 * n + 2}
      BY <3>1
    <3> QED
      BY <1>13, <2>2, <3>1, <3>2, OneMoreNote
  <2>3. CASE note \notin g[2 * n + 2].notes
    BY <2>1, <2>3
  <2> QED
    BY <2>2, <2>3
<1>15. /\ \A t \in LoopTools : /\ IsFiniteSet(ErrorsIn(g, n + 1, t))
                               /\ breaker'.errors[t] <= Cardinality(ErrorsIn(g, n + 1, t))
       /\ terminal' = "tool_errors" =>
            \E t \in LoopTools : ErrLoopThreshold <= Cardinality(ErrorsIn(g, n + 1, t))
  <2>1. ASSUME NEW t \in LoopTools
        PROVE  /\ IsFiniteSet(ErrorsIn(g, n + 1, t))
               /\ Cardinality(ErrorsIn(g, n + 1, t)) =
                    Cardinality(ErrorsIn(h, n, t)) + Cardinality(Failed(r, errs, t))
               /\ Cardinality(ErrorsIn(h, n, t)) \in Nat
               /\ breaker.errors[t] \in Nat /\ breaker'.errors[t] \in Nat
               /\ breaker.errors[t] <= Cardinality(ErrorsIn(h, n, t))
               /\ Cardinality(Failed(r, errs, t)) \in Nat
    <3>1. IsFiniteSet(ErrorsIn(h, n, t)) /\ breaker.errors[t] <= Cardinality(ErrorsIn(h, n, t))
      BY <1>4
    <3>2. /\ IsFiniteSet(ErrorsIn(g, n + 1, t))
          /\ Cardinality(ErrorsIn(g, n + 1, t)) =
               Cardinality(ErrorsIn(h, n, t)) + Cardinality(Failed(r, errs, t))
      BY <1>1, <3>1, MoreErrors
    <3>3. Cardinality(ErrorsIn(h, n, t)) \in Nat /\ Cardinality(Failed(r, errs, t)) \in Nat
      BY <3>1, FS_CardinalityType, FailedFinite
    <3>4. breaker.errors[t] \in Nat /\ breaker'.errors[t] \in Nat
      BY <1>3, <1>5 DEF Breakers
    <3> QED
      BY <3>1, <3>2, <3>3, <3>4
  <2>2. ASSUME NEW t \in LoopTools
        PROVE  breaker'.errors[t] <= Cardinality(ErrorsIn(g, n + 1, t))
    BY <1>5, <2>1
  <2>3. ASSUME terminal' = "tool_errors"
        PROVE  \E t \in LoopTools : ErrLoopThreshold <= Cardinality(ErrorsIn(g, n + 1, t))
    <3>1. PICK t \in LoopTools :
            ErrLoopThreshold <= breaker.errors[t] + Cardinality(Failed(r, errs, t))
      BY <1>5, <2>3
    <3>2. ErrLoopThreshold <= Cardinality(ErrorsIn(g, n + 1, t))
      BY <1>8, <2>1, <3>1
    <3> QED
      BY <3>2
  <2> QED
    BY <2>1, <2>2, <2>3
<1>16. \A q \in 1..(n + 1), m \in Nat :
         RunIn(g, q, m) => m <= SameArgsThreshold + CorrectionBudget
  <2>1. PICK top : top = SameArgsThreshold + CorrectionBudget
    OBVIOUS
  <2>2. top \in Nat \ {0} /\ breaker'.sameArgs <= top
    BY <1>4, <1>5, <1>8, <2>1
  <2>3. \A q \in 1..n, m \in Nat : RunIn(h, q, m) => m <= top
    BY <1>4, <2>1
  <2>4. \A q \in 1..(n + 1), m \in Nat : RunIn(g, q, m) => m <= top
    BY <1>1, <1>5, <1>6, <2>2, <2>3, RunsStayShort
  <2> QED
    BY <2>1, <2>4
<1>17. Going' => /\ breaker'.sameArgs < SameArgsThreshold + breaker'.corrections
                 /\ breaker'.corrections <= Cardinality(NotedIn(g, n + 1, "correction"))
                 /\ softNoted' => NotedIn(g, n + 1, "wrap_up") # {}
  <2> SUFFICES ASSUME Going'
               PROVE  /\ breaker'.sameArgs < SameArgsThreshold + breaker'.corrections
                      /\ breaker'.corrections <= Cardinality(NotedIn(g, n + 1, "correction"))
                      /\ softNoted' => NotedIn(g, n + 1, "wrap_up") # {}
    OBVIOUS
  <2>1. breaker'.sameArgs < SameArgsThreshold + breaker'.corrections
    BY <1>4, <1>5, <1>8, <1>12
  <2>2. breaker'.corrections <= Cardinality(NotedIn(g, n + 1, "correction"))
    <3>1. Cardinality(NotedIn(h, n, "correction")) \in Nat
      BY <1>1, NotesFinite
    <3>2. CASE policy.nudge
      <4>1. "correction" \in g[2 * n + 2].notes
        BY <1>1, <1>12, <3>2
      <4>2. Cardinality(NotedIn(g, n + 1, "correction")) =
              Cardinality(NotedIn(h, n, "correction")) + 1
        BY <4>1, <1>14
      <4> QED
        BY <1>4, <1>5, <1>8, <3>1, <3>2, <4>2
    <3>3. CASE ~policy.nudge
      <4>1. "correction" \notin g[2 * n + 2].notes
        BY <1>1, <1>12, <3>3
      <4>2. NotedIn(g, n + 1, "correction") = NotedIn(h, n, "correction")
        BY <4>1, <1>14
      <4> QED
        BY <1>4, <1>5, <3>3, <4>2
    <3> QED
      BY <3>2, <3>3
  <2>3. ASSUME softNoted'
        PROVE  NotedIn(g, n + 1, "wrap_up") # {}
    <3>1. softNoted \/ "wrap_up" \in notes
      BY <2>3 DEF Ran
    <3>2. CASE "wrap_up" \in notes
      <4>1. "wrap_up" \in g[2 * n + 2].notes
        BY <1>12, <3>2
      <4> QED
        BY <4>1, <1>14
    <3>3. CASE "wrap_up" \notin notes
      <4>1. NotedIn(g, n + 1, "wrap_up") = NotedIn(h, n, "wrap_up")
        <5>1. "wrap_up" \notin g[2 * n + 2].notes
          BY <1>12, <3>3
        <5> QED
          BY <5>1, <1>14
      <4> QED
        BY <1>4, <3>1, <3>3, <4>1
    <3> QED
      BY <3>2, <3>3
  <2> QED
    BY <2>1, <2>2, <2>3
<1>18. terminal' \in LoopReasons => Looped(g, n + 1)'
  <2> SUFFICES ASSUME terminal' \in LoopReasons
               PROVE  Looped(g, n + 1)'
    OBVIOUS
  <2>1. breaker'.corrections = CorrectionBudget /\ breaker.corrections = CorrectionBudget
    BY <1>5, <1>8 DEF LoopReasons
  <2>2. NotedIn(g, (n + 1) - 1, "correction") = NotedIn(h, n, "correction")
    <3>1. \A i \in 1..(2 * n) : g[i] = h[i]
      BY <1>1 DEF Extends
    <3>2. NotedIn(g, n, "correction") = NotedIn(h, n, "correction")
      BY <1>13, <3>1, SameNotes
    <3>3. (n + 1) - 1 = n /\ n + 1 > 0
      BY <1>13
    <3> QED
      BY <3>2, <3>3
  <2>3. ASSUME terminal' = "same_args"
        PROVE  RunIn(g, n + 1, SameArgsThreshold)
    <3>1. breaker'.sameArgs >= SameArgsThreshold /\ breaker'.sameArgs > 0
      BY <1>5, <1>8, <2>3
    <3>2. Len(CallsOf(g, n + 1)) = 1 /\ n + 1 > 0
      BY <1>5, <1>13, <3>1 DEF Streak
    <3>3. SameArgsThreshold <= breaker'.sameArgs
      BY <1>8, <3>1
    <3> QED
      BY <1>5, <1>8, <3>2, <3>3 DEF Streak
  <2>4. CorrectionBudget <= Cardinality(NotedIn(g, (n + 1) - 1, "correction"))
    BY <1>4, <2>1, <2>2
  <2>5. n + 1 > 0
    BY <1>13
  <2>6. terminal' = "same_args" => RunIn(g, n + 1, SameArgsThreshold)
    BY <2>3
  <2> QED
    BY <1>15, <2>1, <2>4, <2>5, <2>6 DEF Looped
<1>19. /\ \A i, j \in NotedIn(g, n + 1, "wrap_up") : i = j
       /\ ~softNoted' => NotedIn(g, n + 1, "wrap_up") = {}
  <2>1. CASE "wrap_up" \in g[2 * n + 2].notes
    <3>1. "wrap_up" \in notes
      BY <1>1, <2>1
    <3>2. SoftNote
      BY <1>1, <3>1
    <3>3. ~softNoted /\ softNoted'
      BY <3>1, <3>2 DEF SoftNote, Ran
    <3>4. NotedIn(g, n + 1, "wrap_up") = {2 * n + 2}
      BY <1>4, <2>1, <3>3, <1>14
    <3> QED
      BY <3>3, <3>4
  <2>2. CASE "wrap_up" \notin g[2 * n + 2].notes
    <3>1. NotedIn(g, n + 1, "wrap_up") = NotedIn(h, n, "wrap_up")
      BY <2>2, <1>14
    <3>2. softNoted => softNoted'
      BY DEF Ran
    <3> QED
      BY <1>4, <3>1, <3>2
  <2> QED
    BY <2>1, <2>2
<1>20. maxSteps' > 1 /\ ((Going' /\ n + 1 + 1 >= maxSteps') \/ terminal' = "steps") =>
         \E i \in NotedIn(g, n + 1, "wrap_up") : i < 2 * maxSteps'
  <2> SUFFICES ASSUME maxSteps > 1, Going', n + 1 + 1 >= maxSteps
               PROVE  \E i \in NotedIn(g, n + 1, "wrap_up") : i < 2 * maxSteps
    <3>1. terminal' # "steps"
      BY <1>5, <1>8 DEF LoopReasons
    <3> QED
      BY <1>2, <3>1
  <2>1. n < maxSteps /\ maxSteps \in Nat
    BY <1>1, <1>2, <1>3 DEF WithinWalls
  <2>2. CASE softNoted
    <3>1. \E i \in NotedIn(h, n, "wrap_up") : TRUE
      BY <1>4, <2>2
    <3>2. PICK i : i \in NotedIn(h, n, "wrap_up")
      BY <3>1
    <3>3. i \in 1..(2 * n)
      BY <1>13, <3>2, NotesFinite
    <3>4. i < 2 * maxSteps
      BY <1>13, <2>1, <3>3
    <3>5. i \in NotedIn(g, n + 1, "wrap_up")
      <4>1. CASE "wrap_up" \in g[2 * n + 2].notes
        BY <3>2, <4>1, <1>14
      <4>2. CASE "wrap_up" \notin g[2 * n + 2].notes
        BY <3>2, <4>2, <1>14
      <4> QED
        BY <4>1, <4>2
    <3> QED
      BY <3>4, <3>5
  <2>3. CASE ~softNoted
    <3>1. ~(n + 1 >= maxSteps)
      BY <1>4, <2>3
    <3>2. NearBudgetWall'
      BY <1>2, <1>3 DEF NearBudgetWall
    <3>3. "wrap_up" \in g[2 * n + 2].notes
      BY <1>1, <1>12, <2>3, <3>2 DEF SoftNote
    <3>4. 2 * n + 2 \in NotedIn(g, n + 1, "wrap_up")
      BY <3>3, <1>14
    <3>5. 2 * n + 2 < 2 * maxSteps
      BY <1>13, <2>1, <3>1
    <3> QED
      BY <3>4, <3>5
  <2> QED
    BY <2>2, <2>3
<1>21. \A q \in 1..(n + 1) : IsDirect(CallsOf(g, q)) => q = n + 1 /\ node' \in DirectEnds
  <2> SUFFICES ASSUME NEW q \in 1..(n + 1), IsDirect(CallsOf(g, q))
               PROVE  q = n + 1 /\ node' \in DirectEnds
    OBVIOUS
  <2>1. q \notin 1..n
    <3>1. \A i \in 1..(2 * n) : g[i] = h[i]
      BY <1>1 DEF Extends
    <3>2. ASSUME q \in 1..n
          PROVE  CallsOf(g, q) = CallsOf(h, q)
      BY <1>13, <3>1, <3>2, SameRounds
    <3> QED
      BY <1>4, <3>2
  <2>2. q = n + 1
    BY <1>13, <2>1
  <2> QED
    BY <1>6, <1>7, <2>2 DEF DirectEnds
<1>22. History(g, n + 1)'
  BY <1>5, <1>6, <1>15, <1>16, <1>17, <1>18, <1>19, <1>20, <1>21 DEF History
<1> QED
  BY <1>1, <1>2, <1>9, <1>10, <1>11, <1>22 DEF LoopInv

LEMMA ToolsStep ==
  ASSUME LoopInv, RunTools
  PROVE  LoopInv'
BY ToolsRan, ToolsJudged

LEMMA LoopStarts == LoopInit => LoopInv
<1> SUFFICES ASSUME LoopInit
             PROVE  LoopInv
  OBVIOUS
<1>1. /\ maxSteps \in Nat /\ node = "chat" /\ transcript = <<>> /\ output = <<>>
      /\ step = 0 /\ visits = 0 /\ now = 0 /\ terminal = None
      /\ breaker = [errors |-> [t \in LoopTools |-> 0], lastKey |-> None, sameArgs |-> 0,
                    lastAt |-> None, corrections |-> 0]
      /\ softNoted = FALSE /\ delivered = None
  BY LoopAssumption DEF LoopInit
<1>2. /\ SameArgsThreshold \in Nat \ {0} /\ CorrectionBudget \in Nat \ {0}
      /\ None \notin {"same_args", "tool_errors", "time", "steps", "nothing"}
  BY LoopAssumption
<1>3. breaker \in Breakers
  <2>1. PICK zero : zero = [t \in LoopTools |-> 0]
    OBVIOUS
  <2>2. zero \in [LoopTools -> Nat] /\ 0 \in 0..CorrectionBudget /\ 0 \in Nat
    BY <1>2, <2>1
  <2>3. breaker = [errors |-> zero, lastKey |-> None, sameArgs |-> 0, lastAt |-> None,
                   corrections |-> 0]
    BY <1>1, <2>1, Zenon
  <2> QED
    BY <2>2, <2>3 DEF Breakers
<1>4. LoopShape
  <2>1. /\ transcript \in Seq(Messages) /\ output \in Seq(Messages)
        /\ Len(transcript) = 0 /\ Len(output) = 0
    <3> HIDE DEF Messages
    <3> QED
      BY <1>1
  <2>2. node = "chat" /\ step = 0 /\ visits = 0 /\ now = 0 /\ terminal = None /\ softNoted = FALSE
    BY <1>1
  <2>3. /\ Len(transcript) = 2 * step /\ Len(transcript) + Len(output) = 2 * step
        /\ Len(output) <= 1
    BY <2>1, <2>2
  <2>4. /\ maxSteps \in Nat /\ step \in Nat /\ visits \in Nat /\ now \in Nat
    BY <1>1, <2>2
  <2>5. softNoted \in BOOLEAN
    <3>1. softNoted = FALSE
      BY <2>2
    <3> QED
      BY <3>1
  <2>6. node = "chat" /\ terminal = None
    BY <2>2
  <2> QED
    BY <1>3, <2>1, <2>3, <2>4, <2>5, <2>6 DEF LoopShape
<1>5. WithinWalls
  BY <1>1, <1>2 DEF WithinWalls, Walls, Going
<1>6. Spoken
  BY <1>1, <1>2 DEF Spoken, ForcedTurnSpeaks
<1>7. PICK h, n : h = transcript \o output /\ n = step
  OBVIOUS
<1>8. n = 0 /\ 1..n = {} /\ 1..(2 * n) = {}
  BY <1>1, <1>7
<1>9. /\ breaker.sameArgs = 0 /\ breaker.corrections = 0 /\ breaker.lastKey = None
      /\ \A t \in LoopTools : breaker.errors[t] = 0
  BY <1>1
<1>10. Paired(h, n) /\ Streak(breaker, h, n)
  BY <1>8, <1>9 DEF Paired, Streak
<1>11. \A t : ErrorsIn(h, n, t) = {}
  BY <1>8 DEF ErrorsIn
<1>12. \A note : NotedIn(h, n, note) = {}
  BY <1>8 DEF NotedIn
<1>13. IsFiniteSet({}) /\ Cardinality({}) = 0
  BY FS_EmptySet
<1>14. terminal \notin LoopReasons /\ terminal # "steps"
  BY <1>1, <1>2 DEF LoopReasons
<1>15. ~(maxSteps > 1 /\ n + 1 >= maxSteps)
  BY <1>1, <1>8
<1>16. breaker.sameArgs < SameArgsThreshold + breaker.corrections
  BY <1>2, <1>9
<1>17. History(h, n)
  <2>1. /\ \A r \in 1..n, m \in Nat : RunIn(h, r, m) => m <= SameArgsThreshold + CorrectionBudget
        /\ \A r \in 1..n : IsDirect(CallsOf(h, r)) => r = n /\ node \in DirectEnds
    BY <1>8
  <2>2. \A t \in LoopTools : /\ IsFiniteSet(ErrorsIn(h, n, t))
                             /\ breaker.errors[t] <= Cardinality(ErrorsIn(h, n, t))
    BY <1>9, <1>11, <1>13
  <2>3. /\ breaker.corrections <= Cardinality(NotedIn(h, n, "correction"))
        /\ softNoted = FALSE /\ NotedIn(h, n, "wrap_up") = {}
    <3>1. NotedIn(h, n, "correction") = {} /\ NotedIn(h, n, "wrap_up") = {}
      BY <1>12
    <3>2. breaker.corrections <= Cardinality(NotedIn(h, n, "correction"))
      BY <1>9, <1>13, <3>1
    <3>3. softNoted = FALSE
      BY <1>1
    <3> QED
      BY <3>1, <3>2, <3>3
  <2> QED
    BY <1>10, <1>14, <1>15, <1>16, <2>1, <2>2, <2>3 DEF History
<1> QED
  BY <1>4, <1>5, <1>6, <1>7, <1>17 DEF LoopInv

LEMMA LoopKeeps == LoopInv /\ [LoopNext]_loopVars => LoopInv'
<1> SUFFICES ASSUME LoopInv, [LoopNext]_loopVars
             PROVE  LoopInv'
  OBVIOUS
<1>1. CASE ModelAnswers \/ Finalize \/ DirectReturn
  BY <1>1, LastNodeStep
<1>2. ASSUME NEW r \in Rounds, ModelCalls(r)
      PROVE  LoopInv'
  BY <1>2, CallsStep
<1>3. CASE ChatToFinalize
  BY <1>3, DropStep
<1>4. CASE RunTools
  BY <1>4, ToolsStep
<1>5. CASE HitBackstop \/ DeadlinePasses \/ NodeFails
  BY <1>5, BreakOffStep
<1>6. CASE Deliver
  BY <1>6, DeliverStep
<1>7. CASE UNCHANGED loopVars
  <2>1. UNCHANGED <<maxSteps, node, transcript, output, step, visits, now, terminal, breaker,
                    softNoted, delivered>>
    BY <1>7 DEF loopVars
  <2>2. /\ WithinWalls' /\ LoopShape' /\ Spoken'
    BY <2>1 DEF LoopInv, WithinWalls, LoopShape, Spoken, ForcedTurnSpeaks, Going
  <2> QED
    BY <2>1, <2>2, RoundsStay DEF Going
<1> QED
  BY <1>1, <1>2, <1>3, <1>4, <1>5, <1>6, <1>7 DEF LoopNext

-----------------------------------------------------------------------------
(* What the invariant says of a turn                                       *)

\* Every message of n rounds is the request or the results of one of them.
LEMMA OddOrEven ==
  ASSUME NEW n \in Nat, NEW i \in 1..(2 * n)
  PROVE  \E r \in 1..n : (i = 2 * r - 1 /\ i % 2 = 1) \/ (i = 2 * r /\ i % 2 = 0)
<1>1. CASE i % 2 = 1
  <2>1. (i + 1) \div 2 \in 1..n /\ i = 2 * ((i + 1) \div 2) - 1
    BY <1>1
  <2> QED
    BY <1>1, <2>1
<1>2. CASE i % 2 = 0
  <2>1. i \div 2 \in 1..n /\ i = 2 * (i \div 2)
    BY <1>2
  <2> QED
    BY <1>2, <2>1
<1>3. i % 2 = 0 \/ i % 2 = 1
  OBVIOUS
<1> QED
  BY <1>1, <1>2, <1>3

\* The recorded messages of an answered round.
LEMMA RoundRecorded ==
  ASSUME LoopShape, NEW h, NEW n, h = transcript \o output, n = step, Paired(h, n)
  PROVE  /\ n \in Nat /\ \A i \in 1..Len(transcript) : transcript[i] = h[i]
         /\ Len(transcript) <= 2 * n /\ 2 * n <= Len(h) /\ Len(transcript) >= 2 * n - 1
         /\ Len(transcript) \in Nat
         /\ ToolRounds = {2 * r - 1 : r \in 1..n}
<1>1. /\ transcript \in Seq(Messages) /\ output \in Seq(Messages) /\ n \in Nat
      /\ Len(transcript) \in {2 * n, 2 * n - 1}
      /\ Len(transcript) + Len(output) \in {2 * n, 2 * n + 1}
  BY DEF LoopShape
<1>2. /\ h \in Seq(Messages) /\ Len(h) = Len(transcript) + Len(output)
      /\ \A i \in 1..Len(transcript) : h[i] = transcript[i]
  BY <1>1, Recorded
<1>3. Len(transcript) \in Nat
  BY <1>1
<1>4. Len(transcript) <= 2 * n /\ 2 * n <= Len(h) /\ Len(transcript) >= 2 * n - 1
  BY <1>1, <1>2, <1>3
<1>5. ASSUME NEW i \in ToolRounds
      PROVE  \E r \in 1..n : i = 2 * r - 1
  <2>1. i \in 1..Len(transcript) /\ transcript[i].kind = "calls"
    BY DEF ToolRounds, CallsAt
  <2>2. i \in 1..(2 * n) /\ h[i].kind = "calls"
    BY <1>1, <1>2, <1>3, <1>4, <2>1
  <2>3. PICK r \in 1..n : i = 2 * r - 1 \/ i = 2 * r
    BY <1>1, <2>2, OddOrEven
  <2>4. h[2 * r].kind = "results"
    BY DEF Paired
  <2> QED
    BY <2>2, <2>3, <2>4
<1>6. ASSUME NEW r \in 1..n
      PROVE  2 * r - 1 \in ToolRounds
  <2>1. 2 * r - 1 \in 1..Len(transcript)
    BY <1>1, <1>3, <1>4
  <2>2. transcript[2 * r - 1].kind = "calls"
    BY <1>2, <2>1 DEF Paired
  <2> QED
    BY <2>1, <2>2 DEF ToolRounds, CallsAt
<1>7. ToolRounds = {2 * r - 1 : r \in 1..n}
  BY <1>5, <1>6
<1> QED
  BY <1>1, <1>2, <1>3, <1>4, <1>7

\* The rounds as TurnsEndWell reads them.
LEMMA RoundRead ==
  ASSUME LoopShape, NEW h, NEW n, h = transcript \o output, n = step, Paired(h, n),
         NEW r \in 1..n
  PROVE  /\ transcript[2 * r - 1].calls = CallsOf(h, r) /\ ResultOf(2 * r - 1) = h[2 * r]
         /\ Answered(2 * r - 1)
<1>1. /\ n \in Nat /\ \A i \in 1..Len(transcript) : transcript[i] = h[i]
      /\ Len(transcript) >= 2 * n - 1 /\ 2 * n <= Len(h) /\ Len(transcript) \in Nat
  BY RoundRecorded
<1>2. 2 * r - 1 \in 1..Len(transcript) /\ (2 * r - 1) + 1 = 2 * r
  BY <1>1
<1>3. Len(h) \in Nat
  <2>1. transcript \in Seq(Messages) /\ output \in Seq(Messages)
    BY DEF LoopShape
  <2>2. h \in Seq(Messages)
    BY <2>1, Recorded
  <2> QED
    BY <2>2
<1>4. 2 * r <= Len(h)
  BY <1>1, <1>3
<1> QED
  BY <1>1, <1>2, <1>4 DEF CallsOf, ResultOf, Answered

LEMMA RunRead ==
  ASSUME LoopShape, NEW h, NEW n, h = transcript \o output, n = step, Paired(h, n),
         NEW r \in 1..n, NEW m \in Nat
  PROVE  TightRun(2 * r - 1, m) <=> RunIn(h, r, m)
<1>1. n \in Nat
  BY RoundRecorded
<1>2. ASSUME NEW q \in 1..n
      PROVE  TightRepeat(2 * q - 1) <=> RepeatIn(h, q)
  <2>1. /\ transcript[2 * q - 1].calls = CallsOf(h, q) /\ ResultOf(2 * q - 1) = h[2 * q]
        /\ Answered(2 * q - 1)
    BY RoundRead
  <2>2. 2 * q - 1 > 2 <=> q > 1
    BY <1>1
  <2>3. CASE q > 1
    <3>1. q - 1 \in 1..n /\ (2 * q - 1) - 2 = 2 * (q - 1) - 1
      BY <1>1, <2>3
    <3>2. /\ transcript[2 * (q - 1) - 1].calls = CallsOf(h, q - 1)
          /\ ResultOf(2 * (q - 1) - 1) = h[2 * (q - 1)]
      BY <3>1, RoundRead
    <3> QED
      BY <2>1, <2>2, <2>3, <3>1, <3>2 DEF TightRepeat, RepeatIn, TimeOf
  <2>4. CASE ~(q > 1)
    BY <2>2, <2>4 DEF TightRepeat, RepeatIn
  <2> QED
    BY <2>3, <2>4
<1>3. ASSUME NEW k \in 0..(m - 2)
      PROVE  (2 * r - 1) - 2 * k > 0 /\ TightRepeat((2 * r - 1) - 2 * k)
               <=> r - k > 0 /\ RepeatIn(h, r - k)
  <2>1. (2 * r - 1) - 2 * k = 2 * (r - k) - 1 /\ (2 * (r - k) - 1 > 0 <=> r - k > 0)
    BY <1>1
  <2>2. CASE r - k > 0
    <3>1. r - k \in 1..n
      BY <1>1, <2>2
    <3>2. TightRepeat(2 * (r - k) - 1) <=> RepeatIn(h, r - k)
      BY <1>2, <3>1
    <3> QED
      BY <2>1, <2>2, <3>2
  <2>3. CASE ~(r - k > 0)
    BY <2>1, <2>3
  <2> QED
    BY <2>2, <2>3
<1> QED
  BY <1>3 DEF TightRun, RunIn

LEMMA ErrorsRead ==
  ASSUME LoopShape, NEW h, NEW n, h = transcript \o output, n = step, Paired(h, n), NEW t
  PROVE  ErrorsOf(t) = ErrorsIn(h, n, t)
<1> DEFINE Of(i) == {<<i, j>> : j \in {k \in 1..Len(transcript[i].calls) :
                         transcript[i].calls[k].tool = t /\ ResultOf(i).errs[k]}}
           In(r) == {<<2 * r - 1, k>> : k \in Failed(CallsOf(h, r), h[2 * r].errs, t)}
<1>1. ASSUME NEW r \in 1..n
      PROVE  Of(2 * r - 1) = In(r) /\ Answered(2 * r - 1)
  BY RoundRead DEF Failed
<1>2. ToolRounds = {2 * r - 1 : r \in 1..n}
  BY RoundRecorded
<1>3. {k \in ToolRounds : Answered(k)} = {2 * r - 1 : r \in 1..n}
  BY <1>1, <1>2
<1>4. ErrorsOf(t) = UNION {Of(i) : i \in {k \in ToolRounds : Answered(k)}}
  BY DEF ErrorsOf
<1>5. ErrorsIn(h, n, t) = UNION {In(r) : r \in 1..n}
  BY DEF ErrorsIn
<1> HIDE DEF Of, In
<1>6. {Of(i) : i \in {2 * r - 1 : r \in 1..n}} = {In(r) : r \in 1..n}
  BY <1>1
<1> QED
  BY <1>3, <1>4, <1>5, <1>6

LEMMA LoopSound ==
  ASSUME LoopInv
  PROVE  TurnsEndWell
<1>1. PICK h, n : h = transcript \o output /\ n = step /\ History(h, n)
  BY DEF LoopInv
<1>2. LoopShape /\ WithinWalls /\ Spoken /\ Paired(h, n)
  BY <1>1 DEF LoopInv, History
<1>3. /\ n \in Nat /\ \A i \in 1..Len(transcript) : transcript[i] = h[i]
      /\ Len(transcript) <= 2 * n /\ 2 * n <= Len(h) /\ Len(transcript) >= 2 * n - 1
      /\ Len(transcript) \in Nat
      /\ ToolRounds = {2 * r - 1 : r \in 1..n}
  BY <1>1, <1>2, RoundRecorded
<1>4. ASSUME NEW i \in ToolRounds
      PROVE  \E r \in 1..n : i = 2 * r - 1
  BY <1>3
<1>5. TurnWithinBudget
  BY <1>2 DEF WithinWalls, TurnWithinBudget
<1>6. TranscriptClosed
  <2> SUFFICES ASSUME node \in {"chat", "finalize", "answered", "finalized", "silent", "direct"}
               PROVE  /\ Len(h) % 2 = 0
                      /\ \A i \in 1..Len(h) :
                           h[i].kind = IF i % 2 = 1 THEN "calls" ELSE "results"
    BY <1>1 DEF TranscriptClosed
  <2>1. Len(h) = 2 * n
    <3>1. transcript \in Seq(Messages) /\ output \in Seq(Messages)
      BY <1>2 DEF LoopShape
    <3>2. Len(h) = Len(transcript) + Len(output)
      BY <1>1, <3>1, Recorded
    <3>3. Len(transcript) + Len(output) = 2 * n
      BY <1>1, <1>2 DEF LoopShape
    <3> QED
      BY <3>2, <3>3
  <2>2. (2 * n) % 2 = 0
    BY <1>3
  <2>3. ASSUME NEW i \in 1..(2 * n)
        PROVE  h[i].kind = IF i % 2 = 1 THEN "calls" ELSE "results"
    <3>1. PICK r \in 1..n : (i = 2 * r - 1 /\ i % 2 = 1) \/ (i = 2 * r /\ i % 2 = 0)
      BY <1>3, OddOrEven
    <3>2. h[2 * r - 1].kind = "calls" /\ h[2 * r].kind = "results"
      BY <1>2 DEF Paired
    <3> QED
      BY <3>1, <3>2
  <2> QED
    BY <2>1, <2>2, <2>3
<1>7. LoopsOnlyWhenLooping
  <2> SUFFICES ASSUME terminal \in LoopReasons
               PROVE  /\ breaker.corrections = CorrectionBudget
                      /\ Cardinality(Nudges) >= CorrectionBudget
                      /\ terminal = "same_args" =>
                           \E i \in ToolRounds : TightRun(i, SameArgsThreshold)
                      /\ terminal = "tool_errors" =>
                           \E t \in LoopTools : Cardinality(ErrorsOf(t)) >= ErrLoopThreshold
    BY DEF LoopsOnlyWhenLooping
  <2>1. Looped(h, n)
    BY <1>1 DEF History
  <2>2. n > 0 /\ n \in 1..n /\ n - 1 \in Nat
    BY <1>3, <2>1 DEF Looped
  <2>3. CorrectionBudget \in Nat /\ SameArgsThreshold \in Nat /\ ErrLoopThreshold \in Nat
    BY LoopAssumption
  <2>4. Cardinality(Nudges) >= CorrectionBudget
    <3>1. NotedIn(h, n - 1, "correction") \subseteq Nudges
      <4> SUFFICES ASSUME NEW i \in NotedIn(h, n - 1, "correction")
                   PROVE  i \in Nudges
        OBVIOUS
      <4>1. i \in 1..(2 * (n - 1)) /\ h[i].kind = "results" /\ "correction" \in h[i].notes
        BY DEF NotedIn
      <4>2. i \in 1..Len(transcript)
        BY <1>3, <2>2, <4>1
      <4> QED
        BY <1>3, <4>1, <4>2 DEF Nudges, ResultsAt
    <3>2. IsFiniteSet(1..Len(transcript))
      BY <1>3, FS_Interval
    <3>3. Nudges \in SUBSET (1..Len(transcript))
      BY DEF Nudges
    <3>4. IsFiniteSet(Nudges) /\ Cardinality(Nudges) \in Nat
      BY <3>2, <3>3, FS_Subset, FS_CardinalityType
    <3>5. Cardinality(NotedIn(h, n - 1, "correction")) <= Cardinality(Nudges)
      BY <3>1, <3>4, FS_Subset
    <3>6. Cardinality(NotedIn(h, n - 1, "correction")) \in Nat
      BY <2>2, NotesFinite
    <3> QED
      BY <2>1, <2>3, <3>4, <3>5, <3>6 DEF Looped
  <2>5. ASSUME terminal = "same_args"
        PROVE  \E i \in ToolRounds : TightRun(i, SameArgsThreshold)
    <3>1. RunIn(h, n, SameArgsThreshold)
      BY <2>1, <2>5 DEF Looped
    <3>2. TightRun(2 * n - 1, SameArgsThreshold)
      BY <1>1, <1>2, <2>2, <2>3, <3>1, RunRead
    <3> QED
      BY <1>3, <2>2, <3>2
  <2>6. ASSUME terminal = "tool_errors"
        PROVE  \E t \in LoopTools : Cardinality(ErrorsOf(t)) >= ErrLoopThreshold
    <3>1. PICK t \in LoopTools : ErrLoopThreshold <= Cardinality(ErrorsIn(h, n, t))
      BY <2>1, <2>6 DEF Looped
    <3>2. ErrorsOf(t) = ErrorsIn(h, n, t)
      BY <1>1, <1>2, ErrorsRead
    <3>3. Cardinality(ErrorsIn(h, n, t)) \in Nat
      BY <1>1, FS_CardinalityType DEF History
    <3> QED
      BY <2>3, <3>1, <3>2, <3>3
  <2> QED
    BY <2>1, <2>4, <2>5, <2>6 DEF Looped
<1>8. TightLoopsEnd
  <2> SUFFICES ASSUME NEW i \in ToolRounds, TightRun(i, SameArgsThreshold + CorrectionBudget + 1)
               PROVE  FALSE
    BY DEF TightLoopsEnd
  <2>1. PICK r \in 1..n : i = 2 * r - 1
    BY <1>4
  <2>2. PICK top : top = SameArgsThreshold + CorrectionBudget
    OBVIOUS
  <2>3. top \in Nat /\ top + 1 \in Nat
    BY <2>2, LoopAssumption
  <2>4. RunIn(h, r, top + 1)
    BY <1>1, <1>2, <2>1, <2>2, <2>3, RunRead
  <2>5. top + 1 <= top
    BY <1>1, <2>2, <2>3, <2>4 DEF History
  <2> QED
    BY <2>3, <2>5
<1>9. WarnedBeforeWall
  <2> DEFINE warned == {i \in 1..Len(transcript) :
                          ResultsAt(i) /\ "wrap_up" \in transcript[i].notes}
  <2>1. \A i \in 1..Len(transcript) : i \in 1..(2 * n)
    BY <1>3
  <2>2. warned \subseteq NotedIn(h, n, "wrap_up")
    BY <1>3, <2>1 DEF NotedIn, ResultsAt
  <2>3. \A i, j \in warned : i = j
    BY <1>1, <2>2 DEF History
  <2>4. ASSUME terminal = "steps", maxSteps > 1
        PROVE  \E i \in warned : i < 2 * maxSteps
    <3>1. PICK i \in NotedIn(h, n, "wrap_up") : i < 2 * maxSteps
      BY <1>1, <2>4 DEF History
    <3>2. Len(transcript) = 2 * n
      BY <1>1, <1>2, <2>4 DEF WithinWalls, Walls
    <3>3. i \in 1..Len(transcript) /\ h[i].kind = "results" /\ "wrap_up" \in h[i].notes
      BY <3>2 DEF NotedIn
    <3>4. i \in warned
      BY <1>3, <3>3 DEF ResultsAt
    <3> QED
      BY <3>1, <3>4
  <2> QED
    BY <2>3, <2>4 DEF WarnedBeforeWall
<1>10. DirectReturnEnds
  <2> SUFFICES ASSUME NEW i \in ToolRounds,
                      ToolsOf(transcript[i].calls) \cap ReturnDirectly # {}
               PROVE  i >= Len(transcript) - 1 /\ node \in DirectEnds
    BY DEF DirectReturnEnds, DirectEnds
  <2>1. PICK r \in 1..n : i = 2 * r - 1
    BY <1>4
  <2>2. transcript[2 * r - 1].calls = CallsOf(h, r)
    BY <1>1, <1>2, RoundRead
  <2>3. r = n /\ node \in DirectEnds
    BY <1>1, <2>1, <2>2 DEF History, IsDirect
  <2> QED
    BY <1>3, <2>1, <2>3
<1> QED
  BY <1>2, <1>5, <1>6, <1>7, <1>8, <1>9, <1>10 DEF TurnsEndWell, Spoken

\* However a turn ends, it is within its budget, its transcript has a result for each
\* call, a loop or a direct return ends it exactly when it should, the model is warned
\* before the step wall, and a turn ended by force has something to say (owned_loop.go).
THEOREM EndsWell == LoopSpec => []TurnsEndWell
<1>1. LoopSpec => []LoopInv
  BY LoopStarts, LoopKeeps, PTL DEF LoopSpec
<1>2. LoopInv => TurnsEndWell
  BY LoopSound
<1> QED
  BY <1>1, <1>2, PTL

-----------------------------------------------------------------------------
(* The types of a turn                                                     *)

\* What the engine counts is bounded by what bounds the nodes run.
LoopTypes ==
  /\ maxSteps \in StepLimits /\ visits \in 0..BackstopSteps
  /\ delivered \in {None, "answer", "fallback", "tool", "nothing", "error"}

LEMMA LoopTypesStep ==
  ASSUME LoopTypes, [LoopNext]_loopVars
  PROVE  LoopTypes'
<1>1. \/ \E n : Runs(n)
      \/ UNCHANGED <<maxSteps, visits>>
  <2>1. CASE ModelAnswers
    BY <2>1 DEF ModelAnswers
  <2>2. ASSUME NEW r \in Rounds, ModelCalls(r) PROVE \E n : Runs(n)
    BY <2>2 DEF ModelCalls
  <2>3. CASE ChatToFinalize
    BY <2>3 DEF ChatToFinalize
  <2>4. CASE RunTools
    BY <2>4 DEF RunTools
  <2>5. CASE DirectReturn
    BY <2>5 DEF DirectReturn
  <2>6. CASE Finalize
    BY <2>6 DEF Finalize
  <2>7. CASE HitBackstop \/ DeadlinePasses \/ NodeFails \/ Deliver
    BY <2>7 DEF HitBackstop, DeadlinePasses, NodeFails, Deliver
  <2>8. CASE UNCHANGED loopVars
    BY <2>8 DEF loopVars
  <2>9. QED
    BY <2>1, <2>2, <2>3, <2>4, <2>5, <2>6, <2>7, <2>8 DEF LoopNext
<1>2. maxSteps' = maxSteps /\ BackstopSteps' = BackstopSteps /\ BackstopSteps \in Nat
  <2>1. maxSteps' = maxSteps
    BY <1>1 DEF Runs
  <2>2. maxSteps \in Nat /\ UnlimitedBackstop \in Nat
    BY LoopAssumption DEF LoopTypes
  <2>3. QED
    BY <2>1, <2>2 DEF BackstopSteps
<1>3. visits' \in 0..BackstopSteps
  <2>1. \/ visits' = visits
        \/ /\ visits < BackstopSteps
           /\ visits' = visits + 1
    <3>1. ASSUME NEW n, Runs(n) PROVE visits < BackstopSteps /\ visits' = visits + 1
      BY <3>1 DEF Runs
    <3>2. QED
      BY <1>1, <3>1
  <2>2. visits \in 0..BackstopSteps
    BY DEF LoopTypes
  <2>3. QED
    BY <1>2, <2>1, <2>2
<1>4. delivered' \in {None, "answer", "fallback", "tool", "nothing", "error"}
  <2>1. CASE Deliver
    <3>1. Fallback \in {"fallback", "nothing"}
      BY DEF Fallback
    <3>2. \/ delivered' = "answer" \/ delivered' = "error" \/ delivered' = "tool"
          \/ delivered' = Fallback
      BY <2>1 DEF Deliver
    <3>3. QED
      BY <3>1, <3>2
  <2>2. CASE ~Deliver
    <3>1. delivered' = delivered
      BY <2>2 DEF LoopNext, loopVars, Runs, ModelAnswers, ModelCalls, ChatToFinalize, RunTools,
                  DirectReturn, Finalize, HitBackstop, DeadlinePasses, NodeFails
    <3>2. QED
      BY <3>1 DEF LoopTypes
  <2>3. QED
    BY <2>1, <2>2
<1>5. QED
  BY <1>2, <1>3, <1>4 DEF LoopTypes

\* A streak of equal calls is no longer than the turn.
LEMMA StreakWithinTurn ==
  ASSUME NEW h, NEW n \in Nat, NEW b, b.sameArgs \in Nat, Streak(b, h, n)
  PROVE  b.sameArgs \in 0..n
<1>1. CASE n = 0 \/ Len(CallsOf(h, n)) # 1
  BY <1>1 DEF Streak
<1>2. CASE n > 0 /\ Len(CallsOf(h, n)) = 1 /\ b.sameArgs <= 1
  BY <1>2
<1>3. CASE n > 0 /\ Len(CallsOf(h, n)) = 1 /\ b.sameArgs > 1
  <2>1. PICK m \in Nat \ {0} : m = b.sameArgs /\ m > 1
    BY <1>3
  <2>2. RunIn(h, n, m)
    BY <1>3, <2>1 DEF Streak
  <2>3. m - 2 \in 0..(m - 2)
    BY <2>1
  <2>4. RepeatIn(h, n - (m - 2))
    BY <2>2, <2>3 DEF RunIn
  <2>5. n - (m - 2) > 1
    BY <2>1, <2>4 DEF RepeatIn
  <2>6. QED
    BY <2>1, <2>5
<1>4. QED
  BY <1>1, <1>2, <1>3

\* Steps, visits and breakers count what they should and no further than their bounds, and
\* the transcript has two messages a step (ownedState, detectLoop, WithMaxRunSteps).
THEOREM CountsWithinBounds == LoopSpec => []LoopTypeOK
<1>1. LoopInit => LoopTypes
  <2> SUFFICES ASSUME LoopInit PROVE LoopTypes
    OBVIOUS
  <2>1. maxSteps \in Nat /\ UnlimitedBackstop \in Nat
    BY LoopAssumption DEF LoopInit
  <2>2. 0 \in 0..BackstopSteps
    BY <2>1 DEF BackstopSteps
  <2>3. QED
    BY <2>2 DEF LoopInit, LoopTypes
<1>2. LoopTypes /\ [LoopNext]_loopVars => LoopTypes'
  BY LoopTypesStep
<1>3. LoopInv /\ LoopTypes => LoopTypeOK
  <2>1. SUFFICES ASSUME LoopInv, LoopTypes PROVE LoopTypeOK
    OBVIOUS
  <2>2. PICK h, n : n = step /\ History(h, n)
    BY <2>1 DEF LoopInv
  <2>3. LoopShape /\ step \in Nat
    BY <2>1 DEF LoopInv, LoopShape
  <2>4. /\ breaker.sameArgs \in Nat /\ breaker.corrections \in 0..CorrectionBudget
        /\ \A t \in LoopTools : breaker.errors[t] \in Nat
    BY <2>3 DEF LoopShape, Breakers
  <2>5. breaker.sameArgs \in 0..step
    BY <2>2, <2>3, <2>4, StreakWithinTurn DEF History
  <2>6. /\ node \in {"chat", "tools", "finalize", "direct_return", "chat_to_finalize"} \cup Ended
        /\ Len(transcript) \in {2 * step, 2 * step - 1} /\ Len(output) <= 1
        /\ terminal \in {None} \cup LoopReasons \cup Walls
        /\ softNoted \in BOOLEAN
    BY <2>3 DEF LoopShape
  <2>7. QED
    BY <2>1, <2>3, <2>4, <2>5, <2>6 DEF LoopTypes, LoopTypeOK
<1>4. LoopSpec => []LoopInv
  BY LoopStarts, LoopKeeps, PTL DEF LoopSpec
<1>5. LoopSpec => []LoopTypes
  BY <1>1, <1>2, PTL DEF LoopSpec
<1>6. QED
  BY <1>3, <1>4, <1>5, PTL
=============================================================================
