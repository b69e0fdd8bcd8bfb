-------------------------- MODULE ContextRewriter --------------------------
(***************************************************************************)
(* agents/context_rewriter.go: which messages of a conversation survive a  *)
(* budget.  A message is [role, ids, size]: ids are the calls an assistant *)
(* message makes, or the one call a tool message answers; size is what     *)
(* messageChars measures.  The system message is left out: the modifier    *)
(* adds it after the rewriter ran.                                         *)
(***************************************************************************)
EXTENDS Naturals, Sequences, FiniteSets, FiniteSetsExt, SequencesExt

Indices(ms, role) == {i \in 1..Len(ms) : ms[i].role = role}
UserMessages(ms) == Indices(ms, "user")
Callers(ms, from) == {i \in Indices(ms, "assistant") : i >= from /\ ms[i].ids # <<>>}
Weight(ms, S) ==
    LET upTo[i \in 0..Len(ms)] ==
            IF i = 0 THEN 0 ELSE upTo[i - 1] + IF i \in S THEN ms[i].size ELSE 0
    IN  upTo[Len(ms)]
IdsOf(m) == {m.ids[k] : k \in 1..Len(m.ids)}

\* Variant: the user messages are counted from the oldest.
OldestUsersThatFit(ms, budget) ==
    LET fitting == {i \in UserMessages(ms) : Weight(ms, {j \in UserMessages(ms) : j <= i}) <= budget}
    IN  IF UserMessages(ms) = {} \/ fitting = {} THEN 1 ELSE Max(fitting)

\* truncateToUserBudget: the cut keeps the most recent user messages that fit, and
\* the last one even if it does not.
FirstKept(ms, budget) ==
    IF UserMessages(ms) = {} THEN 1
    ELSE Min({Max(UserMessages(ms))} \cup
             {i \in UserMessages(ms) : Weight(ms, {j \in UserMessages(ms) : j >= i}) <= budget})

\* ownerAssistant: the last assistant message with that id, or the one just before;
\* 0 when there is none.
Owner(ms, from, j) ==
    LET byId == {a \in Callers(ms, from) : IdsOf(ms[j]) \subseteq IdsOf(ms[a])}
    IN  IF byId # {} THEN Max(byId)
        ELSE IF j - 1 \in Callers(ms, from) THEN j - 1 ELSE 0

\* Variant: an assistant message and its results are judged one by one.
GroupOfOne(ms, from, owner, i) == {i}

\* What is kept or dropped together with message i; {} if i cannot be kept (a
\* result without a call, a call without any result).
Group(ms, from, owner, i) ==
    LET caller == IF ms[i].role = "tool" THEN owner[i] ELSE i
        answers == {j \in DOMAIN owner : j >= from /\ owner[j] = caller}
    IN  CASE caller = 0 -> {}
          [] caller \in Callers(ms, from) /\ answers = {} -> {}
          [] caller \in Callers(ms, from) /\ answers # {} -> {caller} \cup answers
          [] OTHER -> {i}

\* Variant: the pass starts at the oldest message.
FitOldestFirst(ms, from, room) ==
    LET owner == [j \in Indices(ms, "tool") |-> Owner(ms, from, j)]
        passed[i \in (from - 1)..Len(ms)] ==
            IF i < from THEN {}
            ELSE LET g == Group(ms, from, owner, i)
                 IN  IF ms[i].role # "user" /\ Weight(ms, passed[i - 1] \cup g) <= room
                     THEN passed[i - 1] \cup g ELSE passed[i - 1]
    IN  passed[Len(ms)]

\* fitNonUserMessages: one pass over the other messages from the newest on, each
\* group once.  passed[i] is what messages i and later have decided.
Fit(ms, from, room) ==
    LET owner == [j \in Indices(ms, "tool") |-> Owner(ms, from, j)]
        passed[i \in from..(Len(ms) + 1)] ==
            IF i > Len(ms) THEN [done |-> {}, keep |-> {}]
            ELSE LET acc == passed[i + 1]
                     g == Group(ms, from, owner, i)
                     fits == g # {} /\ Weight(ms, acc.keep \cup g) <= room
                 IN  IF ms[i].role = "user" \/ i \in acc.done THEN acc
                     ELSE [done |-> acc.done \cup g,
                           keep |-> IF fits THEN acc.keep \cup g ELSE acc.keep]
    IN  passed[from].keep

\* Variant: the room for the rest is the whole budget.
RoomForgettingUsers(ms, users, budget) == budget

Room(ms, users, budget) ==
    LET used == Weight(ms, users) IN IF used < budget THEN budget - used ELSE 0

\* The indices of ms that the rewriter keeps.
Survivors(ms, budget) ==
    IF Weight(ms, 1..Len(ms)) <= budget THEN 1..Len(ms)
    ELSE LET from == FirstKept(ms, budget)
             users == {i \in UserMessages(ms) : i >= from}
         IN  users \cup Fit(ms, from, Room(ms, users, budget))

\* The messages with those indices, in the order of the conversation.
Only(ms, S) ==
    LET upTo[i \in 0..Len(ms)] ==
            IF i = 0 THEN <<>>
            ELSE IF i \in S THEN Append(upTo[i - 1], ms[i]) ELSE upTo[i - 1]
    IN  upTo[Len(ms)]
=============================================================================
