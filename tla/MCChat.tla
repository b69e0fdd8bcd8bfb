------------------------------ MODULE MCChat ------------------------------
(* Instances of ChatSession for TLC. *)
EXTENDS ChatProperties, TLC

CONSTANTS r1, r2, r3, s1, s2

OneSession == [r \in Requests |-> s1]
\* r3 talks in a session of its own.
TwoSessions == [r \in Requests |-> IF r = r3 THEN s2 ELSE s1]

SymmetricPair == Permutations({r1, r2})
\* At most two requests: both of one session, or one of each.
TwoRequests == Cardinality({r \in Requests : ~At(r, "new")}) <= 2
\* A chunk is published in a turn that runs while the other request, of its session, is
\* not past subscribing; turns that overlap show no more than "error" and "done".
Subscribing == {"new", "create", "subscribe", "insert", "enqueue"}
ChunksAmidSubscribers ==
  \A t \in Requests : chunks[t] > 0 =>
    /\ At(r3, "new")
    /\ \A q \in Requests \ {t} : request[q].pc \in Subscribing /\ LoopAt(q, "off")
=============================================================================
